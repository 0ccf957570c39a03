------------------------------ MODULE Workspace ------------------------------
(***************************************************************************)
(* A MemoryEnv (env.go) shared by the sessions of an agent, and the        *)
(* built-in tools write, edit and glob (tools.go) that use it at the same  *)
(* time; Lookups has those that only read.  Each operation of the          *)
(* environment is atomic, under its mutex; a tool is several operations    *)
(* with nothing held in between.                                           *)
(*                                                                         *)
(* A path is the sequence of its names below the root "/", <<>>.  Names    *)
(* are numbers, in the order sort.Strings gives them; a text is a sequence *)
(* of words, so that occurrences of a word can be counted and replaced.    *)
(***************************************************************************)
EXTENDS Integers, Sequences, SequencesExt, FiniteSetsExt

CONSTANTS
    Names,      \* names of files and directories
    Paths,      \* bound: paths the clients use, with all their ancestors
    Words,      \* words of a text
    MaxWords,   \* bound: words in a text
    Written,    \* texts each client writes
    Edits,      \* pairs <<oldText, newText>> the clients edit with
    Patterns,   \* glob patterns, each as the set of names it matches
    Limits,     \* bound: the values of maxGlobResults to check
    Clients,    \* sessions, and the application
    Own,        \* the paths each client changes
    Globbers,   \* bound: the clients that use glob and the tools of Lookups
    Searches,   \* bound: the words grep is asked for
    Roots       \* bound: the paths glob and grep start from

Texts == UNION {[1..n -> Words] : n \in 0..MaxWords}
None  == <<"none">>                                 \* no file at a path
NoWord == "no word"

ASSUME WorkspaceAssumption ==
    /\ Names \subseteq Nat /\ Paths \subseteq Seq(Names)
    /\ \A p \in Paths : \A n \in 0..Len(p) : SubSeq(p, 1, n) \in Paths
    /\ <<>> \in Paths
    /\ None \notin Texts /\ Written \in [Clients -> SUBSET Texts]
    /\ Edits \subseteq Words \X Words
    /\ Patterns \subseteq SUBSET Names
    /\ Limits \subseteq Nat \ {0}
    /\ Own \in [Clients -> SUBSET Paths]
    /\ Globbers \subseteq Clients
    /\ Searches \subseteq Words /\ NoWord \notin Words /\ Roots \subseteq Paths

VARIABLES
    files,   \* MemoryEnv.files: the text at each path, or None
    dirs,    \* MemoryEnv.dirs
    job      \* the tool each client is in the middle of

vars == <<files, dirs, job>>

-----------------------------------------------------------------------------
(* MemoryEnv. *)

IsFile(p)  == files[p] # None
Up(p)      == {q \in Paths : IsPrefix(q, p)}          \* p and its ancestors
Below(p)   == {q \in Paths : IsStrictPrefix(p, q)}

(* Stat looks at the files first: a path may be a file and a directory. *)
IsDirectory(p) == ~IsFile(p) /\ p \in dirs

(* The elements of S in order (SetToSortSeq, without its detour over an order that
   is arbitrary). *)
InOrder(S, Op(_, _)) ==
    CHOOSE s \in [1..Cardinality(S) -> S] : \A i, j \in DOMAIN s : i < j => Op(s[i], s[j])

(* The names ReadDir gives, in order: of the directories just below p, and the
   first name of each file anywhere below p. *)
EntryNames(p) ==
    LET below == {q \in Below(p) : IsFile(q) \/ (q \in dirs /\ Len(q) = Len(p) + 1)}
    IN  {q[Len(p) + 1] : q \in below}
Entries(p) == InOrder(EntryNames(p), <)

(* Mutant: only the parent of the file is made. *)
WriteShallow(p, text) ==
    /\ files' = [files EXCEPT ![p] = text]
    /\ dirs' = dirs \cup (IF p = <<>> THEN {p} ELSE {Front(p)})

WriteFile(p, text) ==
    /\ files' = [files EXCEPT ![p] = text]
    /\ dirs' = dirs \cup {<<>>} \cup (Up(p) \ {p})

Mkdir(p) == dirs' = dirs \cup Up(p) /\ UNCHANGED files

(* Mutant: the directories below p stay. *)
RemoveOneDir(p) ==
    IF IsFile(p)
    THEN files' = [files EXCEPT ![p] = None] /\ UNCHANGED dirs
    ELSE /\ p \in dirs
         /\ files' = [q \in Paths |-> IF q \in Below(p) THEN None ELSE files[q]]
         /\ dirs' = dirs \ {p}

(* Without Recursive a directory is refused. *)
RemoveAll(p) ==
    IF IsFile(p)
    THEN files' = [files EXCEPT ![p] = None] /\ UNCHANGED dirs
    ELSE /\ p \in dirs
         /\ files' = [q \in Paths |-> IF q \in Below(p) THEN None ELSE files[q]]
         /\ dirs' = dirs \ ({p} \cup Below(p))

-----------------------------------------------------------------------------
(* Tools in progress.  A glob may be the beginning of a grep for a word.  steady:
   the files below the root that have been in plain sight since the tool began,
   for a grep unchanged as well, a ghost.  read: the text an edit has read. *)

NoJob  == [tool |-> "none"]
Frame  == [dir : Paths, unread : BOOLEAN, left : Seq(Names)]
Unread(p) == [dir |-> p, unread |-> TRUE, left |-> <<>>]
EditJob == [tool : {"edit"}, path : Paths, old : Words, new : Words,
            all : BOOLEAN, read : Texts, text : Texts]
GlobJob == [tool : {"glob"}, root : Paths, match : SUBSET Names,
            word : Words \cup {NoWord}, limit : Limits, frames : Seq(Frame),
            out : SUBSET Paths, steady : SUBSET Paths, done : BOOLEAN]

Idle(c)  == job[c].tool = "none"
Does(c, tool) == job[c].tool = tool

(* In plain sight of a walk from r: no directory on the way is a file as well,
   which Stat takes it for. *)
InSight(fs, r) ==
    {p \in Below(r) : fs[p] # None
                       /\ \A q \in Below(r) : IsStrictPrefix(q, p) => fs[q] = None}

(* The jobs after a step of client c. *)
Unchanged == {p \in Paths : files'[p] = files[p]}
Kept(j) == InSight(files', j.root) \cap (IF j.word = NoWord THEN Paths ELSE Unchanged)
Calm == (\A p \in Paths : IsFile(p) => files'[p] # None) /\ dirs \subseteq dirs'
Steady(j) == CASE j.tool \in {"glob", "grep"} -> [j EXCEPT !.steady = @ \cap Kept(j)]
               [] j.tool = "discover" -> [j EXCEPT !.steady = @ \cap Unchanged, !.calm = @ /\ Calm]
               [] OTHER -> j
Becomes(c, j) == job' = [d \in Clients |-> Steady(IF d = c THEN j ELSE job[d])]

Looks(c, j) == UNCHANGED <<files, dirs>> /\ Becomes(c, j)

Init == /\ files = [p \in Paths |-> None] /\ dirs = {<<>>}
        /\ job = [c \in Clients |-> NoJob]

(* The write tool; the application's own Mkdir and Remove. *)
Write(c) == /\ Idle(c)
            /\ \E p \in Own[c], text \in Written[c] : WriteFile(p, text)
            /\ Becomes(c, NoJob)
Arrange(c) == /\ Idle(c)
              /\ \E p \in Own[c] : Mkdir(p) \/ RemoveAll(p)
              /\ Becomes(c, NoJob)

-----------------------------------------------------------------------------
(* The edit tool: ReadFile, then WriteFile of the text with oldText replaced. *)

Places(text, old) == {i \in DOMAIN text : text[i] = old}

(* Mutant: the new text is spliced in and the old one not skipped. *)
ReplaceKeepsOld(text, n, old, new) ==
    IF n = 0 THEN text ELSE InsertAt(text, Min(Places(text, old)), new)

ReplaceFirst(text, n, old, new) ==       \* strings.Replace with count n
    [i \in DOMAIN text |->
        IF text[i] = old /\ Cardinality(Places(SubSeq(text, 1, i), old)) <= n
        THEN new ELSE text[i]]

(* Mutant: an oldText that occurs twice is no error. *)
EditAmbiguous(c) ==
    \E p \in Own[c], e \in Edits, all \in BOOLEAN :
        LET count == Cardinality(Places(files[p], e[1])) IN
        /\ Idle(c) /\ IsFile(p) /\ count > 0
        /\ Looks(c, [tool |-> "edit", path |-> p, old |-> e[1], new |-> e[2], all |-> all,
                     read |-> files[p],
                     text |-> ReplaceFirst(files[p], count, e[1], e[2])])

EditRead(c) ==
    \E p \in Own[c], e \in Edits, all \in BOOLEAN :
        LET count == Cardinality(Places(files[p], e[1])) IN
        /\ Idle(c) /\ IsFile(p)
        /\ count > 0 /\ (~all => count = 1)
        /\ Looks(c, [tool |-> "edit", path |-> p, old |-> e[1], new |-> e[2], all |-> all,
                     read |-> files[p],
                     text |-> ReplaceFirst(files[p], IF all THEN count ELSE 1, e[1], e[2])])

EditWrite(c) ==
    /\ Does(c, "edit")
    /\ WriteFile(job[c].path, job[c].text)
    /\ Becomes(c, NoJob)

(* The context of a tool is done: the WriteFile of an edit fails; a glob finds
   out at its next operation. *)
Cancelled(c) ==
    \/ Does(c, "edit") /\ Looks(c, NoJob)
    \/ /\ Does(c, "glob") /\ ~job[c].done
       /\ Looks(c, [job[c] EXCEPT !.done = TRUE, !.steady = {}])

-----------------------------------------------------------------------------
(* The glob tool (globFiles): walk, with one frame for each call of it. *)

Walking(c)    == Does(c, "glob") /\ job[c].frames # <<>>
TopFrame(c)   == Last(job[c].frames)
Full(c, out)  == Cardinality(out) >= job[c].limit
Found(c, entry) == Append(TopFrame(c).dir, entry)
Rest(c)       == [TopFrame(c) EXCEPT !.left = Tail(@)]
Frames(c, frames) == [job[c] EXCEPT !.frames = frames]

Globs(c, r, match, word) ==
    \E n \in Limits :
        Looks(c, [tool |-> "glob", root |-> r, match |-> match, word |-> word, limit |-> n,
                  frames |-> <<Unread(r)>>, out |-> {}, steady |-> InSight(files, r),
                  done |-> FALSE])

GlobStart(c) ==
    /\ Idle(c) /\ c \in Globbers
    /\ \E r \in Roots, m \in Patterns : Globs(c, r, m, NoWord)

(* A walk starts: with enough results it returns at once; a directory that is
   gone, or a context that is done, ends the whole glob with an error. *)
ReadDir(c) ==
    LET f == TopFrame(c) IN
    /\ Walking(c) /\ f.unread
    /\ IF Full(c, job[c].out) THEN Looks(c, Frames(c, Front(job[c].frames)))
       ELSE IF job[c].done \/ f.dir \notin dirs THEN Looks(c, NoJob)
       ELSE Looks(c, Frames(c, Append(Front(job[c].frames),
                 [dir |-> f.dir, unread |-> FALSE, left |-> Entries(f.dir)])))

(* Mutant: a walk into a full result goes on with its own entries. *)
StatUnlimited(c) ==
    LET entry == Head(TopFrame(c).left)
        p     == Found(c, entry)
        rest  == Append(Front(job[c].frames), Rest(c))
    IN  /\ Walking(c) /\ ~TopFrame(c).unread /\ TopFrame(c).left # <<>>
        /\ Looks(c, IF IsDirectory(p) THEN Frames(c, Append(rest, Unread(p)))
                    ELSE [Frames(c, rest) EXCEPT
                             !.out = IF IsFile(p) /\ entry \in job[c].match
                                     THEN @ \cup {p} ELSE @])

(* Mutant: an entry that is gone ends the walk of its directory. *)
StatGivesUp(c) ==
    LET entry == Head(TopFrame(c).left)
        p     == Found(c, entry)
        rest  == Append(Front(job[c].frames), Rest(c))
    IN  /\ Walking(c) /\ ~TopFrame(c).unread /\ TopFrame(c).left # <<>>
        /\ Looks(c, IF IsDirectory(p) THEN Frames(c, Append(rest, Unread(p)))
                    ELSE IF ~IsFile(p) THEN Frames(c, Front(job[c].frames))
                    ELSE [Frames(c, rest) EXCEPT
                             !.out = IF entry \in job[c].match THEN @ \cup {p} ELSE @])

(* Stat of the next entry: an error, because it is gone or the context is done,
   which skips it; a directory to walk; or a file to list.  Only a file looks at
   the limit before the walk goes on. *)
StatEntry(c) ==
    LET entry == Head(TopFrame(c).left)
        p     == Found(c, entry)
        rest  == Append(Front(job[c].frames), Rest(c))
        out   == IF entry \in job[c].match THEN job[c].out \cup {p} ELSE job[c].out
    IN  /\ Walking(c) /\ ~TopFrame(c).unread /\ TopFrame(c).left # <<>>
        /\ Looks(c, IF job[c].done \/ ~(IsFile(p) \/ IsDirectory(p)) THEN Frames(c, rest)
                    ELSE IF IsDirectory(p) THEN Frames(c, Append(rest, Unread(p)))
                    ELSE [Frames(c, IF Full(c, out) THEN Front(job[c].frames) ELSE rest)
                             EXCEPT !.out = out])

WalkReturns(c) ==
    /\ Walking(c) /\ ~TopFrame(c).unread /\ TopFrame(c).left = <<>>
    /\ Looks(c, Frames(c, Front(job[c].frames)))

GlobReturns(c) ==
    /\ Does(c, "glob") /\ ~Walking(c) /\ job[c].word = NoWord
    /\ Looks(c, NoJob)

Next == \E c \in Clients :
            \/ Write(c) \/ Arrange(c) \/ EditRead(c) \/ EditWrite(c) \/ Cancelled(c)
            \/ GlobStart(c) \/ ReadDir(c) \/ StatEntry(c) \/ WalkReturns(c) \/ GlobReturns(c)

-----------------------------------------------------------------------------
(* Properties. *)

(* Whatever is written, made and removed, even the root, every file and every
   directory can be reached: the path above it is a directory. *)
TreeClosed ==
    \A p \in Paths \ {<<>>} : (IsFile(p) \/ p \in dirs) => Front(p) \in dirs

(* A glob that returns lists every file that matches and was in plain sight all
   along, unless the result is full.  (A glob whose context is done may return
   without an error and without the rest of the directory it was in: nothing is
   steady for it.) *)
GlobFindsSteadyFiles ==
    \A c \in Clients : Does(c, "glob") /\ ~Walking(c) =>
        \/ Full(c, job[c].out)
        \/ \A p \in job[c].steady : Last(p) \in job[c].match => p \in job[c].out

(* "results are bounded" (docs/SECURITY.md), though not by maxGlobResults: each
   directory on the way to the file that fills the result adds one file more. *)
DepthOf(j) == Max({Len(p) - Len(j.root) : p \in j.out})
GlobBounded ==
    \A c \in Clients : Does(c, "glob") /\ Full(c, job[c].out) =>
        Cardinality(job[c].out) < job[c].limit + DepthOf(job[c])

(* "Edit a file using exact text replacement. Non-replaceAll edits must be
   unique": what an edit writes is the text it has read with the occurrences of
   oldText replaced and nothing else, and one only without replaceAll.  The tool
   holds nothing between reading and writing; in a file that no other client
   changes the text is still the one it has read, unless the file is gone. *)
Replaces(before, after, j) ==
    /\ DOMAIN after = DOMAIN before
    /\ \A i \in DOMAIN before : after[i] = IF before[i] = j.old THEN j.new ELSE before[i]
    /\ ~j.all => Cardinality(Places(before, j.old)) = 1
EditWrites(c) == /\ Does(c, "edit") /\ ~Does(c, "edit")'
                 /\ files'[job[c].path] # files[job[c].path]
Private(c, p) == \A d \in Clients \ {c} : p \notin Own[d]
EditReplacesExactly ==
    [][\A c \in Clients : EditWrites(c) =>
          LET j == job[c] IN
          /\ Replaces(j.read, files'[j.path], j)
          /\ Private(c, j.path) /\ IsFile(j.path) => files[j.path] = j.read]_vars
=============================================================================
