------------------------------- MODULE Lookups -------------------------------
(***************************************************************************)
(* The tools read and grep (tools.go), and the discovery of AGENTS.md,     *)
(* skills and roles by which NewAgent begins (context.go).  They only read *)
(* the environment, in several operations, while others change it.         *)
(***************************************************************************)
EXTENDS Workspace

CONSTANTS
    MaxGrepMatches,
    MaxReadLines,
    MaxReadBytes,   \* in words
    MaxInt,         \* the largest int
    Args,           \* bound: offsets and limits the model asks for
    AgentsFiles,    \* AGENTS.md and CLAUDE.md
    SkillsDir,      \* .agents/skills
    SkillName,      \* the name SKILL.md
    RolesDir,       \* roles
    RoleNames       \* names that end in .md or .markdown

ASSUME LookupsAssumption ==
    /\ {MaxGrepMatches, MaxReadLines, MaxReadBytes, MaxInt} \subseteq Nat \ {0}
    /\ MaxWords \in Nat /\ MaxWords + MaxReadLines <= MaxInt  \* texts fit in memory
    /\ Args \subseteq (-MaxInt - 1)..MaxInt
    /\ IsFiniteSet(Paths)
    /\ AgentsFiles \in Seq(Paths) /\ {SkillsDir, RolesDir} \subseteq Paths
    /\ SkillName \in Names /\ RoleNames \subseteq Names

-----------------------------------------------------------------------------
(* The read tool: Stat, then ReadDir or ReadFile, whichever Stat suggests; both
   fail if the path has changed meanwhile. *)

ReadStat(c) ==
    /\ Idle(c) /\ c \in Globbers
    /\ \E p \in Roots : Looks(c, [tool |-> "read", path |-> p, list |-> IsDirectory(p)])

ReadReturns(c) == Does(c, "read") /\ Looks(c, NoJob)

(* What a file's text is shown as: truncateLinesAndBytes, limitString.  A word is
   a line; int wraps around, and a slice that ends past its text is a panic. *)
Wrap(n) == ((n + MaxInt + 1) % (2 * (MaxInt + 1))) - (MaxInt + 1)
Truncated == "[truncated]"
Panic == <<"panic">>
LimitString(s, max) == IF Len(s) <= max THEN s ELSE Append(SubSeq(s, 1, max), Truncated)

(* Mutant: the offset is taken to count from zero. *)
ShownFromZero(text, offset, limit) ==
    LET start == IF offset > 0 THEN offset ELSE 0
        end   == IF limit > 0 /\ Wrap(start + limit) < Len(text)
                 THEN Wrap(start + limit) ELSE Len(text)
        last  == IF Wrap(end - start) > MaxReadLines THEN start + MaxReadLines ELSE end
    IN  IF start >= Len(text) THEN <<>>
        ELSE IF last \notin start..Len(text) THEN Panic
        ELSE LimitString(SubSeq(text, start + 1, last), MaxReadBytes)

Shown(text, offset, limit) ==
    LET start == IF offset > 0 THEN offset - 1 ELSE 0
        end   == IF limit > 0 /\ Wrap(start + limit) < Len(text)
                 THEN Wrap(start + limit) ELSE Len(text)
        last  == IF Wrap(end - start) > MaxReadLines THEN start + MaxReadLines ELSE end
    IN  IF start >= Len(text) THEN <<>>
        ELSE IF last \notin start..Len(text) THEN Panic
        ELSE LimitString(SubSeq(text, start + 1, last), MaxReadBytes)

-----------------------------------------------------------------------------
(* The grep tool: a glob of every file, then ReadFile of each, in the order of
   their paths; a file that cannot be read is skipped. *)

GrepStart(c) ==
    /\ Idle(c) /\ c \in Globbers
    /\ \E r \in Roots, w \in Searches : Globs(c, r, Names, w)

(* The order of the paths' strings: by their names, a directory before what is in it. *)
Before(p, q) ==
    \/ IsStrictPrefix(p, q)
    \/ \E i \in DOMAIN p \cap DOMAIN q : SubSeq(p, 1, i - 1) = SubSeq(q, 1, i - 1) /\ p[i] < q[i]

GrepFiles(c) ==
    /\ Does(c, "glob") /\ ~Walking(c) /\ job[c].word # NoWord
    /\ Looks(c, [tool |-> "grep", root |-> job[c].root, word |-> job[c].word,
                 left |-> InOrder(job[c].out, Before), cut |-> Full(c, job[c].out),
                 matches |-> {}, steady |-> job[c].steady, done |-> job[c].done])

Lines(p, w) == {<<p, i>> : i \in {n \in DOMAIN files[p] : files[p][n] = w}}
First(lines, n) == {l \in lines : Cardinality({k \in lines : k[2] < l[2]}) < n}

(* Mutant: a file that cannot be read ends the search. *)
GrepGivesUp(c) ==
    LET j == job[c]
        p == Head(j.left)
        m == j.matches \cup First(Lines(p, j.word), MaxGrepMatches - Cardinality(j.matches))
    IN  /\ Does(c, "grep") /\ j.left # <<>>
        /\ Looks(c, IF j.done \/ ~IsFile(p) THEN [j EXCEPT !.left = <<>>]
                    ELSE [j EXCEPT !.matches = m,
                              !.left = IF Cardinality(m) = MaxGrepMatches THEN <<>> ELSE Tail(@)])

GrepFile(c) ==
    LET j == job[c]
        p == Head(j.left)
        m == j.matches \cup First(Lines(p, j.word), MaxGrepMatches - Cardinality(j.matches))
    IN  /\ Does(c, "grep") /\ j.left # <<>>
        /\ Looks(c, IF j.done \/ ~IsFile(p) THEN [j EXCEPT !.left = Tail(@)]
                    ELSE [j EXCEPT !.matches = m,
                              !.left = IF Cardinality(m) = MaxGrepMatches THEN <<>> ELSE Tail(@)])

GrepReturns(c) == Does(c, "grep") /\ job[c].left = <<>> /\ Looks(c, NoJob)

-----------------------------------------------------------------------------
(* DiscoverContext.  todo: what is left to look at, in order: files to read and
   directories to list, and whether they are known to exist.  found: the files
   read.  calm: nothing was removed since it began, a ghost. *)

Item(kind, p, known) == [kind |-> kind, path |-> p, known |-> known]
Discover(c, todo) == [tool |-> "discover", todo |-> todo, found |-> {}, failed |-> "no",
                      steady |-> {p \in Paths : IsFile(p)}, calm |-> TRUE, done |-> FALSE]

(* Mutant: the files of the workspace are read without looking whether they exist. *)
DiscoverUnchecked(c) ==
    /\ Idle(c) /\ c \in Globbers
    /\ Looks(c, Discover(c, [i \in DOMAIN AgentsFiles |-> Item("file", AgentsFiles[i], TRUE)]
                            \o <<Item("skills", SkillsDir, FALSE), Item("roles", RolesDir, FALSE)>>))

DiscoverStart(c) ==
    /\ Idle(c) /\ c \in Globbers
    /\ Looks(c, Discover(c, [i \in DOMAIN AgentsFiles |-> Item("file", AgentsFiles[i], FALSE)]
                            \o <<Item("skills", SkillsDir, FALSE), Item("roles", RolesDir, FALSE)>>))

Discovers(c) == Does(c, "discover") /\ job[c].todo # <<>> /\ job[c].failed = "no"
Top(c)       == Head(job[c].todo)
Goes(c, todo) == Looks(c, [job[c] EXCEPT !.todo = todo])
Fails(c)     == Looks(c, [job[c] EXCEPT !.failed =
                    IF job[c].done THEN "cancelled"
                    ELSE IF Top(c).path \in dirs \/ IsFile(Top(c).path) THEN "mistaken" ELSE "gone"])

(* Mutant: nothing there ends the discovery. *)
ExistsOrStops(c) ==
    /\ Discovers(c) /\ ~Top(c).known
    /\ IF job[c].done THEN Fails(c)
       ELSE IF IsFile(Top(c).path) \/ Top(c).path \in dirs
            THEN Goes(c, <<[Top(c) EXCEPT !.known = TRUE]>> \o Tail(job[c].todo))
            ELSE Goes(c, <<>>)

Exists(c) ==
    /\ Discovers(c) /\ ~Top(c).known
    /\ IF job[c].done THEN Fails(c)
       ELSE IF IsFile(Top(c).path) \/ Top(c).path \in dirs
            THEN Goes(c, <<[Top(c) EXCEPT !.known = TRUE]>> \o Tail(job[c].todo))
            ELSE Goes(c, Tail(job[c].todo))

(* ReadFile: of a file that is gone, or a directory in its place, an error, which
   ends the discovery, and NewAgent. *)
DiscoverFile(c) ==
    /\ Discovers(c) /\ Top(c).known /\ Top(c).kind = "file"
    /\ IF job[c].done \/ ~IsFile(Top(c).path) THEN Fails(c)
       ELSE Looks(c, [job[c] EXCEPT !.todo = Tail(@), !.found = @ \cup {Top(c).path}])

(* ReadDir: of each skill its SKILL.md is looked for; a role is an entry itself.
   (Paths beyond the bound do not exist.) *)
Listed(i) ==
    LET role    == i.kind = "roles"
        file(e) == IF role THEN Append(i.path, e) ELSE i.path \o <<e, SkillName>>
        entries == InOrder({e \in EntryNames(i.path) : /\ file(e) \in Paths
                                                       /\ role => e \in RoleNames}, <)
    IN  [n \in DOMAIN entries |-> Item("file", file(entries[n]), role)]
DiscoverDir(c) ==
    /\ Discovers(c) /\ Top(c).known /\ Top(c).kind \in {"skills", "roles"}
    /\ IF job[c].done \/ Top(c).path \notin dirs THEN Fails(c)
       ELSE Goes(c, Listed(Top(c)) \o Tail(job[c].todo))

DiscoverReturns(c) == Does(c, "discover") /\ ~Discovers(c) /\ Looks(c, NoJob)

(* The context of the caller is done. *)
LookupCancelled(c) ==
    /\ job[c].tool \in {"grep", "discover"} /\ ~job[c].done
    /\ Looks(c, [job[c] EXCEPT !.done = TRUE, !.steady = {}])

Lookup(c) ==
    \/ ReadStat(c) \/ ReadReturns(c)
    \/ GrepStart(c) \/ GrepFiles(c) \/ GrepFile(c) \/ GrepReturns(c)
    \/ DiscoverStart(c) \/ Exists(c) \/ DiscoverFile(c) \/ DiscoverDir(c) \/ DiscoverReturns(c)
    \/ LookupCancelled(c)

LookupsNext == Next \/ \E c \in Clients : Lookup(c)
LookupsSpec == Init /\ [][LookupsNext]_vars

-----------------------------------------------------------------------------
(* Properties. *)

ReadJob == [tool : {"read"}, path : Paths, list : BOOLEAN]
GrepJob == [tool : {"grep"}, root : Paths, word : Words, left : Seq(Paths), cut : BOOLEAN,
            matches : SUBSET (Paths \X (1..MaxWords)), steady : SUBSET Paths, done : BOOLEAN]
DiscoverJob == [tool : {"discover"}, todo : Seq([kind : {"file", "skills", "roles"},
                    path : Paths, known : BOOLEAN]), found : SUBSET Paths,
                failed : {"no", "cancelled", "mistaken", "gone"}, steady : SUBSET Paths,
                calm : BOOLEAN, done : BOOLEAN]

LookupsTypeOK ==
    /\ files \in [Paths -> Texts \cup {None}] /\ dirs \subseteq Paths
    /\ job \in [Clients -> {NoJob} \cup EditJob \cup GlobJob \cup ReadJob \cup GrepJob
                             \cup DiscoverJob]

(* What read shows of a file: at most limit lines from the offset on, and no more
   than fit; except that it panics near the end of a file if the sum of offset and
   limit is no int. *)
ReadShowsSlice ==
    \A c \in Clients : Does(c, "read") /\ IsFile(job[c].path) =>
        \A offset, limit \in Args :
            LET text  == files[job[c].path]
                start == Max({offset, 1})
                lines == {i \in DOMAIN text : /\ i >= start /\ i < start + MaxReadLines
                                              /\ limit > 0 => i < start + limit}
                shown == [i \in 1..Cardinality(lines) |-> text[start + i - 1]]
            IN  Shown(text, offset, limit) =
                    IF /\ start - 1 + limit > MaxInt
                       /\ Len(text) \in start..(start + MaxReadLines - 2) THEN Panic
                    ELSE LimitString(shown, MaxReadBytes)

(* A grep that returns shows every line with the word of every file that was in
   plain sight and unchanged all along, unless it has as many as it may show, or
   the glob it began with was full. *)
GrepFindsSteadyLines ==
    \A c \in Clients : Does(c, "grep") /\ job[c].left = <<>> =>
        /\ Cardinality(job[c].matches) <= MaxGrepMatches
        /\ \/ job[c].cut \/ Cardinality(job[c].matches) = MaxGrepMatches
           \/ \A p \in job[c].steady : Lines(p, job[c].word) \subseteq job[c].matches

(* A discovery that succeeds has read every AGENTS.md, skill and role that was
   there and unchanged all along. *)
Wanted(p) == \/ p \in ToSet(AgentsFiles)
             \/ Len(p) = Len(SkillsDir) + 2 /\ IsPrefix(SkillsDir, p) /\ Last(p) = SkillName
             \/ Len(p) = Len(RolesDir) + 1 /\ IsPrefix(RolesDir, p) /\ Last(p) \in RoleNames
DiscoveryFindsSteady ==
    \A c \in Clients : Does(c, "discover") /\ job[c].todo = <<>> /\ job[c].failed = "no" =>
        \A p \in job[c].steady : Wanted(p) => p \in job[c].found

(* NewAgent fails for the sake of a missing file or directory only if something
   was removed between two of its steps: what is not there from the start is no
   error.  (A directory in place of a file is one, and a file in place of a directory.) *)
DiscoveryFailsIfDisturbed ==
    \A c \in Clients : Does(c, "discover") /\ job[c].failed = "gone" => ~job[c].calm
=============================================================================
