---------------------------- MODULE StatusScreen ----------------------------
(***************************************************************************)
(* status-screen.py of the commit skill: from git's status it tells        *)
(* whether everything may be staged, what is staged be kept, or somebody   *)
(* be asked.  It runs over a repository that is worked on: three trees     *)
(* (the last commit, the index, the files), edited, staged, merged and     *)
(* committed in any order.                                                 *)
(*                                                                         *)
(* A path is the sequence of its components, in lower case.  What the      *)
(* script reads off a file name (its tables of names and extensions) is    *)
(* given as sets of names, what it reads off a file as the kind of its     *)
(* content: a text, a binary or large file, a symlink, a git repository.   *)
(***************************************************************************)
EXTENDS Integers, SequencesExt

CONSTANTS
    Layouts,        \* the paths there may be, each layout in the order git lists them
    Contents(_),    \* what a path may hold
    Home,           \* repo_is_home: the repository is the home directory
    Cwd,            \* the current directory, below the repository's root
    PrivateNames,   \* private, by name, prefix or extension
    EnvTemplates,   \* is_env_template
    SafeNames,      \* SAFE_FILENAMES and SAFE_EXTENSIONS
    TomlNames,      \* the names that end with .toml
    RiskyNames,     \* RISKY_EXTENSIONS
    GeneratedParts, \* GENERATED_PARTS
    RuntimeParts,   \* AGENT_RUNTIME_STATE_COMPONENTS
    RuntimeNames,   \* AGENT_RUNTIME_STATE_FILES and logs
    IgnoredPaths,   \* is_ignored_by_rules
    Submodules,     \* has_gitmodules_entry
    DirtyRepos,     \* repositories with changes of their own
    Misread(_),     \* what parse_status_z makes of a path where it expects a code: a field
    None            \* Python's None

VARIABLES
    order,              \* the repository's layout, which never changes
    head, index, work,  \* the last commit, the index and the files: content by path
    told                \* history: the screen's word, if the last step staged all on it

trees == <<head, index, work>>
vars  == <<order, trees, told>>

Paths == Range(order)

Absent == "absent"  \* no such path in this tree
Intent == "intent"  \* git add --intent-to-add: in the index without a content
Conflict == [UU |-> <<"U", "U">>, AA |-> <<"A", "A">>, DD |-> <<"D", "D">>]

(* Paths are sequences of names; no content is mistaken for its absence,   *)
(* and None for nothing else.                                              *)
ASSUME ScreenAssumption ==
    /\ None # "safe_to_stage_all"
    /\ Cwd \in Seq(STRING)
    /\ \A o \in Layouts :
          /\ o \in Seq(Seq(STRING))
          /\ \A p \in Range(o) :
                /\ p # None
                /\ Contents(p) \cap ({Absent, Intent} \cup DOMAIN Conflict) = {}

Kind(content) == IF content \in {"binary", "symlink", "repo"} THEN content ELSE "text"

-----------------------------------------------------------------------------
(* git status --porcelain=v1 -z --untracked-files=all, with renames: one   *)
(* field for a path and its code, one more for the original of a rename.   *)

Unmerged(p) == index[p] \in DOMAIN Conflict
Holds(p)    == index[p] \in Contents(p)

(* A path that came is a rename of one that went with the same content. *)
Renames(came, went, old, new) ==
    LET pairs == {r \in went \X came : old[r[1]] = new[r[2]]}
    IN {r \in pairs :
          /\ r[1] = CHOOSE p \in went : <<p, r[2]>> \in pairs
          /\ r[2] = CHOOSE q \in came : <<r[1], q>> \in pairs}

IndexRenames ==
    Renames({p \in Paths : head[p] = Absent /\ Holds(p)},
            {p \in Paths : head[p] # Absent /\ index[p] = Absent},
            head, index)

WorkRenames ==
    Renames({p \in Paths : index[p] = Intent /\ work[p] # Absent},
            {p \in Paths : Holds(p) /\ work[p] = Absent},
            index, work)

Goes(p, renames)   == \E q \in Paths : <<p, q>> \in renames
Origin(q, renames) == CHOOSE p \in Paths : <<p, q>> \in renames
Comes(q, renames)  == \E p \in Paths : <<p, q>> \in renames

IndexCode(p, renames) ==
    IF Comes(p, renames) THEN "R"
    ELSE IF Goes(p, renames) THEN " "
    ELSE IF head[p] = Absent /\ Holds(p) THEN "A"
    ELSE IF head[p] # Absent /\ index[p] = Absent THEN "D"
    ELSE IF Holds(p) /\ index[p] # head[p] THEN "M"
    ELSE " "

WorkCode(p, renames) ==
    IF Comes(p, renames) THEN "R"
    ELSE IF Goes(p, renames) \/ index[p] = Absent THEN " "
    ELSE IF work[p] = Absent THEN "D"
    ELSE IF index[p] = Intent THEN "A"
    ELSE IF work[p] # index[p] THEN "M"
    ELSE " "

(* A field is a code and a path; an original path has no code.  Git prints *)
(* nothing for a blank code, but its place is kept here.                   *)
Field(x, y, p) == [code |-> <<x, y>>, path |-> p]
Bare(p)        == [code |-> <<>>, path |-> p]
Blank          == <<" ", " ">>

Tracked(p, indexRenames, workRenames) ==
    IF Unmerged(p) THEN Field(Conflict[index[p]][1], Conflict[index[p]][2], p)
    ELSE Field(IndexCode(p, indexRenames), WorkCode(p, workRenames), p)

Renamed(p, indexRenames, workRenames) ==
    IF Comes(p, indexRenames) THEN Bare(Origin(p, indexRenames))
    ELSE IF Comes(p, workRenames) THEN Bare(Origin(p, workRenames))
    ELSE Field(" ", " ", p)

Untracked(p) ==
    IF index[p] = Absent /\ work[p] # Absent /\ p \notin IgnoredPaths
    THEN Field("?", "?", p) ELSE Field(" ", " ", p)

(* two places for each tracked path, then one for each untracked one *)
GitStatus ==
    LET indexRenames == IndexRenames
        workRenames  == WorkRenames
        n            == Len(order)
    IN [i \in 1 .. 3 * n |->
           IF i > 2 * n THEN Untracked(order[i - 2 * n])
           ELSE IF i % 2 = 1 THEN Tracked(order[(i + 1) \div 2], indexRenames, workRenames)
           ELSE Renamed(order[i \div 2], indexRenames, workRenames)]

-----------------------------------------------------------------------------
(* parse_status_z and the properties of a StatusEntry.                     *)

Entry(x, y, p, original) ==
    [index |-> x, worktree |-> y, path |-> p, original_path |-> original]

(* What a field is taken for that is not taken for an original path; a     *)
(* blank code stands for one that is skipped.                              *)
Read(field) == IF field.code = <<>> THEN Misread(field.path) ELSE field

Leads(field) == Read(field).code[1] \in {"R", "C"}

(* A field with a code of its own, taken for an original path, is no path. *)
Original(field) ==
    IF field.code = <<>> THEN field.path ELSE [field.path EXCEPT ![1] = None]

(* the original path of a rename is left to be read as an entry *)
ParseEach(fields) ==
    {Entry(f.code[1], f.code[2], f.path, None) :
        f \in {f \in {Read(fields[n]) : n \in DOMAIN fields} : f.code # Blank}}

(* The parser takes the field after a rename for its original path,        *)
(* whatever it is: whether it expects one, after the first n fields.       *)
Expects(fields) ==
    LET expects[n \in 0 .. Len(fields)] ==
            IF n = 0 THEN FALSE
            ELSE IF fields[n].code = Blank THEN expects[n - 1]
            ELSE ~expects[n - 1] /\ Leads(fields[n])
    IN expects

ParseStatusZ(fields) ==
    LET expects == Expects(fields)
        after(n) == {m \in n + 1 .. Len(fields) : fields[m].code # Blank}
        original(n) ==
            IF Leads(fields[n]) /\ after(n) # {} THEN Original(fields[Min(after(n))]) ELSE None
        read == {n \in 1 .. Len(fields) : ~expects[n - 1] /\ Read(fields[n]).code # Blank}
    IN {Entry(Read(fields[n]).code[1], Read(fields[n]).code[2], Read(fields[n]).path, original(n)) :
           n \in read}

(* what has no content of its own does not count as changed *)
HasNewContent(e) == e.worktree \in {"?", "A", "R"}

IsUntracked(e)       == e.index = "?" /\ e.worktree = "?"
IsStaged(e)          == e.index \notin {" ", "?", "!"}
IsWorktreeChanged(e) == e.worktree \notin {" ", "!"}
IntroducesPath(e)    == IsUntracked(e) \/ {e.index, e.worktree} \cap {"A", "R", "C"} # {}
IsPartialStaged(e)   == IsStaged(e) /\ IsWorktreeChanged(e)
IsPureDeletion(e)    == <<e.index, e.worktree>> \in {<<"D", " ">>, <<" ", "D">>}

IsConflict(e) ==
    \/ "U" \in {e.index, e.worktree}
    \/ <<e.index, e.worktree>> \in {<<"A", "A">>, <<"D", "D">>}

-----------------------------------------------------------------------------
(* The repository's own skills: directories under .agents/skills whose     *)
(* SKILL.md is committed or comes with this change.                        *)

Name(path) == Last(path)
Marker(root) == Append(root, "skill.md")

SkillParentPaths == {SubSeq(Cwd, 1, n) \o <<".agents", "skills">> : n \in 0 .. Len(Cwd)}

(* skill_root_from_path, of the longest parent that fits *)
SkillRoots(path) ==
    LET parents == {s \in SkillParentPaths : IsPrefix(s, path) /\ Len(path) > Len(s)}
    IN {SubSeq(path, 1, Len(s) + 1) :
           s \in {s \in parents : \A t \in parents : Len(t) <= Len(s)}}

PathsOf(e) == {e.path, e.original_path} \ {None}

StagedSkillRoots(entries) ==
    UNION {SkillRoots(p) : p \in UNION {PathsOf(e) : e \in {e \in entries : IsStaged(e)}}}

IntroducedMarkers(entries) ==
    {e.path : e \in {e \in entries :
        /\ IntroducesPath(e)
        /\ Name(e.path) = "skill.md"
        /\ \E root \in SkillRoots(e.path) :
              IsStaged(e) \/ root \notin StagedSkillRoots(entries)}}

DeletedMarkers(entries) ==
    {e.path : e \in {e \in entries : "D" \in {e.index, e.worktree}}}
        \cup {e.original_path : e \in {e \in entries : "R" \in {e.index, e.worktree}}}

HeadHas(path) == path \in Paths /\ head[path] # Absent

(* a SKILL.md that is being deleted still makes a skill *)
RootsOfHead(entries) ==
    LET changed    == UNION {SkillRoots(p) : p \in UNION {PathsOf(e) : e \in entries}}
        original   == {root \in changed : HeadHas(Marker(root))}
        introduced == {root \in changed : Marker(root) \in IntroducedMarkers(entries)}
    IN IF Home THEN [current |-> {}, original |-> {}]
       ELSE [current |-> original \cup introduced, original |-> original]

(* build_repo_skill_roots *)
BuildRepoSkillRoots(entries) ==
    LET changed    == UNION {SkillRoots(p) : p \in UNION {PathsOf(e) : e \in entries}}
        original   == {root \in changed : HeadHas(Marker(root))}
        surviving  == {root \in original : Marker(root) \notin DeletedMarkers(entries)}
        introduced == {root \in changed : Marker(root) \in IntroducedMarkers(entries)}
    IN IF Home THEN [current |-> {}, original |-> {}]
       ELSE [current |-> surviving \cup introduced, original |-> original]

-----------------------------------------------------------------------------
(* file_risk: "block", "safe", or a reason to ask.                         *)

AgentParts == {".agents", ".claude", ".codex"}

ManagedAgentSource == <<"agents", ".codex", "agents.md">>
AgentMarketplace   == <<".agents", "plugins", "marketplace.json">>

RuntimeState(path) ==
    path # <<>> /\ (Range(path) \cap RuntimeParts # {} \/ Name(path) \in RuntimeNames)

RootsAbove(path, roots) == {r \in roots : IsPrefix(r, path)}
RootAbove(path, roots) ==
    CHOOSE r \in RootsAbove(path, roots) : \A s \in RootsAbove(path, roots) : Len(s) <= Len(r)
Below(path, n) == SubSeq(path, n + 1, Len(path))

CodexSource(tail) ==
    \/ tail \in {<<"config.toml">>, <<"hooks.json">>}
    \/ Len(tail) >= 2 /\ tail[1] \in {"hooks", "rules"}
    \/ Len(tail) = 2 /\ tail[1] = "agents" /\ tail[2] \in TomlNames

AgentPathRisk(path, roots) ==
    LET places == {i \in DOMAIN path : path[i] \in AgentParts}
        first  == Min(places)
        tail   == Below(path, first)
        nested == Cardinality(places) > 1
        blocks(part) ==
            IF part = ".agents" /\ RootsAbove(path, roots) # {}
            THEN nested \/ RuntimeState(Below(path, Len(RootAbove(path, roots))))
            ELSE IF part = ".agents"
            THEN Home \/ path # AgentMarketplace
            ELSE IF part = ".codex"
            THEN Home \/ nested \/ RuntimeState(tail) \/ ~CodexSource(tail)
            ELSE TRUE
    IN IF Name(path) = ".claude.json" THEN "block"
       ELSE IF path = ManagedAgentSource \/ places = {} THEN "safe"
       ELSE IF blocks(path[first]) THEN "block"
       ELSE IF path[first] = ".codex" THEN "codex project source"
       ELSE "safe"

IsSecretOrPrivate(path) == Name(path) \in PrivateNames \ EnvTemplates

(* repo_skill_risky_path: the skill's own place is not held against it *)
RiskyPath(path, roots) ==
    IF RootsAbove(path, roots) = {} THEN path
    ELSE LET root == RootAbove(path, roots)
             kept == SubSeq(path, 1, Len(root) - 3) \o Below(path, Len(root))
         IN IF kept = <<>> THEN <<Name(path)>> ELSE kept

IsGeneratedOrRisky(path) == Range(path) \cap GeneratedParts # {} \/ Name(path) \in RiskyNames

ContentAt(path) == IF path \in Paths THEN Kind(work[path]) ELSE Absent

FileRisk(path, trackedGitlink, roots) ==
    LET agent   == AgentPathRisk(path, roots)
        content == ContentAt(path)
    IN IF \/ IsSecretOrPrivate(path)
          \/ agent = "block"
          \/ content = "repo" /\ ~trackedGitlink
       THEN "block"
       ELSE IF agent # "safe" THEN agent
       ELSE IF content = "repo" THEN "safe"
       ELSE IF content = "symlink" THEN "symlink"
       ELSE IF IsGeneratedOrRisky(RiskyPath(path, roots)) \/ content = "binary" THEN "risky"
       ELSE "safe"

SafeAddition(e) == IntroducesPath(e) /\ Name(e.path) \in SafeNames \cup EnvTemplates

-----------------------------------------------------------------------------
(* classify *)

IsIndexGitlink(path)     == path \in Paths /\ index[path] = "repo"
IsCommittedGitlink(path) == path \in Paths /\ head[path] = "repo"
KnownGitlink(path) ==
    IsIndexGitlink(path) /\ (IsCommittedGitlink(path) \/ path \in Submodules)

RiskOf(e, roots) == FileRisk(e.path, KnownGitlink(e.path), roots.current)
OriginalRiskOf(e, roots) ==
    IF e.original_path = None THEN "safe"
    ELSE FileRisk(e.original_path, KnownGitlink(e.original_path), roots.original)
DeletionRiskOf(e, roots) == FileRisk(e.path, FALSE, roots.current \cup roots.original)

Blocks(e, roots) ==
    \/ IsConflict(e)
    \/ /\ ~IsPureDeletion(e)
       /\ "block" \in {RiskOf(e, roots), OriginalRiskOf(e, roots)}

(* a blocked path may always be deleted *)
AsksCodexDeletion(e, roots, hasAdditions) ==
    DeletionRiskOf(e, roots) = "codex project source"

AsksDeletion(e, roots, hasAdditions) ==
    \/ DeletionRiskOf(e, roots) = "codex project source"
    \/ hasAdditions /\ DeletionRiskOf(e, roots) = "block"

AsksChange(e, roots) ==
    \/ KnownGitlink(e.path) /\ e.path \in DirtyRepos
    \/ IsIndexGitlink(e.path) /\ ~IsCommittedGitlink(e.path)
    \/ OriginalRiskOf(e, roots) # "safe"
    \/ RiskOf(e, roots) \in {"symlink", "codex project source"}
    \/ /\ IntroducesPath(e)
       /\ \/ RiskOf(e, roots) = "risky"
          \/ e.path \in IgnoredPaths
          \/ ~SafeAddition(e)
    \/ IsPartialStaged(e)

AsksEntry(e, roots, hasAdditions) ==
    IF IsPureDeletion(e) THEN AsksDeletion(e, roots, hasAdditions) ELSE AsksChange(e, roots)

Classify ==
    LET entries      == ParseStatusZ(GitStatus)
        roots        == BuildRepoSkillRoots(entries)
        hasAdditions == \E e \in entries : IntroducesPath(e)
        hasStaged    == \E e \in entries : IsStaged(e)
        hasWorktree  == \E e \in entries : IsWorktreeChanged(e)
        asks         == \/ \E e \in entries : AsksEntry(e, roots, hasAdditions)
                        \/ hasStaged /\ hasWorktree
                        \/ Cardinality({e.path[1] : e \in entries}) > 3
    IN [status |-> IF \E e \in entries : Blocks(e, roots) THEN "blocked"
                   ELSE IF asks THEN "selection_required"
                   ELSE IF entries = {} THEN "clean"
                   ELSE IF hasStaged /\ ~hasWorktree THEN "staged_only"
                   ELSE "safe_to_stage_all",
        staged |-> hasStaged]

-----------------------------------------------------------------------------
(* The developer at work. *)

AllContents == UNION {Contents(p) : p \in Paths}

Tree == {tree \in [Paths -> AllContents \cup {Absent}] :
            \A p \in Paths : tree[p] \in Contents(p) \cup {Absent}}

Init ==
    /\ order \in Layouts
    /\ head \in Tree /\ index = head /\ work = head
    /\ told = None

Edit(p, content) ==
    /\ work' = [work EXCEPT ![p] = content]
    /\ told' = None
    /\ UNCHANGED <<order, head, index>>

Stage(p) ==
    /\ index' = [index EXCEPT ![p] = work[p]]
    /\ told' = None
    /\ UNCHANGED <<order, head, work>>

IntendToAdd(p) ==
    /\ head[p] = Absent /\ index[p] = Absent /\ work[p] # Absent
    /\ index' = [index EXCEPT ![p] = Intent]
    /\ told' = None
    /\ UNCHANGED <<order, head, work>>

(* git add -A *)
AllStaged ==
    [p \in Paths |-> IF index[p] = Absent /\ p \in IgnoredPaths THEN Absent ELSE work[p]]

StageAll ==
    /\ index' = AllStaged
    /\ told' = Classify.status
    /\ UNCHANGED <<order, head, work>>

Unstage(p) ==
    /\ index' = [index EXCEPT ![p] = head[p]]
    /\ told' = None
    /\ UNCHANGED <<order, head, work>>

MergeConflict(p, code) ==
    /\ Holds(p)
    /\ index' = [index EXCEPT ![p] = code]
    /\ told' = None
    /\ UNCHANGED <<order, head, work>>

Commit ==
    /\ \A p \in Paths : ~Unmerged(p)
    /\ head' = [p \in Paths |-> IF index[p] = Intent THEN Absent ELSE index[p]]
    /\ told' = None
    /\ UNCHANGED <<order, index, work>>

Work ==
    \/ \E p \in Paths : \E content \in Contents(p) \cup {Absent} : Edit(p, content)
    \/ \E p \in Paths : Stage(p) \/ Unstage(p)
    \/ \E p \in Paths, code \in DOMAIN Conflict : MergeConflict(p, code)
    \/ StageAll
    \/ Commit

Next == Work \/ \E p \in Paths : IntendToAdd(p)

Spec       == Init /\ [][Work]_vars
IntentSpec == Init /\ [][Next]_vars

-----------------------------------------------------------------------------
(* Properties *)

(* The trees hold what git trees hold, nothing unmerged is committed, and  *)
(* what the script reads as paths are paths, however git's fields lie.     *)
TypeOK ==
    /\ order \in Layouts
    /\ head \in Tree /\ work \in Tree
    /\ index \in [Paths -> AllContents \cup {Absent, Intent} \cup DOMAIN Conflict]
    /\ UNION {PathsOf(e) : e \in ParseStatusZ(GitStatus)} \subseteq Paths

(* the next commit, if the screen's advice is followed *)
Advised(status) == IF status = "staged_only" THEN index ELSE AllStaged

(* What is committed on the screen's word alone can be accounted for: no   *)
(* private file is added or changed; a file that is new is a text with a   *)
(* recognised name and not ignored; and a file of an agent, the two that   *)
(* the script knows by name aside, is part of a skill that the same commit *)
(* leaves with its SKILL.md.  This is said of the trees, not of status     *)
(* codes, so that renames, half staged and deleted files count as what     *)
(* they are and not as how git lists them.                                 *)
Accounted(p, next) ==
    /\ ~IsSecretOrPrivate(p)
    /\ head[p] = Absent =>
          /\ next[p] = "repo" \/ Kind(next[p]) = "text"
          /\ Name(p) \in SafeNames \cup EnvTemplates
          /\ p \notin IgnoredPaths
    /\ Range(p) \cap AgentParts # {} /\ p \notin {ManagedAgentSource, AgentMarketplace} =>
          \E root \in SkillRoots(p) : Marker(root) \in Paths /\ next[Marker(root)] # Absent

AdviceIsAccountedFor ==
    LET status == Classify.status
        next   == Advised(status)
    IN status \in {"safe_to_stage_all", "staged_only"} =>
          \A p \in Paths : next[p] \notin {Absent, head[p]} => Accounted(p, next)

(* "staged_only" and "clean" are about all there is: nothing would be left *)
(* behind by a commit, and there is, or is not, something to commit.       *)
NothingLeftBehind ==
    LET status == Classify.status
    IN status \in {"staged_only", "clean"} =>
          /\ AllStaged = index
          /\ index = head <=> status = "clean"

(* The summary tells whether staged content exists, which is when the      *)
(* commit skill offers to commit it alone (SKILL.md, "include staged-only  *)
(* when staged content exists").                                           *)
StagedIsTold == Classify.staged <=> \E p \in Paths : index[p] \notin {head[p], Intent}

(* Staging everything on the screen's word never makes what the screen     *)
(* then blocks, though deletions and additions become renames by it: true  *)
(* as long as no file under a skill directory was committed without the    *)
(* SKILL.md that makes it a skill's.                                       *)
NoOrphans ==
    \A p \in Paths : head[p] # Absent => \A root \in SkillRoots(p) : HeadHas(Marker(root))

StageAllIsNotBlocked ==
    told = "safe_to_stage_all" /\ NoOrphans => Classify.status # "blocked"
=============================================================================
