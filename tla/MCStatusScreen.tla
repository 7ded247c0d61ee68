--------------------------- MODULE MCStatusScreen ---------------------------
(* Model-checking instances of StatusScreen: five layouts.                 *)
EXTENDS StatusScreen

Root == <<>>

(* A skill and a file beside it. *)
SkillOrder == << <<".agents", "skills", "s", "run.py">>,
                 <<".agents", "skills", "s", "skill.md">>,
                 <<"main.py">> >>

(* A private file, a recognised one, an unknown one. *)
RiskOrder == << <<"data.key">>, <<"main.py">>, <<"notes">> >>

(* Files whose names look like a status when misread: "main.py" gives the  *)
(* code "ma" and the path "n.py", and "Rold.py" that of a rename.          *)
IntentOrder == << <<"rold.py">>, <<"main.py">> >>
MisreadPath(p) ==
    IF p = <<"rold.py">> THEN [code |-> <<"R", "o">>, path |-> <<"d.py">>]
    ELSE [code |-> <<"m", "a">>, path |-> <<"n.py">>]

(* A project's agent configuration, an ignored file, and a submodule that  *)
(* may be replaced by a file or a link.                                    *)
LinkOrder == << <<".codex", "config.toml">>, <<"out.py">>, <<"sub">> >>

(* What the project configures of Codex's agents, and what it does not.    *)
CodexOrder == << <<".codex", "agents", "a.md">>, <<".codex", "agents", "a.toml">>,
                 <<"main.py">> >>

ScreenContents(p) ==
    CASE ".codex" \in Range(p) \/ p = <<"out.py">> -> {"text"}
      [] p = <<"sub">>                             -> {"text", "symlink", "repo"}
      [] OTHER                                     -> {"text", "binary"}
IntentContents(p) == {"text", "other"}
Ignored == {<<"out.py">>}
Modules == {<<"sub">>}

ScreenLayouts == {SkillOrder, RiskOrder, LinkOrder, CodexOrder}
RenameLayout == {IntentOrder}
=============================================================================
