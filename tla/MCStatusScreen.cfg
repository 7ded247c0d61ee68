\* A skill of the repository and a file beside it; or a private file, a
\* recognised one and an unknown one; or an agent's configuration, an ignored
\* file and a submodule; or two files under .codex/agents.
SPECIFICATION Spec
CONSTANTS
    Layouts <- ScreenLayouts
    Contents <- ScreenContents
    Home = FALSE
    Cwd <- Root
    PrivateNames = {"data.key"}
    EnvTemplates = {}
    SafeNames = {"run.py", "skill.md", "out.py", "main.py", "a.md", "a.toml"}
    TomlNames = {"a.toml", "config.toml"}
    RiskyNames = {}
    GeneratedParts = {"dist"}
    RuntimeParts = {}
    RuntimeNames = {}
    IgnoredPaths <- Ignored
    Submodules <- Modules
    DirtyRepos = {}
    Misread <- MisreadPath
    None = None
INVARIANTS
    TypeOK
    AdviceIsAccountedFor
    NothingLeftBehind
    StageAllIsNotBlocked
