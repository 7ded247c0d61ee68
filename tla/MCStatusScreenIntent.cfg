\* With git add --intent-to-add: the script loses its place in git's fields.
SPECIFICATION IntentSpec
CONSTANTS
    Layouts <- RenameLayout
    Contents <- IntentContents
    Home = FALSE
    Cwd <- Root
    PrivateNames = {"data.key"}
    EnvTemplates = {}
    SafeNames = {"run.py", "skill.md", "main.py", "rold.py", "d.py", "n.py"}
    TomlNames = {}
    RiskyNames = {}
    GeneratedParts = {"dist"}
    RuntimeParts = {}
    RuntimeNames = {}
    IgnoredPaths = {}
    Submodules = {}
    DirtyRepos = {}
    Misread <- MisreadPath
    None = None
INVARIANTS
    StagedIsTold
