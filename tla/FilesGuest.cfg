SPECIFICATION FilesSpec
CONSTANTS
    Ops = {o1, o2}
    Types = {"backup", "snippets"}
INVARIANT GuestGetsContent
