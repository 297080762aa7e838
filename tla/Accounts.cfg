SPECIFICATION Spec
CONSTANTS
    Users = {u1, u2}
    Roles = {"admin", "read_only"}
    Passwords = {p1, p2}
    Tokens = {k1, k2}
    Handlers = {h1, h2, h3}
    None = None
SYMMETRY Symmetry
INVARIANTS
    TypeOK
    AnAdminRemains
    OldPasswordsOvertaken
