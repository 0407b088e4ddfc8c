SPECIFICATION Spec
CONSTANTS
    ann = ann
    bob = bob
    c1 = c1
    Users = {ann, bob}
    Founder = ann
    Custom = {c1}
    Resources = {"users", "roles", "audit_log"}
    ViewOnly = {"audit_log"}
    Choices <- MCChoices
    Bundles <- MCBundles
    Requests = {r1, r2}
    NoUser = NoUser
    NoRole = NoRole
SYMMETRY Symmetry
INVARIANTS
    TypeOK
    RolesAsAsked
    EnforcedAsShown
PROPERTY LastManagerStays
