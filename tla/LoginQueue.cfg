SPECIFICATION Spec
CONSTANTS
    Users = {u1, u2}
    Tokens = {t1, t2}
    Web = {w1, w2}
    Clients = {c1}
    Max = 2
    ValidTime = 2
    Ecs = Ecs
    None = None
SYMMETRY Symmetry
INVARIANTS TokensAccounted CapacityRespected GrantHonoured StatusCountsEveryone
PROPERTY RefinesAdmission
