\* Two sessions and the host on one account.
SPECIFICATION Spec
CONSTANTS
    Users = {"alice"}
    Passwords = {"old", "new"}
    Sessions = {"s1", "s2"}
    Names = {"a", "b"}
    Contents = {"good", "seed", "bad"}
    SeedContents = {"seed"}
    Verdict <- MCVerdict
    MaxScripts = 1
    Nobody = "nobody"
INVARIANTS
    TypeOK
    AccountsSound
    StoredVetted
PROPERTIES
    FilterKept
    ImplementsAtomic
