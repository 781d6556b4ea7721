SPECIFICATION MigrateSpec
CONSTANT Commands = {"none", "up", "down", "create", "create name", "reset"}
INVARIANTS
    MigrateInv
    UpCompletes
    RefusedOnlyWhenTorn
