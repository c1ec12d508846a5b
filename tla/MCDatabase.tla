----------------------------- MODULE MCDatabase -----------------------------
(***************************************************************************)
(* Instances of Database with rows of the tables of src/setup_database.c:  *)
(* one parameter of each width and a text, in the groups they belong to.   *)
(***************************************************************************)
EXTENDS Database

CONSTANTS main, shell, modbus, MdbAddr, HumidFactor, Uptime, OtaFile

MCParams == {MdbAddr, HumidFactor, Uptime, OtaFile}
MCGroupIds == {"SYS_CONF", "PROC_VAR", "OTA_CONF"}
MCSetupGroups == <<"SYS_CONF", "OTA_CONF", "PROC_VAR">>

PerParam(addr, humid, uptime, file) ==
  [p \in Params |-> CASE p = MdbAddr -> addr [] p = HumidFactor -> humid
                      [] p = Uptime -> uptime [] OTHER -> file]

MCGroupOf == PerParam("SYS_CONF", "SYS_CONF", "PROC_VAR", "OTA_CONF")
MCKind    == PerParam("U08", "S16", "U32", "STR")
MCVarSize == PerParam(1, 2, 4, 120)
MCMin     == PerParam(1, -100, 0, 0)
MCMax     == PerParam(247, 100, 2147483647, 0)  \* MAX_U32 cut to TLC's integers
MCDefault == PerParam(1, 0, 10000, 1)
MCAccess  == PerParam(1, 1, 1, 1)

Set(p, access, k, n) ==
  [op |-> "set", g |-> GroupOf[p], p |-> p, access |-> access, kind |-> k, n |-> n]
Get(p, access, k, n) ==
  [op |-> "get", g |-> GroupOf[p], p |-> p, access |-> access, kind |-> k, n |-> n]
Shell(p, numeric, len, n) ==
  [op |-> "shell_set", g |-> GroupOf[p], p |-> p, access |-> FACTORY,
   numeric |-> numeric, len |-> len, n |-> n]
Show(g) == [op |-> "show", g |-> g]
WrongGroup(c) == [c EXCEPT !.g = "PROC_VAR"]

\* Three threads that meet in the same table, one of them early.
MCCallsOf ==
  [t \in Threads |->
     CASE t = main ->
            {Set(OtaFile, FACTORY, "STR", 39)}
       [] t = shell ->
            {Shell(MdbAddr, TRUE, 3, 300), Show(ALL)}
       [] OTHER ->
            {Set(MdbAddr, FACTORY, "U08", 248), Get(MdbAddr, FACTORY, "U08", 0)}]

\* Every check and conversion of the setters, getters, loads and shell texts,
\* and the exported API with groups that come and go under another thread.
ChecksCallsOf ==
  [t \in Threads |->
     IF t = main
       THEN {Set(HumidFactor, FACTORY, "S16", n) : n \in {-101, -100, 101}}
            \cup {Set(HumidFactor, 0, "S16", 7), Set(HumidFactor, FACTORY, "U08", 7),
                  Set(HumidFactor, FACTORY, "U16", 65436),
                  Set(MdbAddr, FACTORY, "S08", 247), Set(MdbAddr, FACTORY, "U08", 0),
                  Set(Uptime, FACTORY, "U32", 10001), Set(OtaFile, FACTORY, "U32", 1),
                  Set(OtaFile, FACTORY, "STR", 120), Set(OtaFile, 0, "STR", 5),
                  Set(MdbAddr, FACTORY, "STR", 3),
                  Get(HumidFactor, FACTORY, "S16", 0), Get(HumidFactor, 0, "S16", 0),
                  Get(OtaFile, FACTORY, "STR", 40), Get(HumidFactor, FACTORY, "U08", 1),
                  WrongGroup(Get(HumidFactor, FACTORY, "S16", 0)),
                  [op |-> "load", g |-> "SYS_CONF", access |-> 0],
                  [op |-> "load", g |-> ALL, access |-> 1], Show("PROC_VAR")}
            \cup {Shell(MdbAddr, TRUE, 3, n) : n \in {1, 257, 503}}
            \cup {Shell(MdbAddr, TRUE, 4, 1000), Shell(MdbAddr, FALSE, 2, 0),
                  Shell(HumidFactor, TRUE, 6, -65500), Shell(HumidFactor, TRUE, 4, -101),
                  Shell(OtaFile, FALSE, 130, 0)}
       ELSE {[op |-> o, g |-> "SYS_CONF"] : o \in {"remove", "add"}}]
=============================================================================
