------------------------------- MODULE Config -------------------------------
(***************************************************************************)
(* commands/config and main.go: what a command works with, from the config *)
(* file and the command line.  A config is a record of options; the flags  *)
(* given on the command line are a function on their names, so that a flag *)
(* is set exactly if it is in the domain.                                  *)
(***************************************************************************)
EXTENDS Integers

\* The options a config file may give: strings, numbers, booleans and a set of
\* registries.  What the file leaves out is empty.
Empty ==
    [store |-> "", draxBin |-> "", btrfsProgs |-> "", newuidmap |-> "", newgidmap |-> "",
     metron |-> "", logLevel |-> "", logFile |-> "", limit |-> 0, threshold |-> 0,
     exclude |-> FALSE, skipValidation |-> FALSE, withClean |-> FALSE, withoutMount |-> FALSE,
     registries |-> {}]

Config ==
    [store : STRING, draxBin : STRING, btrfsProgs : STRING, newuidmap : STRING,
     newgidmap : STRING, metron : STRING, logLevel : STRING, logFile : STRING,
     limit : Int, threshold : Int, exclude : BOOLEAN, skipValidation : BOOLEAN,
     withClean : BOOLEAN, withoutMount : BOOLEAN, registries : SUBSET STRING]

\* The values of the flags that have a default.
Default ==
    [store |-> "/var/lib/grootfs", draxBin |-> "drax", btrfsProgs |-> "",
     newuidmap |-> "newuidmap", newgidmap |-> "newgidmap"]

IsSet(flags, name) == name \in DOMAIN flags

\* Mutant: what is in the file wins.
withValueOfFile(cfg, flags, name) ==
    IF IsSet(flags, name) /\ cfg[name] = Empty[name]
      THEN [cfg EXCEPT ![name] = flags[name]]
      ELSE cfg

\* WithDiskLimitSizeBytes and its like: the flag if it is set.
withValue(cfg, flags, name) ==
    IF IsSet(flags, name) THEN [cfg EXCEPT ![name] = flags[name]] ELSE cfg

\* WithStorePath and its like: the flag if it is set, its default if the file
\* has nothing.
withPath(cfg, flags, name) ==
    IF IsSet(flags, name) THEN [cfg EXCEPT ![name] = flags[name]]
    ELSE IF cfg[name] = "" THEN [cfg EXCEPT ![name] = Default[name]]
    ELSE cfg

\* WithMetronEndpoint, WithLogFile and WithInsecureRegistries: the flag unless
\* it is empty.
withNonEmpty(cfg, flags, name) ==
    IF IsSet(flags, name) /\ flags[name] # Empty[name]
      THEN [cfg EXCEPT ![name] = flags[name]]
      ELSE cfg

\* Build refuses negative numbers, whoever gave them.
Valid(cfg) == cfg.limit >= 0 /\ cfg.threshold >= 0

\* The Before of main.go sets the global options.  What it builds is checked
\* before any flag of the command is looked at.
Before(file, flags) ==
    LET paths == withPath(withPath(withPath(withPath(withPath(file,
                    flags, "store"), flags, "draxBin"), flags, "btrfsProgs"),
                    flags, "newuidmap"), flags, "newgidmap")
    IN withNonEmpty(withNonEmpty(withValue(paths,
            flags, "logLevel"), flags, "logFile"), flags, "metron")

\* WithClean and WithMount: giving the flag counts, not its value, and the
\* second of the two wins.
withClean(cfg, flags) ==
    [cfg EXCEPT !.withClean =
        ~IsSet(flags, "without-clean") /\ (IsSet(flags, "with-clean") \/ @)]

withMount(cfg, flags) ==
    [cfg EXCEPT !.withoutMount =
        IsSet(flags, "without-mount") \/ (~IsSet(flags, "with-mount") /\ @)]

CreateConfig(cfg, flags) ==
    LET values == withValue(withValue(withValue(withValue(cfg,
                    flags, "limit"), flags, "exclude"), flags, "skipValidation"),
                    flags, "threshold")
    IN withMount(withClean(withNonEmpty(values, flags, "registries"), flags), flags)

CleanConfig(cfg, flags) == withValue(cfg, flags, "threshold")

\* The config of a command.
CommandConfig(file, op, flags) ==
    CASE op = "create" -> CreateConfig(Before(file, flags), flags)
      [] op = "clean"  -> CleanConfig(Before(file, flags), flags)
      [] OTHER         -> Before(file, flags)

validateOptions(flags) == ~(IsSet(flags, "with-clean") /\ IsSet(flags, "without-clean"))

\* May the command itself start, once Before has let it?
Accepted(file, op, flags) ==
    /\ Valid(CommandConfig(file, op, flags))
    /\ op = "create" => validateOptions(flags)
=============================================================================
