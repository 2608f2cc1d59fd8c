---------------------------- MODULE SessionProofs ----------------------------
(***************************************************************************)
(* Proofs about a user's session, for any config files, command lines,     *)
(* base images, failures and kills.                                        *)
(***************************************************************************)
EXTENDS Session, TLAPS

(***************************************************************************)
(* Steps of commands                                                       *)
(***************************************************************************)
CleanUpSteps == {"rootfsDir", "subvolume", "removeDir"}

StepsOf(op) ==
    CASE op = "create" ->
           {"create", "threshold", "mark", "collect", "quota", "stream", "unpack", "meta",
            "move", "mkdir", "snapshot", "limit", "ownership", "register", "usage"}
           \cup CleanUpSteps
      [] op = "clean" -> {"clean", "threshold", "mark", "collect", "usage"}
      [] op = "delete" -> {"delete", "removeInside", "deregister"} \cup CleanUpSteps
      [] OTHER -> {op}

\* A command takes the steps of its own, and works with the config that its
\* line and the file make.  Images are destroyed on behalf of the command.
StepInv ==
    /\ file \in ConfigFiles /\ cmd \in CommandLines
    /\ pc \in StepsOf(cmd.op) \cup {"exited", "killed"}
    /\ commands \in 0..MaxCommands
    /\ Running => commands > 0
    /\ commands > 0 => cfg = CommandConfig(file, cmd.op, cmd.flags)
    /\ pc \in CleanUpSteps =>
         caller \in (IF cmd.op = "create" THEN {"clone", "register"} ELSE {"delete"})
    /\ pc = "removeInside" => cmd.arg = "rootfs"

LEMMA StepsHold == SessionSpec => []StepInv
<1>1. Init => StepInv
  <2> SUFFICES ASSUME Init PROVE StepInv
    OBVIOUS
  <2>1. cmd \in CommandLines
    BY SessionAssumption DEF Init
  <2> QED
    BY <2>1, SessionAssumption DEF Init, StepInv, Running, CleanUpSteps
<1>2. StepInv /\ [Next]_vars => StepInv'
  <2> SUFFICES ASSUME StepInv, [Next]_vars PROVE StepInv'
    OBVIOUS
  <2>0. cmd.op \in Operations /\ cmd.arg \in {"image", "rootfs"}
    BY SessionAssumption DEF StepInv, IsCommandLine
  <2> USE DEF Goto, Return, Fail, Succeed, localVars, diskVars
  <2>1. CASE Start
    <3>1. /\ cmd' \in CommandLines /\ cmd'.op \in Operations
          /\ pc' \in {cmd'.op, "exited"}
          /\ commands' = commands + 1 /\ commands < MaxCommands
          /\ cfg' = CommandConfig(file, cmd'.op, cmd'.flags) /\ file' = file
      BY <2>1, SessionAssumption DEF Start, IsCommandLine
    <3>2. cmd'.op \in StepsOf(cmd'.op) /\ cmd'.op \notin CleanUpSteps \cup {"removeInside"}
      BY <3>1 DEF StepsOf, Operations, CleanUpSteps
    <3>3. commands' \in 0..MaxCommands /\ commands' > 0
      BY <3>1, SessionAssumption DEF StepInv
    <3> QED
      BY <3>1, <3>2, <3>3 DEF StepInv, Running, CleanUpSteps
  <2>2. ASSUME UNCHANGED <<file, cmd, cfg, commands>>, Running,
               pc' \in StepsOf(cmd.op) \cup {"exited", "killed"},
               pc' \in CleanUpSteps =>
                 caller' \in (IF cmd.op = "create" THEN {"clone", "register"} ELSE {"delete"}),
               pc' = "removeInside" => cmd.arg = "rootfs"
        PROVE  StepInv'
    BY <2>2 DEF StepInv, Running
  <2>3. CASE Create
    <3>1. /\ UNCHANGED <<file, cmd, cfg, commands>> /\ Running
          /\ pc' \in {"threshold", "quota", "mkdir", "stream", "unpack", "meta", "move",
                      "snapshot", "limit", "ownership", "rootfsDir", "register", "usage", "exited"}
          /\ pc' = "rootfsDir" => caller' = "clone"
      BY <2>3 DEF Create, CreateBegins, Quota, Stream, Unpack, WriteMeta, MoveVolume,
          MakeImageDir, CreateImage, ApplyDiskLimit, SetOwnership, Register, Usage, CleanUp,
          Running
    <3>2. cmd.op = "create" \/ pc' = "exited"
      BY <2>0, <2>3 DEF Create, CreateBegins, Quota, Stream, Unpack, WriteMeta, MoveVolume,
          MakeImageDir, CreateImage, ApplyDiskLimit, SetOwnership, Register, Usage, CleanUp,
          StepInv, StepsOf, Operations, CleanUpSteps
    <3> QED
      BY <2>2, <3>1, <3>2 DEF StepsOf, CleanUpSteps
  <2>4. CASE Clean
    <3>1. /\ UNCHANGED <<file, cmd, cfg, commands>> /\ Running
          /\ cmd.op \in {"create", "clean"}
          /\ \/ pc' \in {"threshold", "exited"} /\ cmd.op = "clean"
             \/ pc' \in {"mark", "collect"}
             \/ pc' = IF cmd.op = "create" THEN "quota" ELSE "usage"
             \/ pc' = IF cmd.op = "create" THEN "quota" ELSE "exited"
      BY <2>0, <2>4 DEF Clean, CleanBegins, Threshold, MarkUnused, Collect, AfterClean, Running,
          StepInv, StepsOf, Operations, CleanUpSteps
    <3> QED
      BY <2>2, <3>1 DEF StepsOf, CleanUpSteps
  <2>5. CASE Delete
    <3>1. UNCHANGED <<file, cmd, cfg, commands>> /\ Running
      BY <2>5 DEF Delete, DeleteBegins, RemoveInside, RemoveRootfsDir, DestroySubvolume,
          RemoveDir, Deregister, Running
    <3>2. CASE DeleteBegins
      <4>1. cmd.op = "delete"
        BY <2>0, <3>2 DEF DeleteBegins, StepInv, StepsOf, Operations, CleanUpSteps
      <4>2. /\ pc' \in {"rootfsDir", "removeInside", "exited"} /\ caller' = "delete"
            /\ pc' = "removeInside" => cmd.arg # "image"
        BY <3>2 DEF DeleteBegins
      <4> QED
        BY <2>0, <2>2, <3>1, <4>1, <4>2 DEF StepsOf, CleanUpSteps
    <3>3. CASE RemoveInside \/ Deregister
      <4>1. pc' = "exited"
        BY <3>3 DEF RemoveInside, Deregister
      <4> QED
        BY <2>2, <3>1, <4>1 DEF CleanUpSteps
    <3>4. CASE RemoveRootfsDir \/ DestroySubvolume \/ RemoveDir
      <4>1. pc \in CleanUpSteps /\ caller' = caller
        BY <3>4 DEF RemoveRootfsDir, DestroySubvolume, RemoveDir, CleanUpSteps
      <4>2. \/ pc' \in {"subvolume", "removeDir", "exited"}
            \/ pc' = "deregister" /\ caller = "delete"
        BY <3>4 DEF RemoveRootfsDir, DestroySubvolume, RemoveDir, GiveUp, AfterRemoval
      <4>3. cmd.op \in {"create", "delete"}
        BY <2>0, <4>1 DEF StepInv, StepsOf, Operations, CleanUpSteps
      <4> QED
        BY <2>2, <3>1, <4>1, <4>2, <4>3 DEF StepInv, StepsOf, CleanUpSteps
    <3> QED
      BY <2>5, <3>2, <3>3, <3>4 DEF Delete
  <2>6. CASE Query
    <3>1. /\ UNCHANGED <<file, cmd, cfg, commands>> /\ Running /\ pc' = "exited"
      BY <2>6 DEF Query, Stats, List, Generate, Running
    <3> QED
      BY <2>2, <3>1 DEF CleanUpSteps
  <2>7. CASE Failure
    <3>1. CASE CreateFails \/ QueryFails \/ Kill
      <4>1. /\ UNCHANGED <<file, cmd, cfg, commands>> /\ Running /\ pc' \in {"exited", "killed"}
        BY <3>1 DEF CreateFails, QueryFails, Kill, Strike, Running
      <4> QED
        BY <2>2, <4>1 DEF CleanUpSteps
    <3>2. CASE CloneFails
      <4>1. /\ UNCHANGED <<file, cmd, cfg, commands>> /\ Running /\ pc' = "rootfsDir"
            /\ caller' \in {"clone", "register"}
        BY <3>2 DEF CloneFails, CleanUp, Running
      <4>2. cmd.op = "create"
        BY <2>0, <3>2 DEF CloneFails, StepInv, StepsOf, Operations, CleanUpSteps
      <4> QED
        BY <2>2, <4>1, <4>2 DEF StepsOf, CleanUpSteps
    <3>3. CASE CleanFails
      <4>1. /\ UNCHANGED <<file, cmd, cfg, commands>> /\ Running /\ pc' \in {"collect", "exited"}
        BY <3>3 DEF CleanFails, Strike, Running
      <4>2. cmd.op \in {"create", "clean"}
        BY <2>0, <3>3 DEF CleanFails, StepInv, StepsOf, Operations, CleanUpSteps
      <4> QED
        BY <2>2, <4>1, <4>2 DEF StepsOf, CleanUpSteps
    <3>4. CASE DestroyFails
      <4>1. /\ UNCHANGED <<file, cmd, cfg, commands, caller>> /\ Running
            /\ \/ pc' = "exited"
               \/ pc' = "removeDir" /\ pc \in {"rootfsDir", "subvolume"}
        BY <3>4 DEF DestroyFails, Strike, Running, GiveUp, AfterRemoval
      <4>2. pc' = "removeDir" => pc' \in StepsOf(cmd.op) /\ pc \in CleanUpSteps
        BY <2>0, <4>1 DEF StepInv, StepsOf, Operations, CleanUpSteps
      <4> QED
        BY <2>2, <4>1, <4>2 DEF StepInv, CleanUpSteps
    <3> QED
      BY <2>7, <3>1, <3>2, <3>3, <3>4 DEF Failure
  <2>8. CASE ReplaceTar \/ Nest \/ UNCHANGED vars
    <3>1. UNCHANGED <<file, cmd, cfg, commands, caller, pc>>
      BY <2>8 DEF ReplaceTar, Nest, vars
    <3> QED
      BY <3>1 DEF StepInv, Running
  <2> QED
    BY <2>1, <2>3, <2>4, <2>5, <2>6, <2>7, <2>8 DEF Next, Finished
<1> QED
  BY <1>1, <1>2, PTL DEF SessionSpec

(***************************************************************************)
(* What a command works with                                               *)
(***************************************************************************)
IsConfig(c) == c = [name \in DOMAIN Empty |-> c[name]]

LEMMA OptionNames ==
    /\ DOMAIN Empty = {"store", "draxBin", "btrfsProgs", "newuidmap", "newgidmap", "metron",
                       "logLevel", "logFile", "limit", "threshold", "exclude",
                       "skipValidation", "withClean", "withoutMount", "registries"}
    /\ \A c \in Config : IsConfig(c)
  BY DEF Empty, Config, IsConfig

\* A builder step sets one option at most.
LEMMA OneOptionSet ==
    ASSUME NEW c, IsConfig(c), NEW flags, NEW name \in DOMAIN Empty
    PROVE  /\ IsConfig(withPath(c, flags, name)) /\ IsConfig(withValue(c, flags, name))
           /\ IsConfig(withNonEmpty(c, flags, name))
           /\ \A n \in DOMAIN Empty \ {name} :
                /\ withPath(c, flags, name)[n] = c[n]
                /\ withValue(c, flags, name)[n] = c[n]
                /\ withNonEmpty(c, flags, name)[n] = c[n]
           /\ withValue(c, flags, name)[name] =
                IF IsSet(flags, name) THEN flags[name] ELSE c[name]
           /\ withNonEmpty(c, flags, name)[name] =
                IF IsSet(flags, name) /\ flags[name] # Empty[name] THEN flags[name] ELSE c[name]
<1>1. \A v : /\ IsConfig([c EXCEPT ![name] = v])
             /\ [c EXCEPT ![name] = v][name] = v
             /\ \A n \in DOMAIN Empty \ {name} : [c EXCEPT ![name] = v][n] = c[n]
  BY DEF IsConfig
<1> QED
  BY <1>1 DEF withPath, withValue, withNonEmpty

OwnOptions ==
    {"limit", "threshold", "exclude", "skipValidation", "withClean", "withoutMount",
     "registries"}

\* What main.go sets before a command runs is none of the command's own options.
LEMMA BeforeKeepsOptions ==
    ASSUME NEW c, IsConfig(c), NEW flags
    PROVE  /\ IsConfig(Before(c, flags))
           /\ \A n \in OwnOptions : Before(c, flags)[n] = c[n]
<1> DEFINE c1 == withPath(c, flags, "store")
           c2 == withPath(c1, flags, "draxBin")
           c3 == withPath(c2, flags, "btrfsProgs")
           c4 == withPath(c3, flags, "newuidmap")
           c5 == withPath(c4, flags, "newgidmap")
           c6 == withValue(c5, flags, "logLevel")
           c7 == withNonEmpty(c6, flags, "logFile")
           c8 == withNonEmpty(c7, flags, "metron")
<1>0. /\ OwnOptions \subseteq DOMAIN Empty
      /\ {"store", "draxBin", "btrfsProgs", "newuidmap", "newgidmap", "logLevel", "logFile",
          "metron"} \subseteq DOMAIN Empty \ OwnOptions
  BY OptionNames DEF OwnOptions
<1>9. Before(c, flags) = c8
  BY DEF Before
<1>1. IsConfig(c1) /\ \A n \in OwnOptions : c1[n] = c[n]
  BY <1>0, OneOptionSet
<1> HIDE DEF c1
<1>2. IsConfig(c2) /\ \A n \in OwnOptions : c2[n] = c[n]
  BY <1>0, <1>1, OneOptionSet
<1> HIDE DEF c2
<1>3. IsConfig(c3) /\ \A n \in OwnOptions : c3[n] = c[n]
  BY <1>0, <1>2, OneOptionSet
<1> HIDE DEF c3
<1>4. IsConfig(c4) /\ \A n \in OwnOptions : c4[n] = c[n]
  BY <1>0, <1>3, OneOptionSet
<1> HIDE DEF c4
<1>5. IsConfig(c5) /\ \A n \in OwnOptions : c5[n] = c[n]
  BY <1>0, <1>4, OneOptionSet
<1> HIDE DEF c5
<1>6. IsConfig(c6) /\ \A n \in OwnOptions : c6[n] = c[n]
  BY <1>0, <1>5, OneOptionSet
<1> HIDE DEF c6
<1>7. IsConfig(c7) /\ \A n \in OwnOptions : c7[n] = c[n]
  BY <1>0, <1>6, OneOptionSet
<1> HIDE DEF c7
<1>8. IsConfig(c8) /\ \A n \in OwnOptions : c8[n] = c[n]
  BY <1>0, <1>7, OneOptionSet
<1> QED
  BY <1>8, <1>9

\* The config of create: a flag's value if it is given, and the file's if not.
LEMMA CreateTakesOptions ==
    ASSUME NEW c \in CommandLines, c.op = "create", NEW f \in Config
    PROVE  LET made == CommandConfig(f, c.op, c.flags)
               Given(name) == IF IsSet(c.flags, name) THEN c.flags[name] ELSE f[name]
           IN /\ made.limit = Given("limit") /\ made.limit \in Int
              /\ made.exclude = Given("exclude") /\ made.exclude \in BOOLEAN
              /\ made.registries = Given("registries")
              /\ made.withoutMount \in BOOLEAN
              /\ made.withoutMount <=> \/ IsSet(c.flags, "without-mount")
                                       \/ f.withoutMount /\ ~IsSet(c.flags, "with-mount")
<1> DEFINE flags == c.flags
           c0 == Before(f, flags)
           c1 == withValue(c0, flags, "limit")
           c2 == withValue(c1, flags, "exclude")
           c3 == withValue(c2, flags, "skipValidation")
           c4 == withValue(c3, flags, "threshold")
           c5 == withNonEmpty(c4, flags, "registries")
           c6 == withClean(c5, flags)
           c7 == withMount(c6, flags)
           Given(name) == IF IsSet(flags, name) THEN flags[name] ELSE f[name]
<1>0. CommandConfig(f, c.op, flags) = c7
  BY DEF CommandConfig, CreateConfig
<1>1. /\ {"limit", "threshold", "exclude", "skipValidation", "registries", "withClean",
          "withoutMount"} \subseteq DOMAIN Empty
  BY OptionNames
<1>10. IsConfig(c0) /\ \A n \in OwnOptions : c0[n] = f[n]
  BY OptionNames, BeforeKeepsOptions
<1> HIDE DEF c0
<1>2. /\ IsConfig(c1) /\ c1["limit"] = Given("limit")
      /\ \A n \in {"exclude", "registries", "withClean", "withoutMount"} : c1[n] = f[n]
  BY <1>1, <1>10, OneOptionSet DEF OwnOptions
<1> HIDE DEF c1
<1>3. /\ IsConfig(c2) /\ c2["limit"] = Given("limit") /\ c2["exclude"] = Given("exclude")
      /\ \A n \in {"registries", "withClean", "withoutMount"} : c2[n] = f[n]
  <2>0. IsConfig(c1) /\ "exclude" \in DOMAIN Empty
    BY <1>1, <1>2
  <2>1. /\ IsConfig(c2) /\ \A n \in DOMAIN Empty \ {"exclude"} : c2[n] = c1[n]
        /\ c2["exclude"] = (IF IsSet(flags, "exclude") THEN flags["exclude"] ELSE c1["exclude"])
    BY <2>0, OneOptionSet
  <2> HIDE DEF c2
  <2> QED
    BY <1>1, <1>2, <2>1
<1> HIDE DEF c2
<1>4. /\ IsConfig(c3) /\ c3["limit"] = Given("limit") /\ c3["exclude"] = Given("exclude")
      /\ \A n \in {"registries", "withClean", "withoutMount"} : c3[n] = f[n]
  <2>0. IsConfig(c2) /\ "skipValidation" \in DOMAIN Empty
    BY <1>1, <1>3
  <2>1. /\ IsConfig(c3) /\ \A n \in DOMAIN Empty \ {"skipValidation"} : c3[n] = c2[n]
        /\ c3["skipValidation"] = (IF IsSet(flags, "skipValidation")
                                THEN flags["skipValidation"] ELSE c2["skipValidation"])
    BY <2>0, OneOptionSet
  <2> HIDE DEF c3
  <2> QED
    BY <1>1, <1>3, <2>1
<1> HIDE DEF c3
<1>5. /\ IsConfig(c4) /\ c4["limit"] = Given("limit") /\ c4["exclude"] = Given("exclude")
      /\ \A n \in {"registries", "withClean", "withoutMount"} : c4[n] = f[n]
  <2>0. IsConfig(c3) /\ "threshold" \in DOMAIN Empty
    BY <1>1, <1>4
  <2>1. /\ IsConfig(c4) /\ \A n \in DOMAIN Empty \ {"threshold"} : c4[n] = c3[n]
        /\ c4["threshold"] = (IF IsSet(flags, "threshold")
                           THEN flags["threshold"] ELSE c3["threshold"])
    BY <2>0, OneOptionSet
  <2> HIDE DEF c4
  <2> QED
    BY <1>1, <1>4, <2>1
<1> HIDE DEF c4
<1>6. IsSet(flags, "registries") => flags["registries"] # Empty["registries"]
  BY SessionAssumption DEF IsCommandLine, Empty
<1>7. /\ IsConfig(c5) /\ c5["limit"] = Given("limit") /\ c5["exclude"] = Given("exclude")
      /\ c5["registries"] = Given("registries") /\ c5["withoutMount"] = f["withoutMount"]
  <2>0. IsConfig(c4) /\ "registries" \in DOMAIN Empty
    BY <1>1, <1>5
  <2>1. /\ IsConfig(c5) /\ \A n \in DOMAIN Empty \ {"registries"} : c5[n] = c4[n]
        /\ c5["registries"] = (IF /\ IsSet(flags, "registries")
                                 /\ flags["registries"] # Empty["registries"]
                                THEN flags["registries"] ELSE c4["registries"])
    BY <2>0, OneOptionSet
  <2> HIDE DEF c5
  <2> QED
    BY <1>1, <1>5, <1>6, <2>1
<1> HIDE DEF c5
<1>8. /\ IsConfig(c6) /\ \A n \in DOMAIN Empty \ {"withClean"} : c6[n] = c5[n]
  BY <1>1, <1>7 DEF withClean, IsConfig
<1> HIDE DEF c6
<1>9. /\ \A n \in DOMAIN Empty \ {"withoutMount"} : c7[n] = c6[n]
      /\ c7["withoutMount"] =
           (IsSet(flags, "without-mount") \/ (~IsSet(flags, "with-mount") /\ c6["withoutMount"]))
  BY <1>1, <1>8 DEF withMount, IsConfig
<1> HIDE DEF c7
<1>12. Given("limit") \in Int /\ Given("exclude") \in BOOLEAN
  BY SessionAssumption DEF IsCommandLine, IsSet, Config
<1>13. f["withoutMount"] \in BOOLEAN
  BY DEF Config
<1> QED
  BY <1>0, <1>1, <1>7, <1>8, <1>9, <1>12, <1>13

(***************************************************************************)
(* Volumes hold what their names stand for                                 *)
(***************************************************************************)
TarOK(t) ==
    /\ t \in [kind : {"file", "dir", "none"}, mtime : 1..MaxWrites, content : 1..MaxWrites]
    /\ t.content = t.mtime

\* A name with a time may have a later content, not an earlier one: the file is
\* opened after its time has been looked at, and read after that.
RightContent(v, c, now) ==
    /\ c \in Int
    /\ v = RegistryChain => c = RegistryContent
    /\ v # RegistryChain => v[2] <= c /\ c <= now

VolumesRight(vs, now) ==
    \A v \in DOMAIN vs : vs[v] \in Int /\ (v \in Names => RightContent(v, vs[v], now))

\* The chain id is that of the base image, at some time since the command began.
ChainFits(c, base, from, now) ==
    /\ c \in Names
    /\ base = "registry" => c = RegistryChain
    /\ base = "tar" => \E m \in from..now : c = <<TarPath, m>>

PullSteps == {"threshold", "mark", "collect", "quota", "stream", "unpack", "meta", "move"}
PulledSteps == {"mkdir", "snapshot", "limit", "ownership", "register", "usage"}

VolumeInv ==
    /\ TarOK(tar) /\ TarOK(begun.tar) /\ begun.tar.mtime <= tar.mtime
    /\ DOMAIN volumes \cup gc \cup DOMAIN metas \subseteq Names \cup TempNames
    /\ VolumesRight(volumes, tar.mtime)
    /\ cmd.op = "create" /\ (pc \in PullSteps \cup PulledSteps \/ (pc = "exited" /\ exit = 0))
       /\ commands > 0 =>
         ChainFits(chain, cmd.base, begun.tar.mtime, tar.mtime)
    /\ pc = "unpack" => RightContent(chain, opened, tar.mtime)
    /\ pc \in {"unpack", "meta", "move"} => Temp \in DOMAIN volumes
    /\ pc \in {"meta", "move"} => RightContent(chain, volumes[Temp], tar.mtime)
    /\ cmd.op = "create" /\ (pc \in PulledSteps \/ (pc = "exited" /\ exit = 0))
       /\ commands > 0 => chain \in DOMAIN volumes

\* Chain ids are pairs, the names of temporary volumes triples.
LEMMA TempIsNoName ==
    ASSUME NEW c \in Names, NEW n \in 1..MaxCommands
    PROVE  <<c[1], c[2], n>> \in TempNames /\ <<c[1], c[2], n>> \notin Names
<1>1. \A v \in Names : \E a, b : v = <<a, b>>
  BY DEF Names, RegistryChain
<1>2. \A a, b, x, y, z : <<a, b>> # <<x, y, z>>
  <2> SUFFICES ASSUME NEW a, NEW b, NEW x, NEW y, NEW z, <<a, b>> = <<x, y, z>> PROVE FALSE
    OBVIOUS
  <2>1. DOMAIN <<a, b>> = 1..2 /\ DOMAIN <<x, y, z>> = 1..3
    OBVIOUS
  <2> QED
    BY <2>1
<1> QED
  BY <1>1, <1>2 DEF TempNames

\* What can be said of a time: the chain id of a tar file then is none of a
\* registry's, and right for a content of that time or later.
LEMMA TarChains ==
    ASSUME NEW m \in 1..MaxWrites
    PROVE  /\ <<TarPath, m>> \in Names
           /\ \A c, now \in Int : m <= c /\ c <= now => RightContent(<<TarPath, m>>, c, now)
<1>1. <<TarPath, m>> \in Names
  BY DEF Names
<1>2. m # 0 /\ m \in Int
  BY SessionAssumption
<1>3. <<TarPath, m>> # RegistryChain /\ <<TarPath, m>>[2] = m
  BY <1>2 DEF RegistryChain
<1> QED
  BY <1>1, <1>3 DEF RightContent

\* A volume that is right stays so when the file is replaced: its time grows.
LEMMA RightStays ==
    ASSUME NEW t \in Int, NEW now \in Int, t <= now, NEW v \in Names, NEW c,
           RightContent(v, c, t)
    PROVE  RightContent(v, c, now)
<1>1. v = RegistryChain \/ v[2] \in Int
  BY SessionAssumption DEF Names
<1> QED
  BY <1>1 DEF RightContent

\* So do all of them when some go, or one of right content is added.
LEMMA VolumesChange ==
    ASSUME NEW t \in Int, NEW now \in Int, t <= now, NEW vs, VolumesRight(vs, t), NEW ws,
           \A v \in DOMAIN ws :
             \/ v \in DOMAIN vs /\ ws[v] = vs[v]
             \/ ws[v] \in Int /\ (v \in Names => RightContent(v, ws[v], now))
    PROVE  VolumesRight(ws, now)
  BY RightStays DEF VolumesRight

\* A chain id fits, with what was read since.
LEMMA FitsAndRight ==
    ASSUME NEW c, NEW base \in {"tar", "registry"}, NEW from \in 1..MaxWrites,
           NEW now \in 1..MaxWrites, ChainFits(c, base, from, now)
    PROVE  /\ c \in Names
           /\ base = "tar" => RightContent(c, now, now)
           /\ base = "registry" => RightContent(c, RegistryContent, now)
<1>1. CASE base = "tar"
  <2>1. PICK m \in from..now : c = <<TarPath, m>>
    BY <1>1 DEF ChainFits
  <2>2. MaxWrites \in Int
    BY SessionAssumption
  <2>3. m \in 1..MaxWrites /\ m <= now /\ now \in Int
    BY <2>2
  <2>4. RightContent(<<TarPath, m>>, now, now)
    BY <2>3, TarChains
  <2> QED
    BY <1>1, <2>1, <2>4 DEF ChainFits
<1>2. CASE base = "registry"
  BY <1>2 DEF ChainFits, RightContent, RegistryContent
<1> QED
  BY <1>1, <1>2


LEMMA CreateKeepsVolumes ==
    ASSUME StepInv, VolumeInv, Create
    PROVE  VolumeInv'
<1> DEFINE now == tar.mtime
           from == begun.tar.mtime
           Fits == ChainFits(chain, cmd.base, from, now)
<1>1. cmd \in CommandLines /\ cmd.op \in Operations /\ cmd.base \in {"tar", "registry"}
  BY SessionAssumption DEF StepInv, IsCommandLine
<1>2. /\ tar.content = now /\ now \in 1..MaxWrites /\ from \in 1..MaxWrites /\ from <= now
      /\ TarOK(tar) /\ TarOK(begun.tar) /\ now \in Int
  BY SessionAssumption DEF VolumeInv, TarOK
<1>3. UNCHANGED <<tar, cmd, commands, begun>> /\ Running
  BY DEF Create, CreateBegins, Quota, Stream, Unpack, WriteMeta, MoveVolume, MakeImageDir,
      CreateImage, ApplyDiskLimit, SetOwnership, Register, Usage, localVars, diskVars, Running
<1>4. commands \in 1..MaxCommands /\ commands > 0
  BY <1>3, SessionAssumption DEF StepInv
<1>5. pc \in (PulledSteps \ {"usage"})
            \cup {"create", "quota", "stream", "unpack", "meta", "move"}
      => cmd.op = "create"
  BY <1>1 DEF StepInv, StepsOf, Operations, CleanUpSteps, PulledSteps
<1>6. pc \in {"quota", "stream", "unpack", "meta", "move"} =>
        Fits /\ chain \in Names /\ Temp \in TempNames /\ Temp \notin Names
  <2> SUFFICES ASSUME pc \in {"quota", "stream", "unpack", "meta", "move"}
               PROVE  Fits /\ chain \in Names /\ Temp \in TempNames /\ Temp \notin Names
    OBVIOUS
  <2>0. cmd.op = "create" /\ pc \in PullSteps
    BY <1>5 DEF PullSteps
  <2>1. Fits
    BY <1>4, <2>0 DEF VolumeInv
  <2>2. chain \in Names
    BY <2>1 DEF ChainFits
  <2> QED
    BY <1>4, <2>1, <2>2, TempIsNoName DEF Temp
<1>7. /\ DOMAIN volumes \cup gc \cup DOMAIN metas \subseteq Names \cup TempNames
      /\ VolumesRight(volumes, now)
  BY DEF VolumeInv
<1> USE DEF Goto, Return, Fail, Succeed, localVars, diskVars
<1> HIDE DEF now, from
<1>8. CASE CreateBegins
  <2>0. /\ pc = "create" /\ chain' = ChainOf /\ UNCHANGED <<volumes, gc, metas>>
        /\ Goto(IF cfg.withClean THEN "threshold" ELSE "quota") \/ Fail
    BY <1>8 DEF CreateBegins
  <2>1. /\ pc = "create" /\ chain' = ChainOf /\ UNCHANGED <<volumes, gc, metas>>
        /\ pc' \in {"threshold", "quota"} \/ (pc' = "exited" /\ exit' = 1)
    BY <2>0
  <2>2. ChainFits(chain', cmd.base, from, now)
    <3>1. CASE cmd.base = "tar"
      <4>1. chain' = <<TarPath, now>>
        BY <2>1, <3>1 DEF ChainOf, BaseImageInfo, generateChainID, now
      <4>2. now \in from..now
        BY <1>2, SessionAssumption
      <4> QED
        BY <1>2, <3>1, <4>1, <4>2, TarChains DEF ChainFits
    <3>2. CASE cmd.base = "registry"
      <4>1. chain' = RegistryChain
        BY <2>1, <3>2 DEF ChainOf
      <4> QED
        BY <3>2, <4>1 DEF ChainFits, Names
    <3> QED
      BY <1>1, <3>1, <3>2
  <2>3. ChainFits(chain, cmd.base, begun.tar.mtime, tar.mtime)'
    BY <1>3, <2>2 DEF now, from
  <2> QED
    BY <1>2, <1>3, <1>7, <2>1, <2>3 DEF VolumeInv, PulledSteps, now
<1>9. CASE Quota
  <2>1. /\ pc = "quota" /\ UNCHANGED <<volumes, gc, metas, chain>>
        /\ \/ pc' = "exited" /\ exit' = 1
           \/ pc' = "stream"
           \/ pc' = "mkdir" /\ chain \in DOMAIN volumes
    BY <1>9 DEF Quota
  <2> QED
    BY <1>2, <1>3, <1>6, <1>7, <2>1 DEF VolumeInv, PulledSteps, now, from
<1>10. CASE Stream
  <2>1. pc = "stream" /\ UNCHANGED <<gc, metas, chain>> /\ Temp' = Temp
    BY <1>3, <1>10 DEF Stream, Temp
  <2>2. CASE pc' = "exited"
    <3>1. volumes' = volumes /\ exit' = 1
      BY <1>10, <2>2 DEF Stream
    <3> QED
      BY <1>2, <1>3, <1>7, <2>1, <2>2, <3>1 DEF VolumeInv, PullSteps, PulledSteps, now
  <2>3. CASE pc' = "unpack"
    <3>1. /\ opened' = IF cmd.base = "tar" THEN tar.content ELSE RegistryContent
          /\ volumes' = Put(volumes, Temp, NoContent)
      BY <1>10, <2>3 DEF Stream
    <3>2. RightContent(chain, opened', now)
      BY <1>1, <1>2, <1>6, <2>1, <3>1, FitsAndRight
    <3>3. /\ DOMAIN volumes' = DOMAIN volumes \cup {Temp} /\ volumes'[Temp] = 0
          /\ \A v \in DOMAIN volumes \ {Temp} : volumes'[v] = volumes[v]
      BY <3>1 DEF NoContent, Put
    <3>4. VolumesRight(volumes', now)
      BY <1>2, <1>6, <1>7, <2>1, <3>3, VolumesChange
    <3> QED
      BY <1>2, <1>3, <1>6, <1>7, <2>1, <2>3, <3>2, <3>3, <3>4
      DEF VolumeInv, PulledSteps, now, from
  <2> QED
    BY <1>10, <2>2, <2>3 DEF Stream
<1>11. CASE Unpack
  <2>1. pc = "unpack" /\ UNCHANGED <<gc, metas, chain>> /\ pc' = "meta" /\ Temp' = Temp
    BY <1>3, <1>11 DEF Unpack, Temp
  <2>2. PICK c \in {opened, tar.content} :
          /\ c = opened \/ cmd.base = "tar"
          /\ volumes' = [volumes EXCEPT ![Temp] = c]
    BY <1>11 DEF Unpack
  <2>3. RightContent(chain, opened, now) /\ Temp \in DOMAIN volumes
    BY <2>1 DEF VolumeInv, now
  <2>4. RightContent(chain, c, now)
    BY <1>1, <1>2, <1>6, <2>1, <2>2, <2>3, FitsAndRight
  <2>5. /\ DOMAIN volumes' = DOMAIN volumes /\ volumes'[Temp] = c
        /\ \A v \in DOMAIN volumes \ {Temp} : volumes'[v] = volumes[v]
    BY <2>2, <2>3
  <2>6. c \in Int
    BY <2>4 DEF RightContent
  <2>7. VolumesRight(volumes', now)
    BY <1>2, <1>6, <1>7, <2>1, <2>5, <2>6, VolumesChange
  <2> QED
    BY <1>2, <1>3, <1>6, <1>7, <2>1, <2>3, <2>4, <2>5, <2>7
    DEF VolumeInv, PulledSteps, now, from
<1>12. CASE WriteMeta
  <2>1. /\ pc = "meta" /\ UNCHANGED <<volumes, gc, chain>> /\ pc' = "move" /\ Temp' = Temp
        /\ DOMAIN metas' = DOMAIN metas \cup {chain}
    BY <1>3, <1>12 DEF WriteMeta, Temp, Put
  <2>2. Temp \in DOMAIN volumes /\ RightContent(chain, volumes[Temp], now)
    BY <2>1 DEF VolumeInv, now
  <2> QED
    BY <1>2, <1>3, <1>6, <1>7, <2>1, <2>2 DEF VolumeInv, PulledSteps, now, from
<1>13. CASE MoveVolume
  <2>1. /\ pc = "move" /\ UNCHANGED <<gc, metas, chain>> /\ pc' = "mkdir"
        /\ volumes' = [v \in (DOMAIN volumes \ {Temp}) \cup {chain} |->
                         IF v = chain THEN volumes[Temp] ELSE volumes[v]]
    BY <1>13 DEF MoveVolume
  <2>2. RightContent(chain, volumes[Temp], now) /\ volumes[Temp] \in Int
    BY <2>1 DEF VolumeInv, RightContent, now
  <2>3. DOMAIN volumes' = (DOMAIN volumes \ {Temp}) \cup {chain}
    BY <2>1
  <2>4. /\ volumes'[chain] = volumes[Temp]
        /\ \A v \in DOMAIN volumes' : v # chain =>
             v \in DOMAIN volumes /\ volumes'[v] = volumes[v]
    BY <2>1, <2>3
  <2>5. VolumesRight(volumes', now)
    BY <1>2, <1>7, <2>2, <2>4, VolumesChange
  <2> QED
    BY <1>2, <1>3, <1>6, <1>7, <2>1, <2>3, <2>5 DEF VolumeInv, PulledSteps, now, from
<1>14. CASE MakeImageDir \/ CreateImage \/ ApplyDiskLimit \/ SetOwnership \/ Register \/ Usage
  <2>1. /\ UNCHANGED <<volumes, gc, metas, chain>> /\ pc \in PulledSteps
        /\ \/ pc' \in {"rootfsDir"} \cup PulledSteps
           \/ pc = "usage" /\ pc' = "exited"
    BY <1>14 DEF MakeImageDir, CreateImage, ApplyDiskLimit, SetOwnership, Register, Usage,
        CleanUp, PulledSteps
  <2>2. cmd.op = "create" => Fits /\ chain \in DOMAIN volumes
    BY <1>4, <2>1 DEF VolumeInv, now, from
  <2> QED
    BY <1>2, <1>3, <1>7, <2>1, <2>2 DEF VolumeInv, PulledSteps, now, from
<1> QED
  BY <1>8, <1>9, <1>10, <1>11, <1>12, <1>13, <1>14 DEF Create

\* The other calls add no volume and give none another content.
LEMMA OthersKeepVolumes ==
    ASSUME VolumeInv, UNCHANGED <<tar, begun, cmd, commands, chain>>,
           \A v \in DOMAIN volumes' : v \in DOMAIN volumes /\ volumes'[v] = volumes[v],
           gc' \cup DOMAIN metas' \subseteq DOMAIN volumes \cup gc \cup DOMAIN metas \cup Names,
           pc' \notin {"stream", "unpack", "meta", "move"},
           cmd.op = "create" =>
             /\ pc' \notin PulledSteps /\ ~(pc' = "exited" /\ exit' = 0)
             /\ pc' \in PullSteps => pc \in PullSteps
    PROVE  VolumeInv'
<1>1. TarOK(tar) /\ tar.mtime \in Int
  BY SessionAssumption DEF VolumeInv, TarOK
<1>2. VolumesRight(volumes', tar.mtime)
  BY <1>1, VolumesChange DEF VolumeInv
<1>3. DOMAIN volumes' \cup gc' \cup DOMAIN metas' \subseteq Names \cup TempNames
  BY DEF VolumeInv
<1> QED
  BY <1>1, <1>2, <1>3 DEF VolumeInv

LEMMA CleanKeepsVolumes ==
    ASSUME StepInv, VolumeInv, Clean
    PROVE  VolumeInv'
<1>0. cmd.op \in Operations
  BY SessionAssumption DEF StepInv, IsCommandLine
<1> USE DEF Goto, Return, Fail, Succeed, localVars, diskVars, AfterClean
<1>1. UNCHANGED <<tar, begun, cmd, commands, chain>>
  BY DEF Clean, CleanBegins, Threshold, MarkUnused, Collect
<1>2. /\ pc \in {"clean", "threshold", "mark", "collect"}
      /\ pc = "clean" => cmd.op # "create"
  BY <1>0 DEF Clean, CleanBegins, Threshold, MarkUnused, Collect, StepInv, StepsOf, Operations,
      CleanUpSteps
<1>3. /\ pc' \in {"threshold", "mark", "collect", "quota", "usage", "exited"}
      /\ pc' \in {"usage", "exited"} => cmd.op # "create"
  BY <1>2 DEF Clean, CleanBegins, Threshold, MarkUnused, Collect
<1>4. /\ \A v \in DOMAIN volumes' : v \in DOMAIN volumes /\ volumes'[v] = volumes[v]
      /\ gc' \cup DOMAIN metas' \subseteq DOMAIN volumes \cup gc \cup DOMAIN metas
  <2>1. CASE CleanBegins \/ Threshold
    BY <2>1 DEF CleanBegins, Threshold
  <2>2. CASE MarkUnused
    BY <2>2 DEF MarkUnused, Mark, Restrict, UnusedVolumes
  <2>3. CASE Collect
    BY <2>3 DEF Collect, Restrict
  <2> QED
    BY <2>1, <2>2, <2>3 DEF Clean
<1> QED
  BY <1>1, <1>2, <1>3, <1>4, OthersKeepVolumes DEF PullSteps, PulledSteps

LEMMA FailureKeepsVolumes ==
    ASSUME StepInv, VolumeInv, Failure
    PROVE  VolumeInv'
<1>0. cmd.op \in Operations /\ (pc \in {"stats", "list", "generate"} => cmd.op # "create")
  BY SessionAssumption DEF StepInv, IsCommandLine, StepsOf, Operations, CleanUpSteps
<1> USE DEF Goto, Return, Fail, localVars, diskVars, Strike
<1>1. /\ UNCHANGED <<tar, begun, cmd, commands, chain>>
      /\ \/ pc' = "exited" /\ exit' = 1
         \/ pc' \in {"rootfsDir", "removeDir", "deregister", "killed"}
         \/ pc' = "collect" /\ pc = "mark"
  BY DEF Failure, CreateFails, CloneFails, CleanFails, DestroyFails, QueryFails, Kill, CleanUp,
      GiveUp, AfterRemoval
<1>2. /\ \A v \in DOMAIN volumes' : v \in DOMAIN volumes /\ volumes'[v] = volumes[v]
      /\ gc' \cup DOMAIN metas' \subseteq DOMAIN volumes \cup gc \cup DOMAIN metas \cup Names
  <2>1. \A done \in SUBSET UnusedVolumes : Mark(done) =>
          /\ \A v \in DOMAIN volumes' : v \in DOMAIN volumes /\ volumes'[v] = volumes[v]
          /\ gc' \subseteq DOMAIN volumes \cup gc
    BY DEF Mark, Restrict, UnusedVolumes
  <2>2. CASE CloneFails \/ DestroyFails
    BY <2>2 DEF CloneFails, DestroyFails
  <2>6. ASSUME pc \in {"unpack", "meta"} PROVE chain \in Names
    <3>1. cmd.op = "create" /\ commands > 0
      BY <1>0, <2>6 DEF StepInv, StepsOf, Operations, CleanUpSteps, Running
    <3> QED
      BY <2>6, <3>1 DEF VolumeInv, PullSteps, ChainFits
  <2>7. GenerateSome => DOMAIN metas' \subseteq DOMAIN volumes \cup gc \cup DOMAIN metas
    <3>1. \A names \in SUBSET Unsized :
            DOMAIN WithSizes(names) \subseteq DOMAIN volumes \cup gc \cup DOMAIN metas
      BY DEF WithSizes, Unsized
    <3>2. \A f, v : v \in Unsized =>
            DOMAIN Put(f, v, "torn") \subseteq DOMAIN f \cup DOMAIN volumes \cup gc
      BY DEF Put, Unsized
    <3> QED
      BY <3>1, <3>2 DEF GenerateSome
  <2>8. CASE CreateFails
    <3>1. UNCHANGED <<volumes, gc>>
      BY <2>8 DEF CreateFails
    <3>2. \/ UNCHANGED metas
          \/ metas' = Restrict(metas, DOMAIN metas \ {chain})
          \/ pc = "meta" /\ metas' = Put(metas, chain, "torn")
      BY <2>8 DEF CreateFails
    <3> QED
      BY <2>6, <3>1, <3>2 DEF Put, Restrict
  <2>3. CASE CleanFails
    <3>1. CASE pc = "mark"
      BY <2>1, <2>3, <3>1 DEF CleanFails
    <3>2. CASE pc = "collect"
      BY <2>3, <3>2 DEF CleanFails, Restrict
    <3> QED
      BY <2>3, <3>1, <3>2 DEF CleanFails
  <2>4. CASE QueryFails
    BY <2>4, <2>7 DEF QueryFails
  <2>5. CASE Kill
    <3>1. CASE UNCHANGED <<volumes, gc, metas>>
      BY <3>1
    <3>2. CASE pc = "meta" /\ metas' = Put(metas, chain, "torn") /\ UNCHANGED <<volumes, gc>>
      BY <2>6, <3>2 DEF Put
    <3>3. CASE (\E done \in SUBSET UnusedVolumes : Mark(done)) /\ UNCHANGED metas
      BY <2>1, <3>3
    <3>4. CASE /\ \E done \in SUBSET gc :
                     metas' = Restrict(metas, DOMAIN metas \ done) /\ gc' = gc \ done
               /\ UNCHANGED volumes
      BY <3>4 DEF Restrict
    <3>5. CASE GenerateSome /\ UNCHANGED <<volumes, gc>>
      BY <2>7, <3>5
    <3> QED
      BY <2>5, <3>1, <3>2, <3>3, <3>4, <3>5 DEF Kill
  <2> QED
    BY <2>2, <2>3, <2>4, <2>5, <2>8 DEF Failure
<1> QED
  BY <1>0, <1>1, <1>2, OthersKeepVolumes DEF PullSteps, PulledSteps

LEMMA ReplaceTarKeepsVolumes ==
    ASSUME StepInv, VolumeInv, ReplaceTar
    PROVE  VolumeInv'
<1>1. /\ UNCHANGED <<volumes, gc, metas, pc, exit>> /\ UNCHANGED localVars
      /\ UNCHANGED <<begun, cmd, commands, chain, opened>>
  BY DEF ReplaceTar, localVars
<1>2. /\ TarOK(tar') /\ tar.mtime \in Int /\ tar'.mtime \in Int /\ tar.mtime <= tar'.mtime
      /\ TarOK(begun.tar) /\ begun.tar.mtime \in Int /\ begun.tar.mtime <= tar.mtime
  BY SessionAssumption DEF ReplaceTar, VolumeInv, TarOK
<1>3. VolumesRight(volumes', tar'.mtime)
  BY <1>1, <1>2, VolumesChange DEF VolumeInv
<1>4. \A c, base : ChainFits(c, base, begun.tar.mtime, tar.mtime)
                     => ChainFits(c, base, begun.tar.mtime, tar'.mtime)
  <2> SUFFICES ASSUME NEW c, NEW base, ChainFits(c, base, begun.tar.mtime, tar.mtime)
               PROVE  ChainFits(c, base, begun.tar.mtime, tar'.mtime)
    OBVIOUS
  <2>1. begun.tar.mtime..tar.mtime \subseteq begun.tar.mtime..tar'.mtime
    BY <1>2
  <2> QED
    BY <2>1 DEF ChainFits
<1>5. pc \in {"unpack", "meta", "move"} => chain \in Names
  <2> SUFFICES ASSUME pc \in {"unpack", "meta", "move"} PROVE chain \in Names
    OBVIOUS
  <2>1. cmd.op \in Operations
    BY SessionAssumption DEF StepInv, IsCommandLine
  <2>2. cmd.op = "create" /\ commands > 0
    BY <2>1 DEF StepInv, StepsOf, Operations, CleanUpSteps, Running
  <2> QED
    BY <2>2 DEF VolumeInv, PullSteps, ChainFits
<1>6. \A c : pc \in {"unpack", "meta", "move"} /\ RightContent(chain, c, tar.mtime)
               => RightContent(chain, c, tar'.mtime)
  BY <1>2, <1>5, RightStays
<1>7. Temp' = Temp
  BY <1>1 DEF Temp
<1> QED
  BY <1>1, <1>2, <1>3, <1>4, <1>6, <1>7 DEF VolumeInv

LEMMA VolumesHold == SessionSpec => []VolumeInv
<1>1. Init => VolumeInv
  <2> SUFFICES ASSUME Init PROVE VolumeInv
    OBVIOUS
  <2>1. TarOK(tar) /\ tar.mtime = 1 /\ begun.tar = tar
    BY SessionAssumption DEF Init, TarOK
  <2>2. gc \subseteq Names
    <3>1. BaseImageInfo(TarPath, tar) = <<TarPath, 1>>
      BY <2>1 DEF BaseImageInfo, generateChainID
    <3> QED
      BY <3>1, TarChains, SessionAssumption DEF Init
  <2>3. DOMAIN volumes = {} /\ DOMAIN metas = gc /\ commands = 0 /\ pc = "exited"
    BY DEF Init
  <2> QED
    BY <2>1, <2>2, <2>3 DEF VolumeInv, VolumesRight
<1>2. StepInv /\ VolumeInv /\ [Next]_vars => VolumeInv'
  <2> SUFFICES ASSUME StepInv, VolumeInv, [Next]_vars PROVE VolumeInv'
    OBVIOUS
  <2>0. cmd.op \in Operations
    BY SessionAssumption DEF StepInv, IsCommandLine
  <2> USE DEF Goto, Return, Fail, Succeed, localVars, diskVars
  <2>1. CASE Start
    <3>1. /\ UNCHANGED <<tar, volumes, gc, metas>> /\ begun'.tar = tar
          /\ cmd' \in CommandLines
          /\ pc' = cmd'.op \/ (pc' = "exited" /\ exit' = 1)
      BY <2>1 DEF Start
    <3>2. cmd'.op \in Operations
      BY <3>1, SessionAssumption DEF IsCommandLine
    <3>3. TarOK(tar) /\ tar.mtime \in Int
      BY SessionAssumption DEF VolumeInv, TarOK
    <3> QED
      BY <3>1, <3>2, <3>3 DEF VolumeInv, Operations, PullSteps, PulledSteps
  <2>2. CASE Delete
    <3>1. /\ UNCHANGED <<tar, volumes, gc, metas, begun, cmd, commands, chain>>
          /\ \/ pc' \in {"rootfsDir", "subvolume", "removeDir", "removeInside", "deregister"}
             \/ pc' = "exited" /\ exit' = 1
             \/ pc' = "exited" /\ pc \in {"delete", "removeInside", "deregister"}
      BY <2>2 DEF Delete, DeleteBegins, RemoveInside, RemoveRootfsDir, DestroySubvolume,
          RemoveDir, Deregister, GiveUp, AfterRemoval
    <3>2. pc \in {"delete", "removeInside", "deregister"} => cmd.op # "create"
      BY <2>0 DEF StepInv, StepsOf, Operations, CleanUpSteps
    <3> QED
      BY <3>1, <3>2, OthersKeepVolumes DEF PullSteps, PulledSteps
  <2>3. CASE Query
    <3>1. /\ UNCHANGED <<tar, volumes, gc, begun, cmd, commands, chain>> /\ pc' = "exited"
          /\ pc \in {"stats", "list", "generate"}
      BY <2>3 DEF Query, Stats, List, Generate
    <3>2. cmd.op # "create"
      BY <2>0, <3>1 DEF StepInv, StepsOf, Operations, CleanUpSteps
    <3>3. DOMAIN metas' \subseteq DOMAIN metas \cup DOMAIN volumes \cup gc
      BY <2>3 DEF Query, Stats, List, Generate, WithSizes, Unsized
    <3> QED
      BY <3>1, <3>2, <3>3, OthersKeepVolumes DEF PullSteps, PulledSteps
  <2>4. CASE Nest \/ UNCHANGED vars
    <3>1. UNCHANGED <<tar, volumes, gc, metas, begun, cmd, commands, chain, opened, pc, exit>>
      BY <2>4 DEF Nest, vars
    <3> QED
      BY <3>1 DEF VolumeInv, Temp
  <2> QED
    BY <2>1, <2>2, <2>3, <2>4, CreateKeepsVolumes, CleanKeepsVolumes, FailureKeepsVolumes,
       ReplaceTarKeepsVolumes DEF Next, Finished
<1> QED
  BY <1>1, <1>2, StepsHold, PTL DEF SessionSpec

(***************************************************************************)
(* Images                                                                  *)
(***************************************************************************)
ImageRecord ==
    [dir : BOOLEAN, rootfs : {"none", "plain", "subvolume"}, snapshot : BOOLEAN, content : Int,
     nested : BOOLEAN, limit : Int, exclusive : BOOLEAN]

\* What is not there has nothing inside.
ImageOK(i) == i \in ImageRecord /\ (~i.dir => i = NoImage)

LEMMA SameImage ==
    ASSUME NEW i \in ImageRecord, NEW j \in ImageRecord,
           i.dir = j.dir, i.rootfs = j.rootfs, i.snapshot = j.snapshot, i.content = j.content,
           i.nested = j.nested, i.limit = j.limit, i.exclusive = j.exclusive
    PROVE  i = j
  BY DEF ImageRecord

\* What the driver makes of an image is an image.
LEMMA ImagesMade ==
    /\ ImageOK(NoImage) /\ ImageOK(MadeDir) /\ ImageOK(MadeRootfs)
    /\ \A c \in Int : ImageOK(SnapshotRootfs(c)) /\ ImageOK(SnapshotBeside(c))
  BY DEF ImageOK, ImageRecord, NoImage, MadeDir, MadeRootfs, SnapshotRootfs, SnapshotBeside,
      Image, NoContent

LEMMA ImageWithoutLimit ==
    ASSUME NEW i \in ImageRecord
    PROVE  WithoutLimit(i) \in ImageRecord
<1>1. WithoutLimit(i) = Limited(i, 0, FALSE)
  BY DEF Limited, WithoutLimit
<1>2. \A n \in Int, x \in BOOLEAN : Limited(i, n, x) \in ImageRecord
  BY DEF ImageRecord, Limited
<1>3. 0 \in Int /\ FALSE \in BOOLEAN
  OBVIOUS
<1>4. Limited(i, 0, FALSE) \in ImageRecord
  BY <1>2, <1>3, Zenon
<1> QED
  BY <1>1, <1>4

LEMMA ImagesChanged ==
    ASSUME NEW i, ImageOK(i)
    PROVE  /\ \A n \in Int, x \in BOOLEAN : i.dir => ImageOK(Limited(i, n, x))
           /\ ImageOK(WithoutRootfsDir(i)) /\ ImageOK(WithoutSubvolumes(i))
           /\ ImageOK([i EXCEPT !.rootfs = "none"])
           /\ HasSubvolume(i) => i.dir /\ ImageOK([i EXCEPT !.nested = TRUE])
           /\ LimitApplies(i) => i.dir
           /\ ImageOK(WithoutLimit(i)) /\ ImageOK([i EXCEPT !.nested = FALSE])
           /\ HasSubvolume(i) => \A j \in PartsOf(i) : ImageOK(j)
<1>1. i \in ImageRecord
  BY DEF ImageOK
<1>2. \A n \in Int, x \in BOOLEAN :
        Limited(i, n, x) \in ImageRecord /\ Limited(i, n, x).dir = i.dir
  BY <1>1 DEF ImageRecord, Limited
<1>3. \A r \in {"none", "plain", "subvolume"} :
        LET j == [i EXCEPT !.rootfs = r]
        IN  j \in ImageRecord /\ j.dir = i.dir /\ (i = NoImage /\ r = "none" => j = i)
  BY <1>1 DEF ImageRecord, NoImage, Image
<1>4. ImageOK([i EXCEPT !.rootfs = "none"]) /\ ImageOK(WithoutRootfsDir(i))
  BY <1>3 DEF ImageOK, WithoutRootfsDir
<1>5. ImageOK(WithoutSubvolumes(i))
  <2> DEFINE k == WithoutLimit(i)
             j == WithoutSubvolumes(i)
  <2>1. /\ k \in ImageRecord /\ k.dir = i.dir /\ k.rootfs = i.rootfs
        /\ k.snapshot = i.snapshot /\ k.content = i.content /\ k.nested = i.nested
        /\ k.limit = 0 /\ k.exclusive = FALSE
    <3>1. k \in ImageRecord
      BY <1>1, ImageWithoutLimit
    <3>2. DOMAIN i = {"dir", "rootfs", "snapshot", "content", "nested", "limit", "exclusive"}
      BY <1>1 DEF ImageRecord
    <3>3. k = [i EXCEPT !.limit = 0, !.exclusive = FALSE]
      BY DEF WithoutLimit
    <3>4. /\ k.dir = i.dir /\ k.rootfs = i.rootfs /\ k.snapshot = i.snapshot
          /\ k.content = i.content /\ k.nested = i.nested
      BY <3>2, <3>3
    <3>5. k.limit = 0 /\ k.exclusive = FALSE
      BY <3>2, <3>3
    <3> QED
      BY <3>1, <3>4, <3>5
  <2>2. j = [k EXCEPT !.snapshot = FALSE, !.nested = FALSE, !.content = 0,
                      !.rootfs = IF k.rootfs = "subvolume" THEN "none" ELSE k.rootfs]
    BY DEF WithoutSubvolumes, NoContent
  <2> HIDE DEF k, j
  <2>3. /\ j \in ImageRecord /\ j.dir = k.dir /\ j.snapshot = FALSE /\ j.nested = FALSE
        /\ j.content = 0 /\ j.limit = k.limit /\ j.exclusive = k.exclusive
        /\ j.rootfs = IF k.rootfs = "subvolume" THEN "none" ELSE k.rootfs
    BY <2>1, <2>2 DEF ImageRecord
  <2>4. i = NoImage => j = NoImage
    BY <1>1, <2>1, <2>3, SameImage DEF NoImage, Image, NoContent
  <2> QED
    BY <2>1, <2>3, <2>4 DEF ImageOK, j
<1>6. HasSubvolume(i) \/ LimitApplies(i) => i.dir
  BY DEF ImageOK, HasSubvolume, LimitApplies, NoImage, Image
<1>7. \A b \in BOOLEAN :
        LET j == [i EXCEPT !.nested = b]
        IN  j \in ImageRecord /\ j.dir = i.dir /\ (i = NoImage /\ b = FALSE => j = i)
  BY <1>1 DEF ImageRecord, NoImage, Image
<1>8. \A b \in BOOLEAN, c \in Int :
        LET j == [i EXCEPT !.content = c, !.nested = b] IN j \in ImageRecord /\ j.dir = i.dir
  BY <1>1 DEF ImageRecord
<1>9. HasSubvolume(i) => \A j \in PartsOf(i) : ImageOK(j)
  <2>1. i.nested \in BOOLEAN /\ PartContent \in Int
    BY <1>1 DEF ImageRecord, PartContent
  <2>2. \A n \in {FALSE, i.nested} :
          LET j == [i EXCEPT !.content = PartContent, !.nested = n]
          IN  j \in ImageRecord /\ j.dir = i.dir
    BY <1>8, <2>1
  <2>3. \A j \in PartsOf(i) : j \in ImageRecord /\ j.dir = i.dir
    BY <2>2 DEF PartsOf
  <2> QED
    BY ONLY <1>6, <2>3 DEF ImageOK
<1>10. ImageOK(WithoutLimit(i))
  <2>1. WithoutLimit(i) \in ImageRecord
    BY <1>1, ImageWithoutLimit
  <2>2. WithoutLimit(i).dir = i.dir
    BY <1>1 DEF WithoutLimit, ImageRecord
  <2>3. WithoutLimit(NoImage) = NoImage
    <3> DEFINE k == WithoutLimit(NoImage)
    <3>0. NoImage \in ImageRecord
      BY ImagesMade DEF ImageOK
    <3>1. NoImage \in ImageRecord /\ k \in ImageRecord
      BY <3>0, ImageWithoutLimit
    <3>2. DOMAIN NoImage = {"dir", "rootfs", "snapshot", "content", "nested", "limit", "exclusive"}
      BY DEF NoImage, Image
    <3>3. k = [NoImage EXCEPT !.limit = 0, !.exclusive = FALSE]
      BY DEF WithoutLimit
    <3>4. /\ k.dir = NoImage.dir /\ k.rootfs = NoImage.rootfs /\ k.snapshot = NoImage.snapshot
          /\ k.content = NoImage.content /\ k.nested = NoImage.nested
      BY <3>2, <3>3
    <3>5. k.limit = 0 /\ k.exclusive = FALSE
      BY <3>2, <3>3
    <3>6. NoImage.limit = 0 /\ NoImage.exclusive = FALSE
      BY DEF NoImage, Image
    <3> HIDE DEF k
    <3>7. k = NoImage
      BY <3>1, <3>4, <3>5, <3>6, SameImage
    <3> QED
      BY <3>7 DEF k
  <2> QED
    BY <2>1, <2>2, <2>3 DEF ImageOK
<1> QED
  BY <1>2, <1>4, <1>5, <1>6, <1>7, <1>9, <1>10 DEF ImageOK

\* A call that stops half way leaves an image, too.
LEMMA HalfDoneImages ==
    ASSUME ImageOK(image)
    PROVE  \A i \in HalfDone : ImageOK(i)
<1>1. \A i \in SubvolumeKept(image, DraxAnswers) : ImageOK(i)
  <2>1. ImageOK(WithoutLimit(image))
    BY ImagesChanged
  <2>2. ImageOK([WithoutLimit(image) EXCEPT !.nested = FALSE])
    BY <2>1, ImagesChanged
  <2> QED
    BY <2>1, <2>2 DEF SubvolumeKept
<1>2. \A i \in RootfsPartlyRemoved(image) : ImageOK(i)
  BY ImagesChanged DEF RootfsPartlyRemoved, HasSubvolume
<1>3. \A i \in PartlyRemoved(image) : ImageOK(i)
  <2>1. ImageOK(WithoutRootfsDir(image)) /\ ImageOK(WithoutSubvolumes(image)) /\ ImageOK(MadeDir)
    BY ImagesChanged, ImagesMade
  <2>2. HasSubvolume(image) => HasSubvolume(WithoutRootfsDir(image))
    BY DEF HasSubvolume, WithoutRootfsDir, ImageOK, ImageRecord
  <2>3. HasSubvolume(image) => \A i \in PartsOf(image) : ImageOK(i)
    BY ImagesChanged
  <2>4. HasSubvolume(image) => \A i \in PartsOf(WithoutRootfsDir(image)) : ImageOK(i)
    BY <2>1, <2>2, ImagesChanged
  <2> QED
    BY <2>1, <2>3, <2>4 DEF PartlyRemoved
<1> QED
  BY <1>1, <1>2, <1>3, ImagesMade DEF HalfDone

ImagesInv ==
    /\ images \in [ImageIDs -> ImageRecord]
    /\ \A i \in ImageIDs : ImageOK(images[i])

LEMMA SetImageKeeps ==
    ASSUME StepInv, ImagesInv, NEW i, ImageOK(i), SetImage(i)
    PROVE  ImagesInv'
<1>1. cmd.id \in ImageIDs
  BY SessionAssumption DEF StepInv, IsCommandLine
<1> QED
  BY <1>1 DEF ImagesInv, SetImage, ImageOK

LEMMA ImagesHold == SessionSpec => []ImagesInv
<1>1. Init => ImagesInv
  BY ImagesMade DEF Init, ImagesInv, ImageOK
<1>2. StepInv /\ VolumeInv /\ ImagesInv /\ [Next]_vars => ImagesInv'
  <2> SUFFICES ASSUME StepInv, VolumeInv, ImagesInv, [Next]_vars PROVE ImagesInv'
    OBVIOUS
  <2>1. /\ cmd.id \in ImageIDs /\ cmd.op \in Operations /\ cmd \in CommandLines
        /\ file \in Config
    BY SessionAssumption DEF StepInv, IsCommandLine
  <2>2. ImageOK(image)
    BY <2>1 DEF ImagesInv, image
  <2>3. UNCHANGED images => ImagesInv'
    BY DEF ImagesInv
  <2> USE DEF diskVars
  <2>4. ASSUME pc \in {"snapshot", "limit"}
        PROVE  volumes[chain] \in Int /\ cfg.limit \in Int /\ cfg.exclude \in BOOLEAN
    <3>1. cmd.op = "create" /\ commands > 0
      BY <2>1, <2>4 DEF StepInv, StepsOf, Operations, CleanUpSteps, Running
    <3>2. volumes[chain] \in Int
      BY <2>4, <3>1 DEF VolumeInv, PulledSteps, VolumesRight
    <3>3. cfg = CommandConfig(file, cmd.op, cmd.flags)
      BY <3>1 DEF StepInv
    <3> QED
      BY <2>1, <3>1, <3>2, <3>3, CreateTakesOptions
  <2>5. CASE Create
    <3>1. CASE MakeImageDir
      BY <3>1, ImagesMade, SetImageKeeps DEF MakeImageDir
    <3>2. CASE CreateImage
      BY <2>4, <3>2, ImagesMade, SetImageKeeps DEF CreateImage
    <3>3. CASE ApplyDiskLimit
      <4>1. \/ UNCHANGED images
            \/ LimitApplies(image) /\ SetImage(Limited(image, cfg.limit, cfg.exclude))
        BY <3>3 DEF ApplyDiskLimit
      <4>2. pc = "limit"
        BY <3>3 DEF ApplyDiskLimit
      <4> QED
        BY <2>2, <2>3, <2>4, <4>1, <4>2, ImagesChanged, SetImageKeeps
    <3>4. CASE CreateBegins \/ Quota \/ Stream \/ Unpack \/ WriteMeta \/ MoveVolume
               \/ SetOwnership \/ Register \/ Usage
      BY <2>3, <3>4 DEF CreateBegins, Quota, Stream, Unpack, WriteMeta, MoveVolume,
          SetOwnership, Register, Usage
    <3> QED
      BY <2>5, <3>1, <3>2, <3>3, <3>4 DEF Create
  <2>6. CASE Delete
    <3>1. CASE RemoveInside
      <4>1. ImageOK([WithoutSubvolumes(image) EXCEPT !.rootfs = "none"])
            /\ ImageOK([image EXCEPT !.rootfs = "none"])
        BY <2>2, ImagesChanged
      <4> QED
        BY <3>1, <4>1, SetImageKeeps DEF RemoveInside
    <3>2. CASE RemoveRootfsDir
      BY <2>2, <2>3, <3>2, ImagesChanged, SetImageKeeps DEF RemoveRootfsDir
    <3>3. CASE DestroySubvolume
      BY <2>2, <2>3, <3>3, ImagesChanged, SetImageKeeps DEF DestroySubvolume
    <3>4. CASE RemoveDir
      BY <3>4, ImagesMade, SetImageKeeps DEF RemoveDir
    <3>5. CASE DeleteBegins \/ Deregister
      BY <2>3, <3>5 DEF DeleteBegins, Deregister
    <3> QED
      BY <2>6, <3>1, <3>2, <3>3, <3>4, <3>5 DEF Delete
  <2>7. CASE Failure
    <3>1. CASE CloneFails \/ DestroyFails \/ Kill
      <4>1. PICK i \in HalfDone : SetImage(i)
        BY <3>1 DEF CloneFails, DestroyFails, Kill
      <4>2. ImageOK(i)
        BY <2>2, HalfDoneImages
      <4> QED
        BY <4>1, <4>2, SetImageKeeps
    <3>2. CASE CreateFails \/ CleanFails \/ QueryFails
      BY <2>3, <3>2 DEF CreateFails, CleanFails, QueryFails
    <3> QED
      BY <2>7, <3>1, <3>2 DEF Failure
  <2>8. CASE Nest
    <3>1. PICK i \in ImageIDs : /\ HasSubvolume(images[i])
                                /\ images' = [images EXCEPT ![i].nested = TRUE]
      BY <2>8 DEF Nest
    <3>2. ImageOK(images[i]) /\ ImageOK([images[i] EXCEPT !.nested = TRUE])
      BY <3>1, ImagesChanged DEF ImagesInv
    <3>3. images' = [images EXCEPT ![i] = [images[i] EXCEPT !.nested = TRUE]]
      BY <3>1 DEF ImagesInv
    <3> QED
      BY <3>2, <3>3 DEF ImagesInv, ImageOK
  <2>9. CASE Start \/ Clean \/ Query \/ ReplaceTar \/ UNCHANGED vars
    BY <2>3, <2>9 DEF Start, Clean, CleanBegins, Threshold, MarkUnused, Collect, Query, Stats,
        List, Generate, ReplaceTar, vars
  <2> QED
    BY <2>5, <2>6, <2>7, <2>8, <2>9 DEF Next, Finished
<1> QED
  BY <1>1, <1>2, StepsHold, VolumesHold, PTL DEF SessionSpec

OutcomeInv ==
    /\ exit \in {0, 1} /\ counted \in {"none", "success", "fail"}
    /\ faults \in 0..MaxFaults
    /\ DOMAIN deps \subseteq ImageIDs /\ \A i \in DOMAIN deps : deps[i] \in Names

LEMMA OutcomesHold == SessionSpec => []OutcomeInv
<1>1. Init => OutcomeInv
  BY SessionAssumption DEF Init, OutcomeInv
<1>2. StepInv /\ VolumeInv /\ OutcomeInv /\ [Next]_vars => OutcomeInv'
  <2> SUFFICES ASSUME StepInv, VolumeInv, OutcomeInv, [Next]_vars PROVE OutcomeInv'
    OBVIOUS
  <2> USE DEF Goto, Return, Fail, Succeed, localVars, diskVars
  <2>1. exit' \in {0, 1} /\ counted' \in {"none", "success", "fail"}
    <3>1. CASE Start \/ Create \/ Clean
      BY <3>1 DEF OutcomeInv, Start, Create, CreateBegins, Quota, Stream, Unpack, WriteMeta,
          MoveVolume, MakeImageDir, CreateImage, ApplyDiskLimit, SetOwnership, Register, Usage,
          CleanUp, Clean, CleanBegins, Threshold, MarkUnused, Collect, AfterClean
    <3>2. CASE Delete \/ Query
      BY <3>2 DEF OutcomeInv, Delete, DeleteBegins, RemoveInside, RemoveRootfsDir,
          DestroySubvolume, RemoveDir, Deregister, GiveUp, AfterRemoval, Query, Stats, List,
          Generate
    <3>3. CASE Failure
      BY <3>3 DEF OutcomeInv, Failure, CreateFails, CloneFails, CleanFails, DestroyFails,
          QueryFails, Kill, CleanUp, GiveUp, AfterRemoval
    <3>4. CASE ReplaceTar \/ Nest \/ UNCHANGED vars
      BY <3>4 DEF OutcomeInv, ReplaceTar, Nest, vars
    <3> QED
      BY <3>1, <3>2, <3>3, <3>4 DEF Next, Finished
  <2>2. faults' \in 0..MaxFaults
    <3>1. \/ faults' = faults
          \/ faults < MaxFaults /\ faults' = faults + 1
      <4>1. CASE Start \/ Create \/ Clean
        BY <4>1 DEF Start, Create, CreateBegins, Quota, Stream, Unpack, WriteMeta, MoveVolume,
            MakeImageDir, CreateImage, ApplyDiskLimit, SetOwnership, Register, Usage, Clean,
            CleanBegins, Threshold, MarkUnused, Collect
      <4>2. CASE Delete \/ Query
        BY <4>2 DEF Delete, DeleteBegins, RemoveInside, RemoveRootfsDir, DestroySubvolume,
            RemoveDir, Deregister, Query, Stats, List, Generate
      <4>3. CASE Failure
        BY <4>3 DEF Failure, CreateFails, CloneFails, CleanFails, DestroyFails, QueryFails,
            Kill, Strike
      <4>4. CASE ReplaceTar \/ Nest \/ UNCHANGED vars
        BY <4>4 DEF ReplaceTar, Nest, vars
      <4> QED
        BY <4>1, <4>2, <4>3, <4>4 DEF Next, Finished
    <3> QED
      BY <3>1, SessionAssumption DEF OutcomeInv
  <2>3. DOMAIN deps' \subseteq ImageIDs /\ \A i \in DOMAIN deps' : deps'[i] \in Names
    <3>1. CASE Register
      <4>1. cmd.id \in ImageIDs /\ cmd.op \in Operations
        BY SessionAssumption DEF StepInv, IsCommandLine
      <4>2. pc = "register" /\ deps' = Put(deps, cmd.id, chain)
        BY <3>1 DEF Register
      <4>3. cmd.op = "create" /\ commands > 0
        BY <4>1, <4>2 DEF StepInv, StepsOf, Operations, CleanUpSteps, Running
      <4>4. chain \in Names
        BY <4>2, <4>3 DEF VolumeInv, PulledSteps, ChainFits
      <4> QED
        BY <4>1, <4>2, <4>4 DEF OutcomeInv, Put
    <3>2. CASE Deregister
      BY <3>2 DEF OutcomeInv, Deregister, Restrict
    <3>3. CASE UNCHANGED deps
      BY <3>3 DEF OutcomeInv
    <3>4. Register \/ Deregister \/ UNCHANGED deps
      <4>1. CASE Start \/ Create \/ Clean
        BY <4>1 DEF Start, Create, CreateBegins, Quota, Stream, Unpack, WriteMeta, MoveVolume,
            MakeImageDir, CreateImage, ApplyDiskLimit, SetOwnership, Usage, Clean,
            CleanBegins, Threshold, MarkUnused, Collect
      <4>2. CASE Delete \/ Query
        BY <4>2 DEF Delete, DeleteBegins, RemoveInside, RemoveRootfsDir, DestroySubvolume,
            RemoveDir, Query, Stats, List, Generate
      <4>3. CASE Failure
        BY <4>3 DEF Failure, CreateFails, CloneFails, CleanFails, DestroyFails, QueryFails, Kill
      <4>4. CASE ReplaceTar \/ Nest \/ UNCHANGED vars
        BY <4>4 DEF ReplaceTar, Nest, vars
      <4> QED
        BY <4>1, <4>2, <4>3, <4>4 DEF Next, Finished
    <3> QED
      BY <3>1, <3>2, <3>3, <3>4
  <2> QED
    BY <2>1, <2>2, <2>3 DEF OutcomeInv
<1> QED
  BY <1>1, <1>2, StepsHold, VolumesHold, PTL DEF SessionSpec

(***************************************************************************)
(* Every variable of the session keeps its type: names in the store are    *)
(* those of base images or of temporary volumes, and dependency files name *)
(* finished ones.                                                          *)
(***************************************************************************)
THEOREM SessionTypes == SessionSpec => []SessionTypeOK
<1>1. StepInv /\ VolumeInv /\ ImagesInv /\ OutcomeInv => SessionTypeOK
  <2> SUFFICES ASSUME StepInv, VolumeInv, ImagesInv, OutcomeInv PROVE SessionTypeOK
    OBVIOUS
  <2>1. \A i \in ImageIDs : images[i].rootfs \in {"none", "plain", "subvolume"}
    BY DEF ImagesInv, ImageRecord
  <2> QED
    BY <2>1 DEF SessionTypeOK, StepInv, VolumeInv, OutcomeInv, TarOK
<1> QED
  BY <1>1, StepsHold, VolumesHold, ImagesHold, OutcomesHold, PTL

(***************************************************************************)
(* How commands end                                                        *)
(***************************************************************************)

\* Between commands only the tar file changes, and what containers have inside.
Rests ==
    /\ UNCHANGED <<volumes, gc, metas, deps, localVars, pc, exit, counted>>
    /\ \/ UNCHANGED images
       \/ \E i \in ImageIDs : /\ HasSubvolume(images[i])
                              /\ images' = [images EXCEPT ![i].nested = TRUE]

\* A command that is refused, one that fails, and one that is done.
Refused == Start /\ exit' = 1 /\ counted' \in {"none", "fail"}
Fails == Running /\ UNCHANGED <<file, cmd, cfg, commands>> /\ Fail
Finishes ==
    \/ Usage \/ Deregister \/ RemoveInside \/ Stats \/ List \/ Generate
    \/ DeleteBegins \/ CleanBegins \/ Threshold

LEMMA Endings ==
    ASSUME [Next]_vars, pc' = "exited"
    PROVE  (Rests /\ pc = "exited") \/ Refused \/ Fails \/ Finishes
<1> USE DEF localVars, diskVars
<1>1. CASE Start
  <2>1. pc' = "exited" =>
          \/ exit' = 1 /\ counted' \in {"none", "fail"}
          \/ Goto(cmd'.op)
    BY <1>1 DEF Start, Return
  <2>2. Goto(cmd'.op) => pc' \in Operations
    BY <1>1, SessionAssumption DEF Start, Goto, IsCommandLine
  <2> QED
    BY <1>1, <2>1, <2>2 DEF Refused, Operations
<1>2. CASE Create
  BY <1>2 DEF Create, CreateBegins, Quota, Stream, Unpack, WriteMeta, MoveVolume, MakeImageDir,
      CreateImage, ApplyDiskLimit, SetOwnership, Register, CleanUp, Goto, Fails, Running, Finishes
<1>3. CASE Clean
  BY <1>3 DEF Clean, MarkUnused, Collect, AfterClean, Goto, Finishes
<1>4. CASE Delete
  BY <1>4 DEF Delete, RemoveRootfsDir, DestroySubvolume, RemoveDir, GiveUp, AfterRemoval, Goto,
      Fails, Running, Finishes
<1>5. CASE Query
  BY <1>5 DEF Query, Finishes
<1>6. CASE Failure
  BY <1>6 DEF Failure, CreateFails, CloneFails, CleanFails, DestroyFails, QueryFails, Kill,
      Strike, CleanUp, GiveUp, AfterRemoval, Goto, Fails, Running
<1>7. CASE ReplaceTar \/ Nest \/ UNCHANGED vars
  BY <1>7 DEF ReplaceTar, Nest, vars, Rests
<1> QED
  BY <1>1, <1>2, <1>3, <1>4, <1>5, <1>6, <1>7 DEF Next, Finished

(***************************************************************************)
(* Sizes of volumes                                                        *)
(***************************************************************************)

\* A create works on a chain id that has no volume until it gives it one, with
\* a size file written just before.
SizeInv ==
    /\ pc \in {"stream", "unpack", "meta", "move"} => chain \in Names \ DOMAIN volumes
    /\ pc = "move" => Sized(chain)

LEMMA TempOfChain ==
    ASSUME StepInv, SizeInv, pc \in {"stream", "unpack", "meta", "move"}
    PROVE  Temp \notin Names
<1>1. chain \in Names /\ commands \in 1..MaxCommands
  BY SessionAssumption DEF SizeInv, StepInv, Running
<1> QED
  BY <1>1, TempIsNoName DEF Temp

LEMMA SizesHold == SessionSpec => []SizeInv
<1>1. Init => SizeInv
  BY DEF Init, SizeInv
<1>2. StepInv /\ VolumeInv /\ SizeInv /\ [Next]_vars => SizeInv'
  <2> SUFFICES ASSUME StepInv, VolumeInv, SizeInv, [Next]_vars PROVE SizeInv'
    OBVIOUS
  <2>0. cmd.op \in Operations
    BY SessionAssumption DEF StepInv, IsCommandLine
  <2> USE DEF Goto, Return, Fail, Succeed, localVars, diskVars
  <2>1. CASE Quota
    <3>1. cmd.op = "create" /\ commands > 0 /\ pc = "quota"
      BY <2>0, <2>1 DEF Quota, StepInv, StepsOf, Operations, CleanUpSteps, Running
    <3>2. chain \in Names
      BY <3>1 DEF VolumeInv, PullSteps, ChainFits
    <3> QED
      BY <2>1, <3>2 DEF Quota, SizeInv
  <2>2. CASE Stream
    <3>1. pc = "stream" /\ chain' = chain /\ pc' \in {"unpack", "exited"}
      BY <2>2 DEF Stream
    <3>2. DOMAIN volumes' \subseteq DOMAIN volumes \cup {Temp}
      BY <2>2 DEF Stream, Put
    <3> QED
      BY <3>1, <3>2, TempOfChain DEF SizeInv
  <2>3. CASE Unpack
    <3>1. pc = "unpack" /\ chain' = chain /\ pc' = "meta" /\ DOMAIN volumes' = DOMAIN volumes
      BY <2>3 DEF Unpack
    <3> QED
      BY <3>1 DEF SizeInv
  <2>4. CASE WriteMeta
    <3>1. pc = "meta" /\ UNCHANGED <<chain, volumes>> /\ metas' = Put(metas, chain, "whole")
      BY <2>4 DEF WriteMeta
    <3>2. Sized(chain)'
      BY <3>1 DEF Sized, Put
    <3> QED
      BY <3>1, <3>2 DEF SizeInv
  <2>5. CASE ReplaceTar \/ Nest \/ UNCHANGED vars
    BY <2>5 DEF ReplaceTar, Nest, vars, SizeInv, Sized
  <2>6. ASSUME pc' \notin {"stream", "unpack", "meta", "move"} PROVE SizeInv'
    BY <2>6 DEF SizeInv
  <2>7. CASE Start
    <3>1. pc' \in Operations \cup {"exited"}
      BY <2>7, SessionAssumption DEF Start, IsCommandLine
    <3> QED
      BY <2>6, <3>1 DEF Operations
  <2>8. CASE MoveVolume \/ CreateBegins \/ MakeImageDir \/ CreateImage \/ ApplyDiskLimit
             \/ SetOwnership \/ Register \/ Usage
    <3>1. pc' \notin {"stream", "unpack", "meta", "move"}
      BY <2>8 DEF CreateBegins, MoveVolume, MakeImageDir, CreateImage, ApplyDiskLimit,
          SetOwnership, Register, Usage, CleanUp
    <3> QED
      BY <2>6, <3>1
  <2>9. CASE Clean \/ Delete \/ Query
    <3>1. pc' \notin {"stream", "unpack", "meta", "move"}
      BY <2>9 DEF Clean, CleanBegins, Threshold, MarkUnused, Collect, AfterClean, Delete,
          DeleteBegins, RemoveInside, RemoveRootfsDir, DestroySubvolume, RemoveDir, Deregister,
          GiveUp, AfterRemoval, Query, Stats, List, Generate
    <3> QED
      BY <2>6, <3>1
  <2>10. CASE Failure
    <3>1. pc' \notin {"stream", "unpack", "meta", "move"}
      BY <2>10 DEF Failure, CreateFails, CloneFails, CleanFails, DestroyFails, QueryFails, Kill,
          CleanUp, GiveUp, AfterRemoval, Strike
    <3> QED
      BY <2>6, <3>1
  <2> QED
    BY <2>1, <2>2, <2>3, <2>4, <2>5, <2>7, <2>8, <2>9, <2>10 DEF Next, Create, Finished
<1> QED
  BY <1>1, <1>2, StepsHold, VolumesHold, PTL DEF SessionSpec

\* What may happen to the size of one volume.
SizeStep(v) ==
    \/ Sized(v)'
    \/ v \in DOMAIN volumes /\ ~Sized(v)
    \/ pc = "collect" /\ v \in gc

\* A generate that stops part of the way leaves the sizes there are alone.
LEMMA GeneratedSizes ==
    ASSUME NEW v, Sized(v), GenerateSome \/ metas' = WithSizes(Unsized)
    PROVE  Sized(v)'
<1>1. v \in DOMAIN metas /\ v \notin Unsized
  BY DEF Sized, Unsized
<1>2. \A names \in SUBSET Unsized :
        v \in DOMAIN WithSizes(names) /\ WithSizes(names)[v] = metas[v]
  BY <1>1 DEF WithSizes
<1>3. \A names \in SUBSET Unsized, w \in Unsized :
        LET f == Put(WithSizes(names), w, "torn") IN v \in DOMAIN f /\ f[v] = metas[v]
  BY <1>1, <1>2 DEF Put
<1>4. v \in DOMAIN metas' /\ metas'[v] = metas[v]
  BY <1>2, <1>3 DEF GenerateSome
<1> QED
  BY <1>4 DEF Sized

(***************************************************************************)
(* A volume gets its final name with a size that can be read, and loses it *)
(* only to the collection of a marked one of the same chain id: no other   *)
(* call, no failure and no kill takes it away.                             *)
(***************************************************************************)
THEOREM SizesAreKept == SessionSpec => SizesKept
<1>1. StepInv /\ SizeInv /\ [Next]_vars =>
        [\A v \in DOMAIN volumes' \cap Names : SizeStep(v)]_vars
  <2> SUFFICES ASSUME StepInv, SizeInv, [Next]_vars, NEW v \in DOMAIN volumes' \cap Names
               PROVE  SizeStep(v)
    OBVIOUS
  <2> USE DEF diskVars, localVars
  <2>1. ASSUME v \in DOMAIN volumes, UNCHANGED metas PROVE SizeStep(v)
    BY <2>1 DEF SizeStep, Sized
  <2>2. ASSUME v \in DOMAIN volumes,
               v \in DOMAIN metas => v \in DOMAIN metas' /\ metas'[v] = metas[v]
        PROVE  SizeStep(v)
    BY <2>2 DEF SizeStep, Sized
  <2>3. CASE Start \/ Delete \/ ReplaceTar \/ Nest \/ UNCHANGED vars
    BY <2>1, <2>3 DEF Start, Delete, DeleteBegins, RemoveInside, RemoveRootfsDir,
        DestroySubvolume, RemoveDir, Deregister, ReplaceTar, Nest, vars
  <2>4. CASE Create
    <3>1. CASE Stream
      <4>1. DOMAIN volumes' \subseteq DOMAIN volumes \cup {Temp} /\ UNCHANGED metas
        BY <3>1 DEF Stream, Put
      <4>2. pc = "stream"
        BY <3>1 DEF Stream
      <4> QED
        BY <2>1, <4>1, <4>2, TempOfChain
    <3>2. CASE WriteMeta
      <4>1. v \in DOMAIN volumes /\ v # chain /\ metas' = Put(metas, chain, "whole")
        BY <3>2 DEF WriteMeta, SizeInv
      <4>2. v \in DOMAIN metas => v \in DOMAIN metas' /\ metas'[v] = metas[v]
        BY <4>1 DEF Put
      <4> QED
        BY <2>2, <4>1, <4>2
    <3>3. CASE MoveVolume
      <4>1. UNCHANGED metas /\ (v \in DOMAIN volumes \/ v = chain) /\ pc = "move"
        BY <3>3 DEF MoveVolume
      <4>2. CASE v = chain
        BY <4>1, <4>2 DEF SizeInv, SizeStep, Sized
      <4> QED
        BY <2>1, <4>1, <4>2
    <3>4. CASE CreateBegins \/ Quota \/ Unpack \/ MakeImageDir \/ CreateImage
               \/ ApplyDiskLimit \/ SetOwnership \/ Register \/ Usage
      BY <2>1, <3>4 DEF CreateBegins, Quota, Unpack, MakeImageDir, CreateImage, ApplyDiskLimit,
          SetOwnership, Register, Usage
    <3> QED
      BY <2>4, <3>1, <3>2, <3>3, <3>4 DEF Create
  <2>5. ASSUME NEW done, Mark(done), UNCHANGED metas PROVE SizeStep(v)
    BY <2>1, <2>5 DEF Mark, Restrict
  <2>6. ASSUME pc = "collect", NEW done \in SUBSET gc, UNCHANGED volumes,
               metas' = Restrict(metas, DOMAIN metas \ done)
        PROVE  SizeStep(v)
    <3>1. CASE v \in gc
      BY <2>6, <3>1 DEF SizeStep
    <3>2. CASE v \notin gc
      BY <2>2, <2>6, <3>2 DEF Restrict
    <3> QED
      BY <3>1, <3>2
  <2>7. ASSUME UNCHANGED volumes, GenerateSome \/ metas' = WithSizes(Unsized) PROVE SizeStep(v)
    BY <2>7, GeneratedSizes DEF SizeStep
  <2>8. ASSUME UNCHANGED volumes, pc \in {"unpack", "meta"},
               \/ metas' = Restrict(metas, DOMAIN metas \ {chain})
               \/ metas' = Put(metas, chain, "torn")
        PROVE  SizeStep(v)
    <3>1. v \in DOMAIN volumes /\ v # chain
      BY <2>8 DEF SizeInv
    <3>2. v \in DOMAIN metas => v \in DOMAIN metas' /\ metas'[v] = metas[v]
      BY <2>8, <3>1 DEF Put, Restrict
    <3> QED
      BY <2>2, <3>1, <3>2
  <2>9. CASE Clean
    <3>1. CASE CleanBegins \/ Threshold
      BY <2>1, <3>1 DEF CleanBegins, Threshold
    <3>2. CASE MarkUnused
      BY <2>5, <3>2 DEF MarkUnused
    <3>3. CASE Collect
      BY <2>6, <3>3 DEF Collect
    <3> QED
      BY <2>9, <3>1, <3>2, <3>3 DEF Clean
  <2>10. CASE Query
    BY <2>1, <2>7, <2>10 DEF Query, Stats, List, Generate
  <2>11. CASE Failure
    <3>1. CASE CreateFails
      BY <2>1, <2>8, <3>1 DEF CreateFails
    <3>2. CASE CloneFails \/ DestroyFails
      BY <2>1, <3>2 DEF CloneFails, DestroyFails
    <3>3. CASE CleanFails
      BY <2>5, <2>6, <3>3 DEF CleanFails
    <3>4. CASE QueryFails
      BY <2>1, <2>7, <3>4 DEF QueryFails
    <3>5. CASE Kill
      BY <2>1, <2>5, <2>6, <2>7, <2>8, <3>5 DEF Kill
    <3> QED
      BY <2>11, <3>1, <3>2, <3>3, <3>4, <3>5 DEF Failure
  <2> QED
    BY <2>3, <2>4, <2>9, <2>10, <2>11 DEF Next, Finished
<1>2. [][\A v \in DOMAIN volumes' \cap Names : SizeStep(v)]_vars <=> SizesKept
  BY DEF SizesKept, SizeStep
<1> QED
  BY <1>1, <1>2, StepsHold, SizesHold, PTL DEF SessionSpec

\* Delete goes on to the dependency file only when the image is gone.
ReportInv == ReportedRight /\ (pc = "deregister" => ~image.dir)

(***************************************************************************)
(* What the exit code and the counters tell is what happened, for delete   *)
(* too, which drops the errors of DestroyImage.                            *)
(***************************************************************************)
THEOREM ReportsAreRight == SessionSpec => []ReportedRight
<1>1. Init => ReportInv
  BY DEF Init, ReportInv, ReportedRight
<1>2. StepInv /\ ImagesInv /\ ReportInv /\ [Next]_vars => ReportInv'
  <2> SUFFICES ASSUME StepInv, ImagesInv, ReportInv, [Next]_vars PROVE ReportInv'
    OBVIOUS
  <2>0. cmd.id \in ImageIDs /\ cmd.op \in Operations /\ cmd.arg \in {"image", "rootfs"}
    BY SessionAssumption DEF StepInv, IsCommandLine
  <2> USE DEF diskVars, localVars
  <2>1. pc' = "deregister" => ~image'.dir
    <3> SUFFICES ASSUME pc' = "deregister" PROVE ~image'.dir
      OBVIOUS
    <3> USE DEF Goto, Return, Fail, Succeed
    <3>1. CASE RemoveDir
      <4>1. image' = NoImage
        BY <2>0, <3>1 DEF RemoveDir, SetImage, ImagesInv, image
      <4> QED
        BY <4>1 DEF NoImage, Image
    <3>2. CASE UNCHANGED <<pc, cmd>>
      <4>1. ReplaceTar \/ Nest \/ UNCHANGED vars \/ ~Running
        BY <3>2 DEF Next, Start, Create, CreateBegins, Quota, Stream, Unpack, WriteMeta,
            MoveVolume, MakeImageDir, CreateImage, ApplyDiskLimit, SetOwnership, Register,
            Usage, CleanUp, Clean, CleanBegins, Threshold, MarkUnused, Collect, AfterClean,
            Delete, DeleteBegins, RemoveInside, RemoveRootfsDir, DestroySubvolume, RemoveDir,
            Deregister, GiveUp, AfterRemoval, Query, Stats, List, Generate, Failure,
            CreateFails, CloneFails, CleanFails, DestroyFails, QueryFails, Kill, Finished
      <4> QED
        BY <3>2, <4>1 DEF ReportInv, ReplaceTar, Nest, vars, Running, image
    <3>3. RemoveDir \/ UNCHANGED <<pc, cmd>>
      <4>1. CASE Start
        <5>1. pc' \in Operations \cup {"exited"}
          BY <4>1, SessionAssumption DEF Start, IsCommandLine
        <5> QED
          BY <5>1 DEF Operations
      <4>2. CASE Create \/ Clean
        BY <4>2 DEF Create, CreateBegins, Quota, Stream, Unpack, WriteMeta,
            MoveVolume, MakeImageDir, CreateImage, ApplyDiskLimit, SetOwnership, Register,
            Usage, CleanUp, Clean, CleanBegins, Threshold, MarkUnused, Collect, AfterClean
      <4>3. CASE Delete \/ Query
        BY <4>3 DEF Delete, DeleteBegins, RemoveInside, RemoveRootfsDir, DestroySubvolume,
            Deregister, GiveUp, AfterRemoval, Query, Stats, List, Generate
      <4>4. CASE Failure
        BY <4>4 DEF Failure, CreateFails, CloneFails, CleanFails, DestroyFails, QueryFails,
            Kill, CleanUp, GiveUp, AfterRemoval
      <4>5. CASE ReplaceTar \/ Nest \/ UNCHANGED vars
        BY <4>5 DEF ReplaceTar, Nest, vars
      <4> QED
        BY <4>1, <4>2, <4>3, <4>4, <4>5 DEF Next, Finished
    <3> QED
      BY <3>1, <3>2, <3>3
  <2>2. ReportedRight'
    <3> SUFFICES ASSUME pc' = "exited", commands' > 0 PROVE ReportedRight'
      BY DEF ReportedRight
    <3>1. CASE Rests /\ pc = "exited"
      <4>1. image'.dir = image.dir
        <5>1. CASE UNCHANGED images
          BY <3>1, <5>1 DEF Rests, image
        <5>2. CASE \E i \in ImageIDs : images' = [images EXCEPT ![i].nested = TRUE]
          <6>1. PICK i \in ImageIDs : images' = [images EXCEPT ![i].nested = TRUE]
            BY <5>2
          <6>2. \A j \in ImageIDs : images'[j].dir = images[j].dir
            BY <6>1 DEF ImagesInv, ImageRecord
          <6> QED
            BY <2>0, <3>1, <6>2 DEF Rests, image
        <5> QED
          BY <3>1, <5>1, <5>2 DEF Rests
      <4> QED
        BY <3>1, <4>1 DEF Rests, ReportInv, ReportedRight, HasStore
    <3>2. CASE Refused
      BY <3>2 DEF Refused, ReportedRight
    <3>3. CASE Fails
      BY <3>3 DEF Fails, Fail, Return, ReportedRight
    <3>4. CASE Finishes
      <4>1. UNCHANGED <<cmd, cfg>> /\ HasStore' = HasStore
        BY <3>4 DEF Finishes, Usage, Deregister, RemoveInside, Stats, List, Generate,
            DeleteBegins, CleanBegins, Threshold, HasStore
      <4>2. cmd.op = "delete" /\ cmd.arg = "image" /\ exit' = 0 /\ HasStore => ~image'.dir
        <5> SUFFICES ASSUME cmd.op = "delete", cmd.arg = "image", exit' = 0, HasStore
                     PROVE  ~image'.dir
          OBVIOUS
        <5>1. pc \in {"delete", "deregister"}
          BY <2>0, <3>4 DEF Finishes, Usage, Deregister, RemoveInside, Stats, List, Generate,
              DeleteBegins, CleanBegins, Threshold, StepInv, StepsOf, CleanUpSteps
        <5>2. CASE pc = "delete"
          <6>1. DeleteBegins
            BY <3>4, <5>2 DEF Finishes, Usage, Deregister, RemoveInside, Stats, List,
                Generate, CleanBegins, Threshold
          <6> QED
            BY <6>1, <4>1 DEF DeleteBegins, FindID, Goto, image
        <5>3. CASE pc = "deregister"
          <6>1. Deregister
            BY <3>4, <5>3 DEF Finishes, Usage, RemoveInside, Stats, List, Generate,
                DeleteBegins, CleanBegins, Threshold
          <6> QED
            BY <5>3, <6>1 DEF Deregister, ReportInv, image
        <5> QED
          BY <5>1, <5>2, <5>3
      <4>3. counted' = "fail" => exit' = 1 \/ (cmd.op = "clean" /\ ~HasStore)
        <5>1. CASE CleanBegins
          <6>1. cmd.op = "clean"
            BY <2>0, <5>1 DEF CleanBegins, StepInv, StepsOf, Operations, CleanUpSteps
          <6> QED
            BY <5>1, <6>1 DEF CleanBegins, Goto
        <5>2. CASE ~CleanBegins
          BY <3>4, <5>2 DEF Finishes, Usage, Deregister, RemoveInside, Stats, List, Generate,
              DeleteBegins, Threshold, Fail, Succeed, Return, Goto
        <5> QED
          BY <5>1, <5>2
      <4>4. counted' = "success" => exit' = 0
        BY <3>4 DEF Finishes, Usage, Deregister, RemoveInside, Stats, List, Generate,
            DeleteBegins, CleanBegins, Threshold, Fail, Succeed, Return, Goto
      <4> QED
        BY <4>1, <4>2, <4>3, <4>4 DEF ReportedRight
    <3> QED
      BY <3>1, <3>2, <3>3, <3>4, Endings
  <2> QED
    BY <2>1, <2>2 DEF ReportInv
<1> QED
  BY <1>1, <1>2, StepsHold, ImagesHold, PTL DEF SessionSpec, ReportInv

(***************************************************************************)
(* What a command found                                                    *)
(***************************************************************************)
BegunInv == begun.image \in ImageRecord

\* Only the start of a command sets it.
LEMMA OnlyStartBegins ==
    ASSUME [Next]_vars, ~Start
    PROVE  UNCHANGED <<file, cmd, cfg, commands, begun>> /\ blamed \subseteq blamed'
<1> USE DEF localVars, diskVars
<1>1. CASE Create \/ Clean
  BY <1>1 DEF Create, CreateBegins, Quota, Stream, Unpack, WriteMeta, MoveVolume, MakeImageDir,
      CreateImage, ApplyDiskLimit, SetOwnership, Register, Usage, Clean, CleanBegins, Threshold,
      MarkUnused, Collect
<1>2. CASE Delete \/ Query
  BY <1>2 DEF Delete, DeleteBegins, RemoveInside, RemoveRootfsDir, DestroySubvolume, RemoveDir,
      Deregister, Query, Stats, List, Generate
<1>3. CASE Failure
  BY <1>3 DEF Failure, CreateFails, CloneFails, CleanFails, DestroyFails, QueryFails, Kill,
      Strike
<1>4. CASE ReplaceTar \/ Nest \/ UNCHANGED vars
  BY <1>4 DEF ReplaceTar, Nest, vars
<1> QED
  BY <1>1, <1>2, <1>3, <1>4 DEF Next, Finished

LEMMA BegunHolds == SessionSpec => []BegunInv
<1>1. Init => BegunInv
  BY ImagesMade DEF Init, BegunInv, ImageOK
<1>2. ImagesInv /\ BegunInv /\ [Next]_vars => BegunInv'
  <2> SUFFICES ASSUME ImagesInv, BegunInv, [Next]_vars PROVE BegunInv'
    OBVIOUS
  <2>1. CASE Start
    <3>1. begun'.image = images[cmd'.id] /\ cmd'.id \in ImageIDs
      BY <2>1, SessionAssumption DEF Start, IsCommandLine
    <3> QED
      BY <3>1 DEF BegunInv, ImagesInv
  <2>2. CASE ~Start
    BY <2>2, OnlyStartBegins DEF BegunInv
  <2> QED
    BY <2>1, <2>2
<1> QED
  BY <1>1, <1>2, ImagesHold, PTL DEF SessionSpec

(***************************************************************************)
(* What create makes                                                       *)
(***************************************************************************)
QuotaPassed == {"stream", "unpack", "meta", "move"} \cup PulledSteps
LimitPassed == {"ownership", "register", "usage"}
created == pc = "exited" /\ exit = 0

\* How far the image is, call by call.
MadeInv ==
    cmd.op = "create" /\ commands > 0 =>
        /\ pc \in PullSteps \cup PulledSteps \/ created =>
             (cmd.base = "registry" => Registry \in cfg.registries)
        /\ pc \in QuotaPassed \/ created => ~quotaExceeded
        /\ pc \in {"limit"} \cup LimitPassed \/ created =>
             image.content = volumes[chain] /\ image.snapshot = cfg.withoutMount
        /\ pc = "limit" => image.limit = 0
        /\ pc \in LimitPassed \/ created =>
             image.limit = cfg.limit /\ (cfg.limit # 0 => image.exclusive = cfg.exclude)
        /\ pc = "usage" \/ created => cmd.id \in DOMAIN deps /\ deps[cmd.id] = chain

\* Any other step of a create fails it, or is one of its clean.
LEMMA NotCreate ==
    ASSUME StepInv, [Next]_vars, ~Start, ~Create, cmd.op = "create"
    PROVE  /\ UNCHANGED <<cmd, cfg, commands>>
           /\ \/ pc' \in CleanUpSteps \cup {"killed", "deregister"}
              \/ pc' = "exited" /\ exit' = 1
              \/ pc' \in {"mark", "collect", "quota"} /\ pc \in {"threshold", "mark", "collect"}
              \/ Rests
<1>0. pc \notin {"clean", "delete", "removeInside", "deregister", "stats", "list", "generate"}
  BY DEF StepInv, StepsOf, CleanUpSteps
<1> USE DEF localVars, diskVars, Goto, Return, Fail, Succeed
<1>1. CASE Clean
  BY <1>0, <1>1 DEF Clean, CleanBegins, Threshold, MarkUnused, Collect, AfterClean
<1>2. CASE Delete
  BY <1>0, <1>2 DEF Delete, DeleteBegins, RemoveInside, RemoveRootfsDir, DestroySubvolume,
      RemoveDir, Deregister, GiveUp, AfterRemoval, CleanUpSteps
<1>3. CASE Query
  BY <1>0, <1>3 DEF Query, Stats, List, Generate
<1>4. CASE Failure
  BY <1>0, <1>4 DEF Failure, CreateFails, CloneFails, CleanFails, DestroyFails, QueryFails,
      Kill, Strike, CleanUp, GiveUp, AfterRemoval, CleanUpSteps
<1>5. CASE ReplaceTar \/ Nest \/ UNCHANGED vars
  BY <1>5 DEF ReplaceTar, Nest, vars, Rests
<1> QED
  BY <1>1, <1>2, <1>3, <1>4, <1>5 DEF Next, Finished

\* Rest leaves of an image all but what a container makes inside.
LEMMA RestKeepsImages ==
    ASSUME ImagesInv, Rests, NEW i \in ImageIDs
    PROVE  /\ images'[i] \in ImageRecord
           /\ images'[i].dir = images[i].dir /\ images'[i].rootfs = images[i].rootfs
           /\ images'[i].snapshot = images[i].snapshot /\ images'[i].content = images[i].content
           /\ images'[i].limit = images[i].limit /\ images'[i].exclusive = images[i].exclusive
<1>1. CASE UNCHANGED images
  BY <1>1 DEF ImagesInv
<1>2. CASE \E j \in ImageIDs : images' = [images EXCEPT ![j].nested = TRUE]
  <2>1. PICK j \in ImageIDs : images' = [images EXCEPT ![j].nested = TRUE]
    BY <1>2
  <2> QED
    BY <2>1 DEF ImagesInv, ImageRecord
<1> QED
  BY <1>1, <1>2 DEF Rests

LEMMA CreateMakes ==
    ASSUME StepInv, VolumeInv, ImagesInv, MadeInv, Create
    PROVE  MadeInv'
<1>0. cmd.id \in ImageIDs /\ cmd.op \in Operations /\ file \in Config /\ cmd \in CommandLines
  BY SessionAssumption DEF StepInv, IsCommandLine
<1> SUFFICES ASSUME cmd'.op = "create", commands' > 0 PROVE MadeInv'
  BY DEF MadeInv
<1> USE DEF localVars, diskVars, Goto, Return, Fail, Succeed
<1>1. /\ UNCHANGED <<cmd, cfg, commands>> /\ cmd.op = "create" /\ commands > 0
  BY DEF Create, CreateBegins, Quota, Stream, Unpack, WriteMeta, MoveVolume, MakeImageDir,
      CreateImage, ApplyDiskLimit, SetOwnership, Register, Usage, CleanUp
<1>2. quotaExceeded' = quotaExceeded
  BY <1>1 DEF quotaExceeded, layersSize
<1>3. \A i : SetImage(i) => image' = i
  BY <1>0, <1>1 DEF SetImage, ImagesInv, image
<1>4. UNCHANGED images => image' = image
  BY <1>1 DEF image
<1>5. CASE CreateBegins
  <2>1. /\ pc' \in {"threshold", "quota"} \/ (pc' = "exited" /\ exit' = 1)
        /\ pc' \in {"threshold", "quota"} =>
             (cmd.base = "registry" => Registry \in cfg.registries)
    BY <1>1, <1>5 DEF CreateBegins, InfoFetched, skipTLSValidation
  <2> QED
    BY <1>1, <2>1 DEF MadeInv, created, PullSteps, PulledSteps, QuotaPassed, LimitPassed
<1>6. CASE Quota
  <2>1. /\ pc = "quota"
        /\ \/ pc' = "exited" /\ exit' = 1
           \/ pc' \in {"mkdir", "stream"} /\ ~quotaExceeded
    BY <1>6 DEF Quota
  <2> QED
    BY <1>1, <1>2, <2>1
    DEF MadeInv, created, PullSteps, PulledSteps, QuotaPassed, LimitPassed
<1>7. CASE Stream \/ Unpack \/ WriteMeta \/ MoveVolume
  <2>1. /\ pc \in {"stream", "unpack", "meta", "move"}
        /\ pc' \in {"unpack", "meta", "move", "mkdir"} \/ (pc' = "exited" /\ exit' = 1)
    BY <1>7 DEF Stream, Unpack, WriteMeta, MoveVolume
  <2> QED
    BY <1>1, <1>2, <2>1 DEF MadeInv, created, PullSteps, PulledSteps, QuotaPassed, LimitPassed
<1>8. CASE MakeImageDir
  <2>1. pc = "mkdir" /\ pc' = "snapshot"
    BY <1>8 DEF MakeImageDir
  <2> QED
    BY <1>1, <1>2, <2>1 DEF MadeInv, created, PullSteps, PulledSteps, QuotaPassed, LimitPassed
<1>9. CASE CreateImage
  <2>1. pc = "snapshot" /\ pc' = "limit" /\ UNCHANGED <<volumes, chain>>
    BY <1>9 DEF CreateImage
  <2>2. image' = IF cfg.withoutMount THEN SnapshotBeside(volumes[chain])
                                     ELSE SnapshotRootfs(volumes[chain])
    BY <1>3, <1>9 DEF CreateImage
  <2>3. cfg.withoutMount \in BOOLEAN
    BY <1>0, <1>1, CreateTakesOptions DEF StepInv
  <2>4. /\ image'.content = volumes[chain] /\ image'.snapshot = cfg.withoutMount
        /\ image'.limit = 0
    BY <2>2, <2>3 DEF SnapshotBeside, SnapshotRootfs, Image
  <2> QED
    BY <1>1, <1>2, <2>1, <2>4 DEF MadeInv, created, PulledSteps, QuotaPassed, LimitPassed
<1>10. CASE ApplyDiskLimit
  <2>1. pc = "limit" /\ UNCHANGED <<volumes, chain>>
    BY <1>10 DEF ApplyDiskLimit
  <2>2. \/ pc' = "rootfsDir"
        \/ pc' = "ownership" /\ cfg.limit = 0 /\ image' = image
        \/ pc' = "ownership" /\ image' = Limited(image, cfg.limit, cfg.exclude)
    BY <1>3, <1>4, <1>10 DEF ApplyDiskLimit, CleanUp
  <2>3. image \in ImageRecord
    BY <1>0 DEF ImagesInv, image
  <2>4. pc' = "ownership" =>
          /\ image'.content = image.content /\ image'.snapshot = image.snapshot
          /\ cfg.limit # 0 => image'.exclusive = cfg.exclude
    BY <2>2, <2>3 DEF Limited, ImageRecord
  <2>5. image.limit = 0
    BY <1>1, <2>1 DEF MadeInv
  <2>6. pc' = "ownership" => image'.limit = cfg.limit
    BY <2>2, <2>3, <2>5 DEF Limited, ImageRecord
  <2> QED
    BY <1>1, <1>2, <2>1, <2>2, <2>4, <2>6
    DEF MadeInv, created, PullSteps, PulledSteps, QuotaPassed, LimitPassed
<1>11. CASE SetOwnership
  <2>1. pc = "ownership" /\ pc' = "register" /\ UNCHANGED <<volumes, chain, images>>
    BY <1>11 DEF SetOwnership
  <2> QED
    BY <1>1, <1>2, <1>4, <2>1
    DEF MadeInv, created, PullSteps, PulledSteps, QuotaPassed, LimitPassed
<1>12. CASE Register
  <2>1. pc = "register" /\ pc' = "usage" /\ UNCHANGED <<volumes, chain, images>>
    BY <1>12 DEF Register
  <2>2. cmd.id \in DOMAIN deps' /\ deps'[cmd.id] = chain
    BY <1>12 DEF Register, Put
  <2> QED
    BY <1>1, <1>2, <1>4, <2>1, <2>2
    DEF MadeInv, created, PullSteps, PulledSteps, QuotaPassed, LimitPassed
<1>13. CASE Usage
  <2>1. pc = "usage" /\ pc' = "exited" /\ UNCHANGED <<volumes, chain, images, deps>>
    BY <1>13 DEF Usage
  <2> QED
    BY <1>1, <1>2, <1>4, <2>1
    DEF MadeInv, created, PullSteps, PulledSteps, QuotaPassed, LimitPassed
<1> QED
  BY <1>5, <1>6, <1>7, <1>8, <1>9, <1>10, <1>11, <1>12, <1>13 DEF Create

LEMMA MadeHolds == SessionSpec => []MadeInv
<1>1. Init => MadeInv
  BY DEF Init, MadeInv
<1>2. StepInv /\ VolumeInv /\ ImagesInv /\ MadeInv /\ [Next]_vars => MadeInv'
  <2> SUFFICES ASSUME StepInv, VolumeInv, ImagesInv, MadeInv, [Next]_vars PROVE MadeInv'
    OBVIOUS
  <2>1. CASE Create
    BY <2>1, CreateMakes
  <2>2. CASE Start
    <3>1. cmd'.op = "create" => pc' = "create" \/ (pc' = "exited" /\ exit' = 1)
      BY <2>2 DEF Start, Goto, Return
    <3> QED
      BY <3>1 DEF MadeInv, created, PullSteps, PulledSteps, QuotaPassed, LimitPassed
  <2>3. CASE ~Start /\ ~Create
    <3> SUFFICES ASSUME cmd'.op = "create", commands' > 0 PROVE MadeInv'
      BY DEF MadeInv
    <3>1. cmd.op = "create"
      <4>1. cmd' = cmd
        BY <2>3, OnlyStartBegins
      <4> QED
        BY <4>1
    <3>2. UNCHANGED <<cmd, cfg, commands>>
      BY <2>3, <3>1, NotCreate
    <3>3. CASE Rests
      <4>1. cmd.id \in ImageIDs
        BY SessionAssumption DEF StepInv, IsCommandLine
      <4>2. /\ image'.snapshot = image.snapshot /\ image'.content = image.content
            /\ image'.limit = image.limit /\ image'.exclusive = image.exclusive
        BY <3>2, <3>3, <4>1, RestKeepsImages DEF image
      <4>3. UNCHANGED <<volumes, deps, chain, pc, exit>>
        BY <3>3 DEF Rests, localVars
      <4> QED
        BY <3>1, <3>2, <4>2, <4>3 DEF MadeInv, created, quotaExceeded, layersSize
    <3>4. CASE \/ pc' \in CleanUpSteps \cup {"killed", "deregister"}
               \/ pc' = "exited" /\ exit' = 1
      BY <3>4 DEF MadeInv, created, PullSteps, PulledSteps, QuotaPassed, LimitPassed,
          CleanUpSteps
    <3>5. CASE pc' \in {"mark", "collect", "quota"} /\ pc \in {"threshold", "mark", "collect"}
      BY <3>1, <3>2, <3>5
      DEF MadeInv, created, PullSteps, PulledSteps, QuotaPassed, LimitPassed
    <3> QED
      BY <2>3, <3>1, <3>3, <3>4, <3>5, NotCreate
  <2> QED
    BY <2>1, <2>2, <2>3
<1> QED
  BY <1>1, <1>2, StepsHold, VolumesHold, ImagesHold, PTL DEF SessionSpec

(***************************************************************************)
(* An image that create reports holds its base image and its dependency    *)
(* file names a volume with that content: for a tar file that was left     *)
(* alone meanwhile, what is in it now.                                     *)
(***************************************************************************)
THEOREM ImagesComeFromBase == SessionSpec => []CreatedFromBase
<1>1. StepInv /\ VolumeInv /\ MadeInv => CreatedFromBase
  <2> SUFFICES ASSUME StepInv, VolumeInv, MadeInv, Done("create", 0)
               PROVE  /\ cmd.id \in DOMAIN deps
                      /\ deps[cmd.id] \in DOMAIN volumes
                      /\ image.content = volumes[deps[cmd.id]]
                      /\ cmd.base = "registry" => image.content = RegistryContent
                      /\ cmd.base = "tar" /\ begun.tar = tar => image.content = tar.content
    BY DEF CreatedFromBase
  <2>1. cmd.op = "create" /\ commands > 0 /\ created
    BY DEF Done, created
  <2>2. cmd.id \in DOMAIN deps /\ deps[cmd.id] = chain /\ image.content = volumes[chain]
    BY <2>1 DEF MadeInv
  <2>3. /\ chain \in DOMAIN volumes /\ VolumesRight(volumes, tar.mtime)
        /\ ChainFits(chain, cmd.base, begun.tar.mtime, tar.mtime)
    BY <2>1 DEF VolumeInv, created
  <2>4. RightContent(chain, volumes[chain], tar.mtime)
    BY <2>3 DEF VolumesRight, ChainFits
  <2>5. cmd.base = "registry" => volumes[chain] = RegistryContent
    BY <2>3, <2>4 DEF ChainFits, RightContent
  <2>6. ASSUME cmd.base = "tar", begun.tar = tar
        PROVE  volumes[chain] = tar.content
    <3>1. tar.mtime \in 1..MaxWrites /\ tar.content = tar.mtime /\ tar.mtime \in Int
      BY SessionAssumption DEF VolumeInv, TarOK
    <3>2. PICK m \in tar.mtime..tar.mtime : chain = <<TarPath, m>>
      BY <2>3, <2>6 DEF ChainFits
    <3>3. m = tar.mtime
      BY <3>1, <3>2
    <3>4. chain # RegistryChain /\ chain[2] = tar.mtime
      BY <3>1, <3>2, <3>3 DEF RegistryChain
    <3> QED
      BY <2>4, <3>1, <3>4 DEF RightContent
  <2> QED
    BY <2>2, <2>3, <2>5, <2>6
<1> QED
  BY <1>1, StepsHold, VolumesHold, MadeHolds, PTL

(***************************************************************************)
(* An image has the limit and the layout of its command line, or else of   *)
(* the config file; it is within an inclusive limit as far as the manifest *)
(* tells, and comes from an insecure registry only if that was listed.     *)
(***************************************************************************)
THEOREM OptionsAreKept == SessionSpec => []AskedOptions
<1>1. StepInv /\ MadeInv => AskedOptions
  <2> SUFFICES ASSUME StepInv, MadeInv, Done("create", 0)
               PROVE  /\ image.limit = Asked("limit")
                      /\ image.limit # 0 => image.exclusive = Asked("exclude")
                      /\ image.snapshot <=> \/ IsSet(cmd.flags, "without-mount")
                                            \/ file.withoutMount
                                                 /\ ~IsSet(cmd.flags, "with-mount")
                      /\ cmd.base = "registry" =>
                           /\ Registry \in Asked("registries")
                           /\ \/ Asked("limit") = 0 \/ Asked("exclude")
                              \/ BaseSize <= Asked("limit")
    BY DEF AskedOptions
  <2>1. cmd.op = "create" /\ commands > 0 /\ created
    BY DEF Done, created
  <2>2. /\ cmd.base = "registry" => Registry \in cfg.registries
        /\ ~quotaExceeded /\ image.snapshot = cfg.withoutMount /\ image.limit = cfg.limit
        /\ cfg.limit # 0 => image.exclusive = cfg.exclude
    BY <2>1 DEF MadeInv
  <2>3. cmd \in CommandLines /\ file \in Config /\ cfg = CommandConfig(file, cmd.op, cmd.flags)
    BY <2>1, SessionAssumption DEF StepInv
  <2>4. /\ cfg.limit = Asked("limit") /\ cfg.limit \in Int
        /\ cfg.exclude = Asked("exclude") /\ cfg.exclude \in BOOLEAN
        /\ cfg.registries = Asked("registries")
        /\ cfg.withoutMount <=> \/ IsSet(cmd.flags, "without-mount")
                                \/ file.withoutMount /\ ~IsSet(cmd.flags, "with-mount")
    BY <2>1, <2>3, CreateTakesOptions DEF Asked
  <2>5. cmd.base = "registry" =>
          cfg.limit = 0 \/ cfg.exclude \/ BaseSize <= cfg.limit
    BY <2>2, <2>4, SessionAssumption DEF quotaExceeded, layersSize
  <2> QED
    BY <2>2, <2>4, <2>5
<1> QED
  BY <1>1, StepsHold, MadeHolds, PTL

(***************************************************************************)
(* What delete takes away                                                  *)
(***************************************************************************)
Deletable ==
    /\ cmd.op = "delete" /\ cmd.arg = "image" /\ commands > 0
    /\ Valid(file) /\ HasStore /\ blamed = {} /\ begun.image.dir
    /\ RootfsDirGoes(begun.image)
    /\ begun.image.nested => DraxAnswers

\* No container runs meanwhile, so that each call finds what the last one left.
DeleteInv ==
    Deletable =>
        /\ pc # "killed"
        /\ pc \in {"delete", "rootfsDir"} => image = begun.image
        /\ pc = "subvolume" => image = WithoutRootfsDir(begun.image)
        /\ pc = "deregister" => image = NoImage
        /\ pc = "exited" => exit = 0 /\ image = NoImage /\ cmd.id \notin DOMAIN deps

LEMMA NoImageStays ==
    ASSUME ImagesInv, Rests, NEW i \in ImageIDs, images[i] = NoImage
    PROVE  images'[i] = NoImage
<1>1. ~HasSubvolume(NoImage)
  BY DEF HasSubvolume, NoImage, Image
<1> QED
  BY <1>1 DEF Rests, ImagesInv

(***************************************************************************)
(* Delete of an image works whenever no call fails: the image goes with    *)
(* its dependency file, but for one an earlier delete has stopped half way *)
(* in, and one with subvolumes inside where drax cannot run.               *)
(***************************************************************************)
THEOREM DeleteWorks == SessionSpec => []DeleteDeletes
<1>1. Init => DeleteInv
  BY DEF Init, DeleteInv, Deletable
<1>2. StepInv /\ ImagesInv /\ BegunInv /\ DeleteInv /\ [Next]_vars => DeleteInv'
  <2> SUFFICES ASSUME StepInv, ImagesInv, BegunInv, DeleteInv, [Next]_vars, Deletable'
               PROVE  DeleteInv'
    BY DEF DeleteInv
  <2>0. cmd.id \in ImageIDs /\ cmd.op \in Operations
    BY SessionAssumption DEF StepInv, IsCommandLine
  <2> USE DEF localVars, diskVars, Goto, Return, Fail, Succeed
  <2>1. CASE Start
    <3>1. cmd' \in CommandLines /\ cmd'.op = "delete" /\ cmd'.id \in ImageIDs /\ file \in Config
      BY <2>1, SessionAssumption DEF Start, Deletable, IsCommandLine, StepInv
    <3>2. /\ CommandConfig(file, cmd'.op, cmd'.flags) = Before(file, cmd'.flags)
          /\ Valid(Before(file, cmd'.flags))
      <4>1. Valid(file)
        BY <2>1 DEF Start, Deletable
      <4>2. /\ Before(file, cmd'.flags).limit = file.limit
            /\ Before(file, cmd'.flags).threshold = file.threshold
        BY <3>1, OptionNames, BeforeKeepsOptions DEF OwnOptions
      <4> QED
        BY <3>1, <4>1, <4>2 DEF Valid, CommandConfig
    <3>3. Accepted(file, cmd'.op, cmd'.flags)
      BY <3>1, <3>2 DEF Accepted
    <3>4. pc' = "delete" /\ images' = images /\ begun'.image = images[cmd'.id]
      BY <2>1, <3>1, <3>2, <3>3 DEF Start
    <3> QED
      BY <3>4 DEF DeleteInv, image
  <2>2. CASE Rests /\ pc' = pc /\ ~Running
    <3>1. UNCHANGED <<pc, cmd, cfg, file, commands, begun, blamed, exit, deps>>
      BY <2>2 DEF Rests
    <3>2. Deletable
      BY <3>1 DEF Deletable, HasStore, DraxAnswers
    <3>3. pc = "exited" /\ exit = 0 /\ image = NoImage /\ cmd.id \notin DOMAIN deps
      BY <2>2, <3>2 DEF DeleteInv, Running
    <3>4. image' = NoImage
      BY <2>0, <2>2, <3>1, <3>3, NoImageStays DEF image
    <3> QED
      BY <3>1, <3>3, <3>4 DEF DeleteInv
  <2>3. CASE UNCHANGED <<images, localVars, deps, pc, exit>>
    BY <2>3 DEF DeleteInv, Deletable, HasStore, DraxAnswers, image
  <2>4. CASE Create \/ Clean \/ Query
    <3>1. UNCHANGED cmd
      BY <2>4 DEF Create, CreateBegins, Quota, Stream, Unpack, WriteMeta, MoveVolume,
          MakeImageDir, CreateImage, ApplyDiskLimit, SetOwnership, Register, Usage, Clean,
          CleanBegins, Threshold, MarkUnused, Collect, Query, Stats, List, Generate
    <3>2. cmd.op = "delete"
      BY <3>1 DEF Deletable
    <3>3. pc \in {"delete", "removeInside", "deregister", "exited", "killed"} \cup CleanUpSteps
      BY <3>2 DEF StepInv, StepsOf
    <3>4. CASE Create
      BY <3>3, <3>4 DEF Create, CreateBegins, Quota, Stream, Unpack, WriteMeta, MoveVolume,
          MakeImageDir, CreateImage, ApplyDiskLimit, SetOwnership, Register, Usage, CleanUpSteps
    <3>5. CASE Clean \/ Query
      BY <3>3, <3>5 DEF Clean, CleanBegins, Threshold, MarkUnused, Collect, Query, Stats, List,
          Generate, CleanUpSteps
    <3> QED
      BY <2>4, <3>4, <3>5
  <2>5. CASE Delete
    <3>1. UNCHANGED <<cmd, cfg, file, commands, begun, blamed>>
      BY <2>5 DEF Delete, DeleteBegins, RemoveInside, RemoveRootfsDir, DestroySubvolume,
          RemoveDir, Deregister
    <3>2. Deletable
      BY <3>1 DEF Deletable, HasStore, DraxAnswers
    <3>3. \A i : SetImage(i) => image' = i
      BY <2>0, <3>1 DEF SetImage, ImagesInv, image
    <3>4. UNCHANGED images => image' = image
      BY <3>1 DEF image
    <3>5. CASE DeleteBegins
      <4>1. pc = "delete" /\ image = begun.image /\ image.dir
        BY <3>2, <3>5 DEF DeleteBegins, DeleteInv, Deletable
      <4>2. FindID /\ cmd.arg = "image"
        BY <3>2, <4>1 DEF FindID, Deletable
      <4>3. pc' = "rootfsDir" /\ UNCHANGED images
        BY <3>5, <4>2 DEF DeleteBegins
      <4> QED
        BY <3>1, <3>4, <4>1, <4>3 DEF DeleteInv
    <3>6. CASE RemoveRootfsDir
      <4>1. pc = "rootfsDir" /\ image = begun.image /\ RootfsDirGoes(image)
        BY <3>2, <3>6 DEF RemoveRootfsDir, DeleteInv, Deletable
      <4>2. pc' = "subvolume" /\ image' = WithoutRootfsDir(image)
        BY <3>3, <3>6, <4>1 DEF RemoveRootfsDir
      <4> QED
        BY <3>1, <4>1, <4>2 DEF DeleteInv
    <3>7. CASE DestroySubvolume
      <4>1. pc = "subvolume" /\ image = WithoutRootfsDir(begun.image)
        BY <3>2, <3>7 DEF DestroySubvolume, DeleteInv
      <4>2. image.nested => DraxAnswers
        <5>1. image.nested = begun.image.nested
          BY <4>1 DEF WithoutRootfsDir, BegunInv, ImageRecord
        <5> QED
          BY <3>2, <5>1 DEF Deletable
      <4>3. pc' = "removeDir"
        BY <3>7, <4>2 DEF DestroySubvolume, listSubvolumes
      <4> QED
        BY <4>3 DEF DeleteInv
    <3>8. CASE RemoveDir
      <4>1. pc = "removeDir" /\ image' = NoImage
        BY <3>3, <3>8 DEF RemoveDir
      <4>2. caller = "delete"
        BY <3>2, <4>1 DEF StepInv, CleanUpSteps, Deletable
      <4>3. pc' = "deregister"
        BY <3>8, <4>2 DEF RemoveDir, AfterRemoval
      <4> QED
        BY <4>1, <4>3 DEF DeleteInv
    <3>9. CASE Deregister
      <4>1. pc = "deregister" /\ image = NoImage
        BY <3>2, <3>9 DEF Deregister, DeleteInv
      <4>2. pc' = "exited" /\ exit' = 0 /\ UNCHANGED images /\ cmd.id \notin DOMAIN deps'
        BY <3>9 DEF Deregister, Restrict
      <4> QED
        BY <3>1, <3>4, <4>1, <4>2 DEF DeleteInv
    <3>10. CASE RemoveInside
      BY <3>2, <3>10 DEF RemoveInside, StepInv, Deletable
    <3> QED
      BY <2>5, <3>5, <3>6, <3>7, <3>8, <3>9, <3>10 DEF Delete
  <2>6. CASE Failure
    <3>1. blamed' = blamed \cup {pc}
      BY <2>6 DEF Failure, CreateFails, CloneFails, CleanFails, DestroyFails, QueryFails, Kill,
          Strike
    <3> QED
      BY <3>1 DEF Deletable
  <2>7. CASE ReplaceTar \/ UNCHANGED vars
    BY <2>3, <2>7 DEF ReplaceTar, vars
  <2>8. CASE Nest
    BY <2>2, <2>8 DEF Nest, Rests
  <2> QED
    BY <2>1, <2>4, <2>5, <2>6, <2>7, <2>8 DEF Next, Finished
<1>3. DeleteInv => DeleteDeletes
  BY DEF DeleteInv, DeleteDeletes, Deletable
<1> QED
  BY <1>1, <1>2, <1>3, StepsHold, ImagesHold, BegunHolds, PTL DEF SessionSpec

(***************************************************************************)
(* What a failed create takes away                                         *)
(***************************************************************************)
Blameless ==
    /\ cmd.op = "create" /\ commands > 0
    /\ blamed \cap {"ownership", "usage", "rootfsDir", "subvolume", "removeDir"} = {}

SameButNested(i, j) ==
    /\ i.dir = j.dir /\ i.rootfs = j.rootfs /\ i.snapshot = j.snapshot
    /\ i.content = j.content /\ i.limit = j.limit /\ i.exclusive = j.exclusive

\* Create works on an id that was free, and until it returns nothing gets in
\* the way of its clean-up: the rootfs beside a snapshot is there, and no
\* container has run.
CleanUpInv ==
    Blameless =>
        /\ pc = "create" => image = begun.image
        /\ pc \in PullSteps \cup {"mkdir"} => image = NoImage
        /\ pc \in PullSteps \cup PulledSteps \cup CleanUpSteps => begun.image = NoImage
        /\ pc \in PulledSteps \cup CleanUpSteps => ~image.nested
        /\ pc \in PulledSteps \cup {"rootfsDir"} => RootfsDirGoes(image)
        /\ pc = "exited" /\ exit = 1 => SameButNested(image, begun.image)

\* The images that create makes are fit for it.
LEMMA FreshImages ==
    /\ \A i \in {NoImage, MadeDir, MadeRootfs} : ~i.nested /\ RootfsDirGoes(i)
    /\ \A c : \A i \in {SnapshotRootfs(c), SnapshotBeside(c)} : ~i.nested /\ RootfsDirGoes(i)
  BY DEF NoImage, MadeDir, MadeRootfs, SnapshotRootfs, SnapshotBeside, Image, RootfsDirGoes

LEMMA CreateCanCleanUp ==
    ASSUME StepInv, ImagesInv, CleanUpInv, Create, Blameless, Blameless'
    PROVE  CleanUpInv'
<1>0. cmd.id \in ImageIDs
  BY SessionAssumption DEF StepInv, IsCommandLine
<1> USE DEF localVars, diskVars, Goto, Return, Fail, Succeed
<1>1. UNCHANGED <<cmd, begun>>
  BY DEF Create, CreateBegins, Quota, Stream, Unpack, WriteMeta, MoveVolume, MakeImageDir,
      CreateImage, ApplyDiskLimit, SetOwnership, Register, Usage
<1>2. \A i : SetImage(i) => image' = i
  BY <1>0, <1>1 DEF SetImage, ImagesInv, image
<1>3. UNCHANGED images => image' = image
  BY <1>1 DEF image
<1>4. image \in ImageRecord /\ (~image.dir => image = NoImage)
  BY <1>0 DEF ImagesInv, ImageOK, image
<1>5. CASE CreateBegins
  <2>1. pc = "create" /\ image = begun.image /\ image' = image
    BY <1>3, <1>5 DEF CreateBegins, CleanUpInv
  <2>2. \/ pc' = "exited"
        \/ pc' \in {"threshold", "quota"} /\ image = NoImage
    BY <1>4, <1>5 DEF CreateBegins
  <2> QED
    BY <1>1, <2>1, <2>2
    DEF CleanUpInv, PullSteps, PulledSteps, CleanUpSteps, SameButNested
<1>6. CASE Quota \/ Stream \/ Unpack \/ WriteMeta \/ MoveVolume
  <2>1. /\ pc \in PullSteps /\ image' = image
        /\ pc' \in {"exited", "stream", "unpack", "meta", "move", "mkdir"}
    BY <1>3, <1>6 DEF Quota, Stream, Unpack, WriteMeta, MoveVolume, PullSteps
  <2>2. image = NoImage /\ begun.image = NoImage
    BY <2>1 DEF CleanUpInv
  <2> QED
    BY <1>1, <2>1, <2>2, FreshImages
    DEF CleanUpInv, PullSteps, PulledSteps, CleanUpSteps, SameButNested
<1>7. CASE MakeImageDir \/ CreateImage
  <2>1. /\ pc \in PulledSteps /\ pc' \in {"snapshot", "limit"}
        /\ ~image'.nested /\ RootfsDirGoes(image')
    BY <1>2, <1>7, FreshImages DEF MakeImageDir, CreateImage, PulledSteps
  <2> QED
    BY <1>1, <2>1 DEF CleanUpInv, PullSteps, PulledSteps, CleanUpSteps
<1>8. CASE ApplyDiskLimit
  <2>1. /\ pc = "limit" /\ pc' \in {"ownership", "rootfsDir"}
        /\ image' = image \/ image' = Limited(image, cfg.limit, cfg.exclude)
    BY <1>2, <1>3, <1>8 DEF ApplyDiskLimit, CleanUp
  <2>2. ~image.nested /\ RootfsDirGoes(image) /\ begun.image = NoImage
    BY <2>1 DEF CleanUpInv, PulledSteps
  <2>3. ~image'.nested /\ RootfsDirGoes(image')
    BY <1>4, <2>1, <2>2 DEF Limited, RootfsDirGoes, ImageRecord
  <2> QED
    BY <1>1, <2>1, <2>2, <2>3 DEF CleanUpInv, PullSteps, PulledSteps, CleanUpSteps
<1>9. CASE SetOwnership \/ Register
  <2>1. pc \in PulledSteps /\ pc' \in {"register", "usage"} /\ image' = image
    BY <1>3, <1>9 DEF SetOwnership, Register, PulledSteps
  <2> QED
    BY <1>1, <2>1 DEF CleanUpInv, PullSteps, PulledSteps, CleanUpSteps
<1>10. CASE Usage
  BY <1>10 DEF Usage, CleanUpInv, PullSteps, PulledSteps, CleanUpSteps
<1> QED
  BY <1>5, <1>6, <1>7, <1>8, <1>9, <1>10 DEF Create

LEMMA CleanUpWorks ==
    ASSUME StepInv, ImagesInv, CleanUpInv, Delete, Blameless, Blameless'
    PROVE  CleanUpInv'
<1>0. cmd.id \in ImageIDs
  BY SessionAssumption DEF StepInv, IsCommandLine
<1> USE DEF localVars, diskVars, Goto, Return, Fail, Succeed
<1>1. UNCHANGED <<cmd, begun>>
  BY DEF Delete, DeleteBegins, RemoveInside, RemoveRootfsDir, DestroySubvolume, RemoveDir,
      Deregister
<1>2. \A i : SetImage(i) => image' = i
  BY <1>0, <1>1 DEF SetImage, ImagesInv, image
<1>3. image \in ImageRecord
  BY <1>0 DEF ImagesInv, image
<1>4. pc \in CleanUpSteps
  BY DEF Delete, DeleteBegins, RemoveInside, RemoveRootfsDir, DestroySubvolume, RemoveDir,
      Deregister, CleanUpSteps, StepInv, StepsOf, Blameless
<1>5. begun.image = NoImage /\ ~image.nested
  BY <1>4 DEF CleanUpInv
<1>6. CASE RemoveRootfsDir
  <2>1. pc = "rootfsDir" /\ RootfsDirGoes(image)
    BY <1>6 DEF RemoveRootfsDir, CleanUpInv
  <2>2. pc' = "subvolume" /\ image' = WithoutRootfsDir(image)
    BY <1>2, <1>6, <2>1 DEF RemoveRootfsDir
  <2>3. ~image'.nested
    BY <1>3, <1>5, <2>2 DEF WithoutRootfsDir, ImageRecord
  <2> QED
    BY <1>1, <1>5, <2>2, <2>3 DEF CleanUpInv, PullSteps, PulledSteps, CleanUpSteps
<1>7. CASE DestroySubvolume
  <2>1. pc' = "removeDir" /\ image' = WithoutSubvolumes(image)
    BY <1>2, <1>5, <1>7 DEF DestroySubvolume
  <2>2. WithoutLimit(image) \in ImageRecord
    BY <1>3, ImageWithoutLimit
  <2>3. ~image'.nested
    BY <2>1, <2>2 DEF WithoutSubvolumes, ImageRecord
  <2> QED
    BY <1>1, <1>5, <2>1, <2>3 DEF CleanUpInv, PullSteps, PulledSteps, CleanUpSteps
<1>8. CASE RemoveDir
  <2>1. image' = NoImage
    BY <1>2, <1>8 DEF RemoveDir
  <2>2. caller # "delete"
    BY <1>4 DEF StepInv, Blameless
  <2>3. pc' = "exited"
    BY <1>8, <2>2 DEF RemoveDir, AfterRemoval
  <2> QED
    BY <1>1, <1>5, <2>1, <2>3
    DEF CleanUpInv, PullSteps, PulledSteps, CleanUpSteps, SameButNested
<1> QED
  BY <1>4, <1>6, <1>7, <1>8 DEF Delete, DeleteBegins, RemoveInside, Deregister, CleanUpSteps

LEMMA FailureCanCleanUp ==
    ASSUME StepInv, ImagesInv, CleanUpInv, Failure, Blameless, Blameless'
    PROVE  CleanUpInv'
<1>0. cmd.id \in ImageIDs
  BY SessionAssumption DEF StepInv, IsCommandLine
<1> USE DEF localVars, diskVars, Goto, Return, Fail, Strike
<1>1. UNCHANGED <<cmd, begun>> /\ blamed' = blamed \cup {pc}
  BY DEF Failure, CreateFails, CloneFails, CleanFails, DestroyFails, QueryFails, Kill
<1>2. pc \notin {"ownership", "usage", "rootfsDir", "subvolume", "removeDir"}
  BY <1>1 DEF Blameless
<1>3. UNCHANGED images => image' = image
  BY <1>1 DEF image
<1>4. pc \notin {"deregister", "removeInside", "stats", "list", "generate"}
  BY DEF StepInv, StepsOf, CleanUpSteps, Blameless
<1>5. CASE CreateFails \/ CleanFails
  <2>1. /\ pc \in {"create"} \cup PullSteps /\ image' = image
        /\ pc' = "exited" \/ (pc' = "collect" /\ pc = "mark")
    BY <1>2, <1>3, <1>5 DEF CreateFails, CleanFails, PullSteps
  <2> QED
    BY <1>1, <2>1 DEF CleanUpInv, PullSteps, PulledSteps, CleanUpSteps, SameButNested
<1>6. CASE CloneFails
  <2>1. pc \in {"mkdir", "snapshot", "limit", "register"} /\ pc' = "rootfsDir"
    BY <1>6 DEF CloneFails, CleanUp
  <2>2. image' = image \/ image' = MadeRootfs
    <3>1. PICK i \in HalfDone : SetImage(i)
      BY <1>6 DEF CloneFails
    <3>2. i \in {image, MadeRootfs}
      BY <2>1 DEF HalfDone
    <3> QED
      BY <1>0, <1>1, <3>1, <3>2 DEF SetImage, ImagesInv, image
  <2>3. ~image.nested /\ RootfsDirGoes(image) /\ begun.image = NoImage
    BY <2>1 DEF CleanUpInv, PulledSteps
  <2>4. ~image'.nested /\ RootfsDirGoes(image')
    BY <2>2, <2>3, FreshImages
  <2> QED
    BY <1>1, <2>1, <2>3, <2>4 DEF CleanUpInv, PullSteps, PulledSteps, CleanUpSteps
<1>7. CASE DestroyFails \/ QueryFails
  BY <1>2, <1>4, <1>7 DEF DestroyFails, QueryFails
<1>8. CASE Kill
  BY <1>8 DEF Kill, CleanUpInv, PullSteps, PulledSteps, CleanUpSteps
<1> QED
  BY <1>5, <1>6, <1>7, <1>8 DEF Failure

(***************************************************************************)
(* A create that fails leaves images as they were, unless it fails at its  *)
(* chown or its measurement, or its clean-up meets a failure of its own.   *)
(***************************************************************************)
THEOREM FailedCreatesCleanUp == SessionSpec => []FailedCreateCleansUp
<1>1. Init => CleanUpInv
  BY DEF Init, CleanUpInv, Blameless
<1>2. StepInv /\ ImagesInv /\ BegunInv /\ CleanUpInv /\ [Next]_vars => CleanUpInv'
  <2> SUFFICES ASSUME StepInv, ImagesInv, BegunInv, CleanUpInv, [Next]_vars, Blameless'
               PROVE  CleanUpInv'
    BY DEF CleanUpInv
  <2>0. cmd.id \in ImageIDs
    BY SessionAssumption DEF StepInv, IsCommandLine
  <2>1. CASE Start
    <3>1. cmd'.op = "create" /\ image' = begun'.image
      BY <2>1 DEF Start, Blameless, image, diskVars
    <3>2. pc' = "create" \/ pc' = "exited"
      BY <2>1, <3>1 DEF Start, Goto, Return
    <3> QED
      BY <3>1, <3>2 DEF CleanUpInv, PullSteps, PulledSteps, CleanUpSteps, SameButNested
  <2>2. CASE ~Start
    <3>1. UNCHANGED <<cmd, begun, commands>> /\ Blameless
      BY <2>2, OnlyStartBegins DEF Blameless
    <3>2. CASE Clean
      <4>1. /\ pc \in {"threshold", "mark", "collect"} /\ pc' \in {"mark", "collect", "quota"}
            /\ image' = image
        BY <3>1, <3>2 DEF Clean, CleanBegins, Threshold, MarkUnused, Collect, AfterClean, Goto,
            StepInv, StepsOf, CleanUpSteps, Blameless, diskVars, localVars, image
      <4> QED
        BY <3>1, <4>1 DEF CleanUpInv, PullSteps, PulledSteps, CleanUpSteps
    <3>3. CASE Query
      BY <3>1, <3>3 DEF Query, Stats, List, Generate, StepInv, StepsOf, CleanUpSteps, Blameless
    <3>4. CASE Rests /\ ~Running
      <4>1. UNCHANGED <<pc, exit>> /\ pc \in {"exited", "killed"}
        BY <3>4 DEF Rests, Running
      <4>2. pc = "exited" /\ exit = 1 => SameButNested(image', begun'.image)
        BY <2>0, <3>1, <3>4, RestKeepsImages DEF CleanUpInv, SameButNested, image
      <4> QED
        BY <4>1, <4>2 DEF CleanUpInv, PullSteps, PulledSteps, CleanUpSteps
    <3>5. CASE ReplaceTar \/ UNCHANGED vars
      BY <3>1, <3>5 DEF CleanUpInv, ReplaceTar, vars, diskVars, image
    <3>6. CASE Nest
      BY <3>4, <3>6 DEF Nest, Rests
    <3> QED
      BY <2>2, <3>1, <3>2, <3>3, <3>5, <3>6, CreateCanCleanUp, CleanUpWorks,
         FailureCanCleanUp DEF Next, Finished
  <2> QED
    BY <2>1, <2>2
<1>3. StepInv /\ ImagesInv /\ BegunInv /\ CleanUpInv => FailedCreateCleansUp
  <2> SUFFICES ASSUME StepInv, ImagesInv, BegunInv, CleanUpInv, Done("create", 1),
                      blamed \cap {"ownership", "usage", "rootfsDir", "subvolume",
                                   "removeDir"} = {}
               PROVE  [image EXCEPT !.nested = FALSE] = [begun.image EXCEPT !.nested = FALSE]
    BY DEF FailedCreateCleansUp
  <2>1. SameButNested(image, begun.image)
    BY DEF CleanUpInv, Blameless, Done
  <2>2. image \in ImageRecord /\ begun.image \in ImageRecord
    BY SessionAssumption DEF StepInv, IsCommandLine, ImagesInv, BegunInv, image
  <2> QED
    BY <2>1, <2>2, SameImage DEF SameButNested, ImageRecord
<1> QED
  BY <1>1, <1>2, <1>3, StepsHold, ImagesHold, BegunHolds, PTL DEF SessionSpec
=============================================================================
