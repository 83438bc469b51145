--------------------------- MODULE Session_proofs ---------------------------
(***************************************************************************)
(* Proofs about sessions, for any artifacts, hosts, containers and bounds. *)
(*                                                                         *)
(* The steps of prepare() go through the artifacts one after the other, so *)
(* the invariants say what holds of those that a step is done with: a file *)
(* that is not written again has the content that prepare() gave it, and   *)
(* what the rules of an artifact took from another one was there when they *)
(* took it (CopiesOK, RepacksOK).  With --clean=all no file is older than  *)
(* the session (CleanOK).                                                  *)
(*                                                                         *)
(* Of the containers, those of this session that run are always known to   *)
(* the table or counted out (KeptOK), and after DockerCleaner nobody       *)
(* starts one that is not of this session.                                 *)
(***************************************************************************)
EXTENDS Session, TLAPS, FiniteSetTheorems

-----------------------------------------------------------------------------
\* The artifacts that the steps `copy` and `repack` are done with.
Before == {Order[i] : i \in 1 .. at - 1}

CopiesDone  == IF doing = "copy" THEN Before
               ELSE IF doing \in {"off", "load"} THEN {} ELSE Names
RepacksDone == IF doing = "repack" THEN Before
               ELSE IF doing \in {"off", "load", "copy"} THEN {} ELSE Names

\* What is no repack has the content of a source file, or is torn.
PlainOK == \A f \in File : ~f.repack => files[f] = Plain(files[f].version)

\* An artifact that the step `copy` is done with is there as its source is: its copy, or the
\* repack that an earlier session has made of it.
CopiesOK ==
  /\ doing # "off" => copied \subseteq CopiesDone
  /\ \A a \in CopiesDone :
       /\ a \notin Repacked => files[Copy(a)] = Plain(source[a].version)
       /\ a \in Repacked \cap copied /\ doing \in {"copy", "repack"} =>
            files[Copy(a)] = Plain(source[a].version)
       /\ a \in Repacked \ copied => files[Repack(a)].version = source[a].version

\* The repack of a is of the source and the rules as they are.
MadeOK(a) ==
  LET made == files[Repack(a)] IN
  /\ made.version = source[a].version /\ made.rules = config[a].rules
  /\ \A b \in Uses[a] : source[b].version \in made.with[b]

RepacksOK ==
  \A a \in RepacksDone :
    /\ artPath[a] \in File
    /\ a \notin Repacked => artPath[a] = Copy(a)
    /\ a \in Repacked \cap copied => artPath[a] = Repack(a) /\ MadeOK(a)

\* In a session with --clean=all no file is older than it, every artifact is copied, and the
\* repacks are of the artifacts as they are.
CleanOK ==
  clean = "all" /\ doing # "off" =>
    /\ \A f \in File : Exists(f) => files[f].version = source[f.of].version
    /\ IF doing = "load" THEN hashes = NoHashes ELSE changed = Names
    /\ CopiesDone \subseteq copied
    /\ \A a \in RepacksDone \cap Repacked : files[Repack(a)] = Current(a)

\* After `upload` a host where nothing has failed has the files of the artifacts directory.
UploadOK ==
  doing = "unzip" => \A h \in HostSet \ missed, f \in File : Exists(f) => remote[h][f] = files[f]

\* A container of this session that runs is in the table or counted out, also while
\* remove_containers is at work.
KeptOK == UpNow \cap mine \subseteq tracked \cup loose

\* From before_hosts_setup on no other container runs.
OwnOK == doing \in {"hosts", "upload", "unzip", "tests"} => UpNow \subseteq mine

PrepareInv == PlainOK /\ CopiesOK /\ RepacksOK /\ CleanOK
DockerInv  == KeptOK /\ OneSwarm
HostsInv   == UploadOK /\ DeployedIsLocal

SInv == TypeOK /\ PrepareInv /\ DockerInv /\ HostsInv /\ OwnOK

-----------------------------------------------------------------------------
LEMMA OrderFacts ==
  /\ Len(Order) \in Nat \ {0}
  /\ \A i \in 1 .. Len(Order) : Order[i] \in Names
  /\ \A a \in Names : \E i \in 1 .. Len(Order) : Order[i] = a
  /\ \A i, j \in 1 .. Len(Order) : Order[i] = Order[j] => i = j
  <1>1. /\ Order \in Seq(Names) /\ Order # << >>
        /\ \A i, j \in DOMAIN Order : Order[i] = Order[j] => i = j
    BY ArtifactsAssumption DEF IsInjective
  <1>2. Len(Order) \in Nat \ {0} /\ DOMAIN Order = 1 .. Len(Order)
    BY <1>1
  <1> QED
    BY <1>1, <1>2 DEF Names, Range

LEMMA ContentFacts ==
  /\ \A v \in Torn .. MaxVersion : Plain(v) \in Content /\ Plain(v).version = v
  /\ Nothing \in Content /\ Nothing.version = 0 /\ Nothing = Plain(0)
  /\ Torn = -1 /\ MaxVersion \in Nat \ {0} /\ MaxFileName \in Nat \ {0}
  <1>1. MaxVersion \in Nat \ {0} /\ MaxFileName \in Nat \ {0} /\ Torn = -1
    BY ArtifactsAssumption DEF Torn
  <1>2. \A v \in Torn .. MaxVersion : Plain(v) \in Content /\ Plain(v).version = v
    BY <1>1 DEF Plain, Content
  <1> QED
    BY <1>1, <1>2 DEF Nothing

LEMMA FileFacts ==
  ASSUME ArtifactsTypeOK
  PROVE  /\ \A a \in Names : Copy(a) \in File /\ Repack(a) \in File
         /\ \A a \in Names, b \in Names : /\ Copy(a) # Repack(b)
                                          /\ a # b => Copy(a) # Copy(b) /\ Repack(a) # Repack(b)
         /\ \A a \in Names : /\ Copy(a).of = a /\ Repack(a).of = a
                             /\ ~Copy(a).repack /\ Repack(a).repack
         /\ NoFile \notin File
  <1>1. \A a \in Names : source[a].name \in 1 .. MaxFileName
    BY DEF ArtifactsTypeOK
  <1>2. \A a \in Names : Copy(a) \in File /\ Repack(a) \in File
    BY <1>1 DEF Copy, Repack, File
  <1>3. \A a \in Names : /\ Copy(a).of = a /\ Repack(a).of = a
                         /\ Copy(a).repack = FALSE /\ Repack(a).repack = TRUE
    BY DEF Copy, Repack
  <1>4. \A f \in File : f.name \in 1 .. MaxFileName
    BY DEF File
  <1>5. NoFile \notin File
    <2>1. NoFile.name = 0
      BY DEF NoFile
    <2> QED
      BY <2>1, <1>4, ContentFacts
  <1> QED
    BY <1>2, <1>3, <1>5

\* The versions of the sources and of the files.
LEMMA VersionFacts ==
  ASSUME ArtifactsTypeOK
  PROVE  /\ \A a \in Names : source[a].version \in 1 .. MaxVersion
         /\ \A a \in Names : /\ Plain(source[a].version) \in Content
                             /\ Plain(source[a].version).version = source[a].version
         /\ \A a \in Names : config[a].rules \in 1 .. 2 /\ config[a].glob \in 1 .. 2
         /\ \A f \in File : files[f] \in Content /\ files[f].version \in Torn .. MaxVersion
  <1>1. \A a \in Names : source[a].version \in 1 .. MaxVersion
    BY DEF ArtifactsTypeOK
  <1>2. \A f \in File : files[f] \in Content
    BY DEF ArtifactsTypeOK
  <1>3. \A c \in Content : c.version \in Torn .. MaxVersion
    BY DEF Content
  <1>4. \A a \in Names : config[a].rules \in 1 .. 2 /\ config[a].glob \in 1 .. 2
    BY DEF ArtifactsTypeOK
  <1> QED
    BY <1>1, <1>2, <1>3, <1>4, ContentFacts

\* The step is at the artifact Order[at], which it is not done with, and goes on to the next.
LEMMA AtFacts ==
  ASSUME ArtifactsTypeOK
  PROVE  /\ Order[at] \in Names /\ Order[at] \notin Before /\ Before \subseteq Names
         /\ at = Len(Order) => Names = Before \cup {Order[at]}
         /\ \A d, after : NextArtifact(d, after) =>
              \/ doing' = d /\ Before' = Before \cup {Order[at]}
              \/ doing' = after /\ Before' = {} /\ Names = Before \cup {Order[at]}
         /\ at = 1 => Before = {}
  <1>1. at \in 1 .. Len(Order) /\ Len(Order) \in Nat \ {0}
    BY OrderFacts DEF ArtifactsTypeOK
  <1>2. Order[at] \in Names /\ Order[at] \notin Before /\ Before \subseteq Names
    BY <1>1, OrderFacts DEF Before
  <1>3. ASSUME at = Len(Order) PROVE Names = Before \cup {Order[at]}
    <2>1. ASSUME NEW a \in Names PROVE a \in Before \cup {Order[at]}
      <3>1. PICK i \in 1 .. Len(Order) : Order[i] = a
        BY OrderFacts
      <3>2. i = at \/ i \in 1 .. at - 1
        BY <1>1, <1>3
      <3> QED
        BY <3>1, <3>2 DEF Before
    <2> QED
      BY <2>1, <1>2
  <1>4. ASSUME NEW d, NEW after, NextArtifact(d, after)
        PROVE  \/ doing' = d /\ Before' = Before \cup {Order[at]}
               \/ doing' = after /\ Before' = {} /\ Names = Before \cup {Order[at]}
    <2>1. CASE at < Len(Order)
      <3>1. doing' = d /\ at' = at + 1
        BY <2>1, <1>4 DEF NextArtifact
      <3>2. 1 .. at' - 1 = (1 .. at - 1) \cup {at}
        BY <3>1, <1>1
      <3> QED
        BY <3>1, <3>2 DEF Before
    <2>2. CASE ~(at < Len(Order))
      <3>1. doing' = after /\ at' = 1
        BY <2>2, <1>4 DEF NextArtifact, Goto
      <3>2. at = Len(Order)
        BY <2>2, <1>1
      <3> QED
        BY <3>1, <3>2, <1>3 DEF Before
    <2> QED
      BY <2>1, <2>2
  <1>5. at = 1 => Before = {}
    BY DEF Before
  <1> QED
    BY <1>2, <1>3, <1>4, <1>5

-----------------------------------------------------------------------------
\* The steps of prepare().
LEMMA Steady ==
  ASSUME UNCHANGED sourceVars
  PROVE  \A a \in Names : Copy(a)' = Copy(a) /\ Repack(a)' = Repack(a)
  BY DEF sourceVars, Copy, Repack

\* After the end of a session nothing is claimed of what it has prepared.
LEMMA OffSteps ==
  ASSUME doing' = "off", PlainOK'
  PROVE  PrepareInv'
  BY DEF PrepareInv, CopiesOK, RepacksOK, CleanOK, CopiesDone, RepacksDone

LEMMA PlainStays ==
  ASSUME PlainOK, UNCHANGED files
  PROVE  PlainOK'
  BY DEF PlainOK

LEMMA BetweenSessions ==
  ASSUME ArtifactsTypeOK, PrepareInv, NEW a \in Names,
         \/ \E n \in 1 .. MaxFileName, v \in 1 .. MaxVersion : Rebuild(a, n, v)
         \/ EditGlob(a) \/ EditRules(a)
  PROVE  ArtifactsTypeOK' /\ PrepareInv' /\ doing' = "off"
  <1>1. doing' = "off" /\ UNCHANGED <<diskVars, prepareVars>>
    BY DEF Rebuild, EditGlob, EditRules, prepareVars
  <1>2. PlainOK'
    BY <1>1, PlainStays DEF PrepareInv, diskVars
  <1>3. source' \in [Names -> [name : 1 .. MaxFileName, version : 1 .. MaxVersion]]
    <2>1. CASE UNCHANGED source
      BY <2>1 DEF ArtifactsTypeOK
    <2>2. CASE \E n \in 1 .. MaxFileName, v \in 1 .. MaxVersion : Rebuild(a, n, v)
      <3>1. PICK n \in 1 .. MaxFileName, v \in 1 .. MaxVersion :
              source' = [source EXCEPT ![a] = [name |-> n, version |-> v]]
        BY <2>2 DEF Rebuild
      <3>2. [name |-> n, version |-> v] \in [name : 1 .. MaxFileName, version : 1 .. MaxVersion]
        OBVIOUS
      <3> QED
        BY <3>1, <3>2 DEF ArtifactsTypeOK
    <2> QED
      BY <2>1, <2>2 DEF EditGlob, EditRules
  <1>4. config' \in [Names -> [glob : 1 .. 2, rules : 1 .. 2]]
    <2>1. CASE UNCHANGED config
      BY <2>1 DEF ArtifactsTypeOK
    <2>2. config[a].glob \in 1 .. 2 /\ config[a].rules \in 1 .. 2
      BY VersionFacts
    <2>3. CASE EditGlob(a)
      <3>1. config' = [config EXCEPT ![a] = [@ EXCEPT !.glob = 3 - config[a].glob]]
        BY <2>3 DEF EditGlob, ArtifactsTypeOK
      <3>2. 3 - config[a].glob \in 1 .. 2
        BY <2>2
      <3> QED
        BY <3>1, <3>2 DEF ArtifactsTypeOK
    <2>4. CASE EditRules(a)
      <3>1. config' = [config EXCEPT ![a] = [@ EXCEPT !.rules = 3 - config[a].rules]]
        BY <2>4 DEF EditRules, ArtifactsTypeOK
      <3>2. 3 - config[a].rules \in 1 .. 2
        BY <2>2
      <3> QED
        BY <3>1, <3>2 DEF ArtifactsTypeOK
    <2> QED
      BY <2>1, <2>3, <2>4 DEF Rebuild
  <1>5. ArtifactsTypeOK'
    BY <1>1, <1>3, <1>4 DEF ArtifactsTypeOK, diskVars, prepareVars
  <1> QED
    BY <1>1, <1>2, <1>5, OffSteps

LEMMA NothingTyped ==
  /\ NoHashes \in [torn : BOOLEAN, of : [Names -> 0 .. 2]]
  /\ NoSaved \in [torn : BOOLEAN, of : [Names -> File \cup {NoFile}]]
  /\ [f \in File |-> Nothing] \in [File -> Content]
  BY ContentFacts DEF NoHashes, NoSaved

LEMMA SetUpSteps ==
  ASSUME ArtifactsTypeOK, PrepareInv, SetUpEnvironment
  PROVE  ArtifactsTypeOK' /\ PrepareInv' /\ doing' = "load"
  <1>0. 1 \in 1 .. Len(Order)
    BY OrderFacts
  <1>1. /\ doing' = "load" /\ at' = 1 /\ changed' = {} /\ copied' = {}
        /\ artPath' = [a \in Names |-> NoFile] /\ UNCHANGED sourceVars
    BY DEF SetUpEnvironment, Goto
  <1>2. PICK opt \in {"", "all"} : clean' = opt /\ CleanUp(opt)
    BY DEF SetUpEnvironment
  <1>3. ArtifactsTypeOK'
    <2>1. /\ hashes' \in [torn : BOOLEAN, of : [Names -> 0 .. 2]]
          /\ saved' \in [torn : BOOLEAN, of : [Names -> File \cup {NoFile}]]
          /\ files' \in [File -> Content]
      <3>1. CASE opt = "all"
        BY <3>1, <1>2, NothingTyped DEF CleanUp
      <3>2. CASE opt = ""
        <4>1. UNCHANGED diskVars
          BY <3>2, <1>2 DEF CleanUp
        <4> QED
          BY <4>1 DEF diskVars, ArtifactsTypeOK
      <3> QED
        BY <3>1, <3>2
    <2> QED
      BY <2>1, <1>0, <1>1, <1>2 DEF ArtifactsTypeOK, sourceVars
  <1>4. PlainOK'
    <2>1. CASE UNCHANGED files
      BY <2>1, PlainStays DEF PrepareInv
    <2>2. CASE files' = [f \in File |-> Nothing]
      BY <2>2, ContentFacts DEF PlainOK
    <2> QED
      BY <2>1, <2>2, <1>2 DEF CleanUp, diskVars
  <1>5. CopiesDone' = {} /\ RepacksDone' = {}
    BY <1>1 DEF CopiesDone, RepacksDone
  <1>6. CleanOK'
    <2>1. CASE opt = ""
      BY <2>1, <1>2 DEF CleanOK
    <2>2. CASE opt = "all"
      <3>1. hashes' = NoHashes /\ files' = [f \in File |-> Nothing]
        BY <2>2, <1>2 DEF CleanUp
      <3>2. \A f \in File : ~Exists(f)'
        BY <3>1 DEF Exists
      <3> QED
        BY <3>1, <3>2, <1>1, <1>5 DEF CleanOK
    <2> QED
      BY <2>1, <2>2
  <1>7. CopiesOK' /\ RepacksOK'
    BY <1>1, <1>5 DEF CopiesOK, RepacksOK
  <1> QED
    BY <1>1, <1>3, <1>4, <1>6, <1>7 DEF PrepareInv

LEMMA LoadSteps ==
  ASSUME ArtifactsTypeOK, PrepareInv, Load
  PROVE  ArtifactsTypeOK' /\ PrepareInv' /\ doing' \in {"off", "copy"}
  <1>1. UNCHANGED <<sourceVars, saved, files, clean, copied, artPath>> /\ doing = "load"
    BY DEF Load
  <1>2. PlainOK'
    BY <1>1, PlainStays DEF PrepareInv
  <1>3. 1 \in 1 .. Len(Order)
    BY OrderFacts
  <1>4. CASE LoadRaises
    <2>1. doing' = "off" /\ at' = 1 /\ UNCHANGED <<hashes, changed>>
      BY <1>4 DEF Load, Goto
    <2>2. ArtifactsTypeOK'
      BY <2>1, <1>1, <1>3 DEF ArtifactsTypeOK, sourceVars
    <2> QED
      BY <2>1, <2>2, <1>2, OffSteps
  <1>5. CASE ~LoadRaises
    <2>1. /\ doing' = "copy" /\ at' = 1 /\ changed' = Changed
          /\ hashes' = IF Dumps THEN HashesNow ELSE hashes
      BY <1>5 DEF Load, Goto
    <2>2. HashesNow \in [torn : BOOLEAN, of : [Names -> 0 .. 2]]
      <3>1. \A a \in Names : config[a].glob \in 0 .. 2
        BY VersionFacts
      <3> QED
        BY <3>1 DEF HashesNow
    <2>3. ArtifactsTypeOK'
      BY <2>1, <2>2, <1>1, <1>3 DEF ArtifactsTypeOK, sourceVars, Changed
    <2>4. Before' = {} /\ CopiesDone' = {} /\ RepacksDone' = {}
      BY <2>1 DEF Before, CopiesDone, RepacksDone
    <2>5. copied = {}
      BY <1>1 DEF PrepareInv, CopiesOK, CopiesDone
    <2>6. CopiesOK' /\ RepacksOK'
      BY <2>4, <2>5, <1>1 DEF CopiesOK, RepacksOK
    <2>7. CleanOK'
      <3> SUFFICES ASSUME clean = "all"
                   PROVE  /\ \A f \in File : Exists(f)' => files'[f].version = source'[f.of].version
                          /\ changed' = Names
        BY <2>1, <2>4, <1>1 DEF CleanOK
      <3>1. /\ \A f \in File : Exists(f) => files[f].version = source[f.of].version
            /\ hashes = NoHashes
        BY <1>1 DEF PrepareInv, CleanOK
      <3>2. \A a \in Names : hashes.of[a] = 0 /\ config[a].glob # 0
        BY <3>1, VersionFacts DEF NoHashes
      <3>3. changed' = Names
        BY <3>2, <2>1 DEF Changed
      <3> QED
        BY <3>1, <3>3, <1>1 DEF Exists, sourceVars
    <2> QED
      BY <2>1, <2>3, <2>6, <2>7, <1>2 DEF PrepareInv
  <1> QED
    BY <1>4, <1>5

\* A file that is written is a plain one or a repack.
LEMMA PlainWritten ==
  ASSUME ArtifactsTypeOK, PlainOK, NEW g \in File, NEW c \in Content,
         files' = [files EXCEPT ![g] = c], g.repack \/ c = Plain(c.version)
  PROVE  /\ PlainOK'
         /\ files' \in [File -> Content]
         /\ files'[g] = c /\ \A f \in File : f # g => files'[f] = files[f]
  BY DEF ArtifactsTypeOK, PlainOK

LEMMA CopySteps ==
  ASSUME ArtifactsTypeOK, PrepareInv, CopyArtifact
  PROVE  ArtifactsTypeOK' /\ PrepareInv' /\ doing' \in {"copy", "repack"}
  <1> DEFINE a == Order[at]
             copies == a \in changed \/ ~Equals(a)
             c == Plain(source[a].version)
  <1>1. /\ doing = "copy" /\ NextArtifact("copy", "repack")
        /\ UNCHANGED <<sourceVars, hashes, saved, clean, changed, artPath>>
        /\ copies => files' = [files EXCEPT ![Copy(a)] = c] /\ copied' = copied \cup {a}
        /\ ~copies => UNCHANGED <<files, copied>>
    BY DEF CopyArtifact
  <1>2. /\ a \in Names /\ a \notin Before /\ Before \subseteq Names /\ CopiesDone = Before
        /\ c \in Content /\ c.version = source[a].version /\ Copy(a) \in File /\ ~Copy(a).repack
    BY <1>1, AtFacts, FileFacts, VersionFacts DEF CopiesDone
  <1>3. CopiesDone' = Before \cup {a} /\ RepacksDone' = {} /\ doing' \in {"copy", "repack"}
    BY <1>1, AtFacts DEF CopiesDone, RepacksDone
  <1>4. PlainOK' /\ files' \in [File -> Content]
    <2>1. CASE copies
      BY <2>1, <1>1, <1>2, PlainWritten DEF PrepareInv
    <2>2. CASE ~copies
      BY <2>2, <1>1, PlainStays DEF PrepareInv, ArtifactsTypeOK
    <2> QED
      BY <2>1, <2>2
  <1>5. \A f \in File : f # Copy(a) \/ ~copies => files'[f] = files[f]
    <2>1. CASE copies
      BY <2>1, <1>1 DEF ArtifactsTypeOK
    <2> QED
      BY <2>1, <1>1
  <1>6. copies => files'[Copy(a)] = c
    BY <1>1, <1>2 DEF ArtifactsTypeOK
  <1>7. copied \subseteq Before /\ a \notin copied
    BY <1>1, <1>2 DEF PrepareInv, CopiesOK
  <1>8. ArtifactsTypeOK'
    <2>1. at' \in 1 .. Len(Order)
      <3>1. at \in 1 .. Len(Order) /\ Len(Order) \in Nat \ {0}
        BY OrderFacts DEF ArtifactsTypeOK
      <3> QED
        BY <3>1, <1>1 DEF NextArtifact, Goto
    <2>2. copied' \subseteq Names
      BY <1>1, <1>2 DEF ArtifactsTypeOK
    <2> HIDE DEF a, c, copies
    <2> QED
      BY <2>1, <2>2, <1>1, <1>3, <1>4 DEF ArtifactsTypeOK, sourceVars
  <1>9. CopiesOK'
    <2>1. copied' \subseteq CopiesDone'
      BY <1>1, <1>3, <1>7
    <2>2. ASSUME NEW b \in Before
          PROVE  /\ b \notin Repacked => files'[Copy(b)] = Plain(source[b].version)
                 /\ b \in Repacked \cap copied' => files'[Copy(b)] = Plain(source[b].version)
                 /\ b \in Repacked \ copied' => files'[Repack(b)].version = source[b].version
      <3>1. /\ b \in Names /\ b # a /\ Copy(b) # Copy(a) /\ Repack(b) # Copy(a)
            /\ Copy(b) \in File /\ Repack(b) \in File
        BY <1>2, FileFacts
      <3>2. files'[Copy(b)] = files[Copy(b)] /\ files'[Repack(b)] = files[Repack(b)]
        BY <3>1, <1>5
      <3>3. b \in copied' <=> b \in copied
        BY <3>1, <1>1
      <3>4. /\ b \notin Repacked => files[Copy(b)] = Plain(source[b].version)
            /\ b \in Repacked \cap copied => files[Copy(b)] = Plain(source[b].version)
            /\ b \in Repacked \ copied => files[Repack(b)].version = source[b].version
        BY <1>1, <1>2 DEF PrepareInv, CopiesOK
      <3> HIDE DEF a
      <3> QED
        BY <3>2, <3>3, <3>4
    <2>3. /\ a \notin Repacked => files'[Copy(a)] = c
          /\ a \in Repacked \cap copied' => files'[Copy(a)] = c
          /\ a \in Repacked \ copied' => files'[Repack(a)].version = source[a].version
      <3>1. CASE copies
        BY <3>1, <1>1, <1>6
      <3>2. CASE ~copies
        <4>1. copied' = copied /\ files' = files /\ Equals(a)
          BY <3>2, <1>1
        <4>2. a \notin Repacked => files[Copy(a)] = Plain(files[Copy(a)].version)
          BY <1>2 DEF PrepareInv, PlainOK
        <4> HIDE DEF a
        <4> QED
          BY <4>1, <4>2, <1>7 DEF Equals
      <3> QED
        BY <3>1, <3>2
    <2>4. \A b \in Names : /\ Copy(b)' = Copy(b) /\ Repack(b)' = Repack(b)
                           /\ Plain(source[b].version)' = Plain(source[b].version)
                           /\ source'[b] = source[b]
      BY <1>1, Steady DEF sourceVars
    <2> HIDE DEF a, c
    <2> QED
      BY <2>1, <2>2, <2>3, <2>4, <1>2, <1>3 DEF CopiesOK, c
  <1>10. CleanOK'
    <2> SUFFICES ASSUME clean = "all"
                 PROVE  /\ \A f \in File : Exists(f)' => files'[f].version = source'[f.of].version
                        /\ changed' = Names /\ CopiesDone' \subseteq copied'
      BY <1>1, <1>3 DEF CleanOK
    <2>1. /\ \A f \in File : Exists(f) => files[f].version = source[f.of].version
          /\ changed = Names /\ CopiesDone \subseteq copied
      BY <1>1 DEF PrepareInv, CleanOK
    <2>2. copies /\ CopiesDone' \subseteq copied'
      BY <2>1, <1>1, <1>2, <1>3
    <2>3. ASSUME NEW f \in File, Exists(f)' PROVE files'[f].version = source[f.of].version
      <3>1. CASE f = Copy(a)
        BY <3>1, <2>2, <1>2, <1>6, FileFacts
      <3>2. CASE f # Copy(a)
        BY <3>2, <2>1, <2>3, <1>5 DEF Exists
      <3> QED
        BY <3>1, <3>2
    <2> QED
      BY <2>1, <2>2, <2>3, <1>1 DEF sourceVars
  <1>11. RepacksOK'
    BY <1>3 DEF RepacksOK
  <1> QED
    BY <1>3, <1>4, <1>8, <1>9, <1>10, <1>11 DEF PrepareInv

\* What the rules take from another artifact has it as it is.
LEMMA MadeIsRight ==
  ASSUME ArtifactsTypeOK, PrepareInv, doing = "repack", NEW a \in Names, a \in Repacked \cap copied
  PROVE  /\ Made(a) \in Content
         /\ Made(a).version = source[a].version /\ Made(a).rules = config[a].rules
         /\ \A b \in Uses[a] : source[b].version \in Made(a).with[b]
         /\ clean = "all" => Made(a) = Current(a)
  <1>1. Uses[a] \subseteq Names
    BY ArtifactsAssumption
  <1> DEFINE taken(b) == {files[f].version : f \in Matches(b)}
  <1>2. ASSUME NEW b \in Names PROVE taken(b) \subseteq Torn .. MaxVersion
    BY VersionFacts DEF Matches
  <1>3. ASSUME NEW b \in Names PROVE source[b].version \in taken(b)
    <2>1. CopiesDone = Names /\ source[b].version # 0
      BY VersionFacts DEF CopiesDone
    <2>2. PICK f \in {Copy(b), Repack(b)} : files[f].version = source[b].version
      BY <2>1, VersionFacts DEF PrepareInv, CopiesOK
    <2>3. f \in File /\ f.of = b
      BY FileFacts
    <2>4. Exists(f)
      BY <2>1, <2>2, ContentFacts DEF Exists
    <2> QED
      BY <2>2, <2>3, <2>4 DEF Matches
  <1> HIDE DEF taken
  <1>4. Made(a) = [version |-> source[a].version, rules |-> config[a].rules,
                   with |-> [b \in Names |-> IF b \in Uses[a] THEN taken(b) ELSE {}]]
    BY DEF Made, taken
  <1>5. Made(a) \in Content
    <2>1. [b \in Names |-> IF b \in Uses[a] THEN taken(b) ELSE {}] \in [Names -> SUBSET (Torn .. MaxVersion)]
      BY <1>2
    <2>2. source[a].version \in Torn .. MaxVersion /\ config[a].rules \in 0 .. 2
      BY VersionFacts, ContentFacts
    <2> HIDE DEF Made
    <2> QED
      BY <1>4, <2>1, <2>2 DEF Content
  <1>6. \A b \in Uses[a] : source[b].version \in Made(a).with[b]
    BY <1>1, <1>3, <1>4
  <1>7. ASSUME clean = "all" PROVE Made(a) = Current(a)
    <2>1. ASSUME NEW b \in Names PROVE taken(b) = {source[b].version}
      <3>1. \A f \in File : Exists(f) => files[f].version = source[f.of].version
        BY <1>7 DEF PrepareInv, CleanOK
      <3>2. taken(b) \subseteq {source[b].version}
        BY <3>1 DEF taken, Matches
      <3> QED
        BY <3>2, <2>1, <1>3
    <2>2. [b \in Names |-> IF b \in Uses[a] THEN taken(b) ELSE {}]
            = [b \in Names |-> IF b \in Uses[a] THEN {source[b].version} ELSE {}]
      BY <2>1
    <2> QED
      BY <2>2, <1>4 DEF Current
  <1> QED
    BY <1>4, <1>5, <1>6, <1>7

LEMMA RepackSteps ==
  ASSUME ArtifactsTypeOK, PrepareInv, RepackArtifact
  PROVE  ArtifactsTypeOK' /\ PrepareInv' /\ doing' \in {"off", "repack", "backup"}
  <1>0. PICK a \in Names : a = Order[at]
    BY AtFacts
  <1> DEFINE repacks == a \in Repacked /\ a \in copied
             path == IF repacks THEN Repack(a) ELSE IF a \in Repacked THEN Restored(a) ELSE Copy(a)
  <1>1. doing = "repack" /\ UNCHANGED <<sourceVars, hashes, saved, clean, changed, copied>>
    BY DEF RepackArtifact
  <1>2. /\ a \in Names /\ a \notin Before /\ Before \subseteq Names /\ RepacksDone = Before
        /\ CopiesDone = Names /\ Copy(a) \in File /\ Repack(a) \in File /\ Repack(a).repack
    BY <1>0, <1>1, AtFacts, FileFacts DEF RepacksDone, CopiesDone
  <1>3. CASE a \in Repacked /\ ~repacks /\ saved.torn
    <2>1. doing' = "off" /\ at' = 1 /\ UNCHANGED <<files, artPath>>
      BY <1>0, <1>3 DEF RepackArtifact, Goto
    <2>2. 1 \in 1 .. Len(Order)
      BY OrderFacts
    <2>3. ArtifactsTypeOK'
      BY <2>1, <2>2, <1>1 DEF ArtifactsTypeOK, sourceVars
    <2> QED
      BY <2>1, <2>3, OffSteps, PlainStays DEF PrepareInv
  <1>4. CASE ~(a \in Repacked /\ ~repacks /\ saved.torn)
    <2>1. /\ NextArtifact("repack", "backup")
          /\ files' = IF repacks THEN [files EXCEPT ![Repack(a)] = Made(a)] ELSE files
          /\ artPath' = [artPath EXCEPT ![a] = path]
      BY <1>0, <1>4 DEF RepackArtifact
    <2>2. /\ RepacksDone' = Before \cup {a} /\ CopiesDone' = Names
          /\ doing' \in {"repack", "backup"}
      BY <1>0, <2>1, AtFacts DEF RepacksDone, CopiesDone
    <2>3. path \in File /\ (a \notin Repacked => path = Copy(a)) /\ (repacks => path = Repack(a))
      BY <1>2 DEF Restored, ArtifactsTypeOK
    <2> HIDE DEF path
    <2>4. /\ \A b \in Names : b # a => artPath'[b] = artPath[b]
          /\ artPath'[a] = path /\ artPath' \in [Names -> File \cup {NoFile}]
      BY <2>1, <2>3, <1>2 DEF ArtifactsTypeOK
    <2>5. repacks => /\ Made(a) \in Content
                     /\ Made(a).version = source[a].version /\ Made(a).rules = config[a].rules
                     /\ \A b \in Uses[a] : source[b].version \in Made(a).with[b]
                     /\ clean = "all" => Made(a) = Current(a)
      BY MadeIsRight, <1>1, <1>2
    <2>6. PlainOK' /\ files' \in [File -> Content]
      <3>1. CASE repacks
        BY <3>1, <2>1, <2>5, <1>2, PlainWritten DEF PrepareInv
      <3>2. CASE ~repacks
        BY <3>2, <2>1, PlainStays DEF PrepareInv, ArtifactsTypeOK
      <3> QED
        BY <3>1, <3>2
    <2>7. \A f \in File : f # Repack(a) \/ ~repacks => files'[f] = files[f]
      <3>1. CASE repacks
        BY <3>1, <2>1 DEF ArtifactsTypeOK
      <3> QED
        BY <3>1, <2>1
    <2>8. repacks => files'[Repack(a)] = Made(a)
      BY <2>1, <1>2 DEF ArtifactsTypeOK
    <2>9. ArtifactsTypeOK'
      <3>1. at' \in 1 .. Len(Order)
        <4>1. at \in 1 .. Len(Order) /\ Len(Order) \in Nat \ {0}
          BY OrderFacts DEF ArtifactsTypeOK
        <4> QED
          BY <4>1, <2>1 DEF NextArtifact, Goto
      <3> QED
        BY <3>1, <2>2, <2>4, <2>6, <1>1 DEF ArtifactsTypeOK, sourceVars
    <2>10. \A b \in Names : /\ Copy(b)' = Copy(b) /\ Repack(b)' = Repack(b)
                            /\ Plain(source[b].version)' = Plain(source[b].version)
                            /\ source'[b] = source[b] /\ config'[b] = config[b]
                            /\ Current(b)' = Current(b)
      BY <1>1, Steady DEF sourceVars, Current
    <2>11. \A b \in Names : /\ files'[Copy(b)] = files[Copy(b)]
                            /\ b # a \/ ~repacks => files'[Repack(b)] = files[Repack(b)]
      BY <2>7, <1>2, FileFacts
    <2>12. CopiesOK'
      <3>1. ASSUME NEW b \in Names
            PROVE  /\ b \notin Repacked => files[Copy(b)] = Plain(source[b].version)
                   /\ b \in Repacked \cap copied => files[Copy(b)] = Plain(source[b].version)
                   /\ b \in Repacked \ copied => files[Repack(b)].version = source[b].version
        BY <1>1, <1>2 DEF PrepareInv, CopiesOK
      <3>2. copied' \subseteq CopiesDone'
        BY <2>2, <1>1 DEF ArtifactsTypeOK
      <3> QED
        BY <3>1, <3>2, <2>2, <2>10, <2>11, <1>1 DEF CopiesOK
    <2>13. RepacksOK'
      <3>1. ASSUME NEW b \in Before
            PROVE  /\ artPath[b] \in File
                   /\ b \notin Repacked => artPath[b] = Copy(b)
                   /\ b \in Repacked \cap copied => artPath[b] = Repack(b) /\ MadeOK(b)
        BY <1>2 DEF PrepareInv, RepacksOK
      <3>2. ASSUME NEW b \in Before
            PROVE  b \in Repacked \cap copied => MadeOK(b)'
        <4>1. b \in Names /\ b # a /\ (b \in Repacked => Uses[b] \subseteq Names)
          BY <1>2, ArtifactsAssumption
        <4> QED
          BY <4>1, <3>1, <2>10, <2>11, <1>1 DEF MadeOK, sourceVars
      <3>3. a \in Repacked \cap copied => MadeOK(a)'
        <4>1. a \in Repacked => Uses[a] \subseteq Names
          BY ArtifactsAssumption
        <4> SUFFICES ASSUME a \in Repacked \cap copied PROVE MadeOK(a)'
          OBVIOUS
        <4>2. /\ files'[Repack(a)'] = Made(a) /\ source' = source /\ config' = config
              /\ Made(a).version = source[a].version /\ Made(a).rules = config[a].rules
              /\ \A b \in Uses[a] : source[b].version \in Made(a).with[b]
          BY <2>5, <2>8, <2>10, <1>2, <1>1 DEF sourceVars
        <4> QED
          BY <4>2 DEF MadeOK
      <3>4. ASSUME NEW b \in Names, b \in RepacksDone'
            PROVE  /\ artPath'[b] \in File
                   /\ b \notin Repacked => artPath'[b] = Copy(b)
                   /\ b \in Repacked \cap copied => artPath'[b] = Repack(b) /\ MadeOK(b)'
        <4>1. CASE b = a
          BY <4>1, <3>3, <2>3, <2>4
        <4>2. CASE b # a
          BY <4>2, <3>1, <3>2, <3>4, <2>2, <2>4
        <4> QED
          BY <4>1, <4>2
      <3>5. RepacksDone' \subseteq Names /\ File' = File
        BY <2>2, <1>2
      <3> HIDE DEF repacks
      <3> QED
        BY <3>4, <3>5, <2>10, <1>1 DEF RepacksOK
    <2>14. CleanOK'
      <3> SUFFICES ASSUME clean = "all"
                   PROVE  /\ \A f \in File : Exists(f)' => files'[f].version = source'[f.of].version
                          /\ changed' = Names /\ CopiesDone' \subseteq copied'
                          /\ \A b \in RepacksDone' \cap Repacked : files'[Repack(b)'] = Current(b)'
        BY <1>1, <2>2 DEF CleanOK
      <3>1. /\ \A f \in File : Exists(f) => files[f].version = source[f.of].version
            /\ changed = Names /\ CopiesDone \subseteq copied
            /\ \A b \in RepacksDone \cap Repacked : files[Repack(b)] = Current(b)
        BY <1>1 DEF PrepareInv, CleanOK
      <3>2. ASSUME NEW f \in File, Exists(f)' PROVE files'[f].version = source[f.of].version
        <4>1. CASE f = Repack(a) /\ repacks
          BY <4>1, <2>5, <2>8, <1>2, FileFacts
        <4>2. CASE ~(f = Repack(a) /\ repacks)
          BY <4>2, <3>1, <3>2, <2>7 DEF Exists
        <4> QED
          BY <4>1, <4>2
      <3>3. ASSUME NEW b \in (Before \cup {a}) \cap Repacked
            PROVE  files'[Repack(b)] = Current(b)
        <4>1. CASE b = a
          BY <4>1, <3>1, <2>5, <2>8, <1>2
        <4>2. CASE b # a
          BY <4>2, <3>1, <2>11, <1>2
        <4> QED
          BY <4>1, <4>2
      <3> QED
        BY <3>1, <3>2, <3>3, <2>2, <2>10, <1>1, <1>2 DEF sourceVars
    <2> QED
      BY <2>2, <2>6, <2>9, <2>12, <2>13, <2>14 DEF PrepareInv
  <1> QED
    BY <1>3, <1>4

\* From `backup` on the files stay, but those that `delete` removes.
Later == {"backup", "delete", "prepared", "hosts", "upload", "unzip", "tests"}

LEMMA LaterSteps ==
  ASSUME PrepareInv, doing \in Later, doing' \in Later \cup {"off"},
         UNCHANGED <<sourceVars, files, clean, changed, copied, artPath>>
  PROVE  PrepareInv'
  <1>1. PlainOK'
    BY PlainStays DEF PrepareInv
  <1>2. CASE doing' = "off"
    BY <1>1, <1>2, OffSteps
  <1>3. CASE doing' \in Later
    <2>1. /\ CopiesDone = Names /\ RepacksDone = Names /\ CopiesDone' = Names /\ RepacksDone' = Names
          /\ doing \notin {"off", "load", "copy", "repack"}
          /\ doing' \notin {"off", "load", "copy", "repack"}
      BY <1>3 DEF CopiesDone, RepacksDone, Later
    <2>2. \A a \in Names : Copy(a)' = Copy(a) /\ Repack(a)' = Repack(a) /\ Current(a)' = Current(a)
      BY Steady DEF sourceVars, Current
    <2>3. CopiesOK'
      BY <2>1, <2>2 DEF PrepareInv, CopiesOK, sourceVars
    <2>4. RepacksOK'
      BY <2>1, <2>2 DEF PrepareInv, RepacksOK, MadeOK, sourceVars
    <2>5. CleanOK'
      BY <2>1, <2>2 DEF PrepareInv, CleanOK, Exists, sourceVars
    <2> QED
      BY <1>1, <2>3, <2>4, <2>5 DEF PrepareInv
  <1> QED
    BY <1>2, <1>3

LEMMA BackupSteps ==
  ASSUME ArtifactsTypeOK, PrepareInv, Backup
  PROVE  ArtifactsTypeOK' /\ PrepareInv' /\ doing' = "delete"
  <1>0. 1 \in 1 .. Len(Order)
    BY OrderFacts
  <1>1. /\ doing = "backup" /\ doing' = "delete" /\ at' = 1
        /\ saved' = (IF BackupDue THEN BackedUp ELSE saved)
        /\ UNCHANGED <<sourceVars, hashes, files, clean, changed, copied, artPath>>
    BY DEF Backup, Goto
  <1>2. BackedUp \in [torn : BOOLEAN, of : [Names -> File \cup {NoFile}]]
    BY DEF ArtifactsTypeOK, BackedUp
  <1>3. ArtifactsTypeOK'
    BY <1>0, <1>1, <1>2 DEF ArtifactsTypeOK, sourceVars
  <1>4. PrepareInv'
    BY <1>1, LaterSteps DEF Later
  <1> QED
    BY <1>1, <1>3, <1>4

LEMMA DeleteSteps ==
  ASSUME ArtifactsTypeOK, PrepareInv, DeleteArtifacts
  PROVE  ArtifactsTypeOK' /\ PrepareInv' /\ doing' = "prepared"
  <1>0. 1 \in 1 .. Len(Order)
    BY OrderFacts
  <1> DEFINE gone(f) == \E a \in Repacked \cap copied : f = Copy(a)
  <1>1. /\ doing = "delete" /\ doing' = "prepared" /\ at' = 1
        /\ files' = [f \in File |-> IF gone(f) THEN Nothing ELSE files[f]]
        /\ UNCHANGED <<sourceVars, hashes, saved, clean, changed, copied, artPath>>
    BY DEF DeleteArtifacts, Goto
  <1>2. \A f \in File : files'[f] = IF gone(f) THEN Nothing ELSE files[f]
    BY <1>1
  <1>3. Repacked \subseteq Names
    BY ArtifactsAssumption
  <1>4. /\ \A a \in Names : ~gone(Repack(a))
        /\ \A a \in Names : a \notin Repacked => ~gone(Copy(a))
    BY <1>3, FileFacts
  <1> HIDE DEF gone
  <1>5. /\ \A a \in Names : files'[Repack(a)] = files[Repack(a)]
        /\ \A a \in Names : a \notin Repacked => files'[Copy(a)] = files[Copy(a)]
    BY <1>2, <1>4, FileFacts
  <1>6. ArtifactsTypeOK'
    <2>1. files' \in [File -> Content]
      BY <1>1, ContentFacts DEF ArtifactsTypeOK
    <2> QED
      BY <2>1, <1>0, <1>1 DEF ArtifactsTypeOK, sourceVars
  <1>7. PlainOK'
    BY <1>2, ContentFacts DEF PrepareInv, PlainOK
  <1>8. /\ CopiesDone = Names /\ RepacksDone = Names /\ CopiesDone' = Names /\ RepacksDone' = Names
    BY <1>1 DEF CopiesDone, RepacksDone
  <1>9. \A a \in Names : Copy(a)' = Copy(a) /\ Repack(a)' = Repack(a) /\ Current(a)' = Current(a)
    BY <1>1, Steady DEF sourceVars, Current
  <1>10. CopiesOK'
    BY <1>1, <1>5, <1>8, <1>9 DEF PrepareInv, CopiesOK, sourceVars
  <1>11. RepacksOK'
    BY <1>1, <1>5, <1>8, <1>9 DEF PrepareInv, RepacksOK, MadeOK, sourceVars
  <1>12. CleanOK'
    <2>1. \A f \in File : Exists(f)' => Exists(f) /\ files'[f] = files[f]
      BY <1>2 DEF Exists
    <2> QED
      BY <2>1, <1>1, <1>5, <1>8, <1>9 DEF PrepareInv, CleanOK, sourceVars
  <1> QED
    BY <1>1, <1>6, <1>7, <1>10, <1>11, <1>12 DEF PrepareInv

LEMMA CrashSteps ==
  ASSUME ArtifactsTypeOK, PrepareInv, Crash
  PROVE  ArtifactsTypeOK' /\ PrepareInv' /\ doing' = "off"
  <1>0. 1 \in 1 .. Len(Order)
    BY OrderFacts
  <1>1. /\ doing' = "off" /\ at' = 1 /\ (UNCHANGED diskVars \/ Tear)
        /\ UNCHANGED <<sourceVars, clean, changed, copied, artPath>>
    BY DEF Crash, Goto
  <1> DEFINE Disk == /\ hashes' \in [torn : BOOLEAN, of : [Names -> 0 .. 2]]
                     /\ saved' \in [torn : BOOLEAN, of : [Names -> File \cup {NoFile}]]
                     /\ files' \in [File -> Content]
                     /\ PlainOK'
  <1>2. ASSUME UNCHANGED files /\ UNCHANGED saved /\ hashes' \in {hashes, [NoHashes EXCEPT !.torn = TRUE]}
        PROVE  Disk
    <2>1. [NoHashes EXCEPT !.torn = TRUE] \in [torn : BOOLEAN, of : [Names -> 0 .. 2]]
      <3>1. NoHashes \in [torn : BOOLEAN, of : [Names -> 0 .. 2]]
        BY NothingTyped
      <3> QED
        BY <3>1
    <2>2. PlainOK'
      BY <1>2, PlainStays DEF PrepareInv
    <2> QED
      BY <2>1, <2>2, <1>2 DEF ArtifactsTypeOK
  <1>3. ASSUME UNCHANGED files /\ UNCHANGED hashes /\ saved' = [NoSaved EXCEPT !.torn = TRUE]
        PROVE  Disk
    <2>1. [NoSaved EXCEPT !.torn = TRUE] \in [torn : BOOLEAN, of : [Names -> File \cup {NoFile}]]
      BY DEF NoSaved
    <2>2. PlainOK'
      BY <1>3, PlainStays DEF PrepareInv
    <2> QED
      BY <2>1, <2>2, <1>3 DEF ArtifactsTypeOK
  <1>4. ASSUME UNCHANGED <<hashes, saved>> /\ files' = [files EXCEPT ![Copy(Order[at])] = Plain(Torn)]
        PROVE  Disk
    <2>1. /\ Copy(Order[at]) \in File /\ Plain(Torn) \in Content /\ Plain(Torn) = Plain(Plain(Torn).version)
      BY AtFacts, FileFacts, ContentFacts
    <2>2. PlainOK' /\ files' \in [File -> Content]
      BY <2>1, <1>4, PlainWritten DEF PrepareInv
    <2> QED
      BY <2>2, <1>4 DEF ArtifactsTypeOK
  <1>5. ASSUME UNCHANGED <<hashes, saved>> /\ files' = [files EXCEPT ![Repack(Order[at])] = Nothing]
        PROVE  Disk
    <2>1. /\ Repack(Order[at]) \in File /\ Nothing \in Content /\ Nothing = Plain(Nothing.version)
      BY AtFacts, FileFacts, ContentFacts
    <2>2. PlainOK' /\ files' \in [File -> Content]
      BY <2>1, <1>5, PlainWritten DEF PrepareInv
    <2> QED
      BY <2>2, <1>5 DEF ArtifactsTypeOK
  <1>6. Disk
    BY <1>1, <1>2, <1>3, <1>4, <1>5 DEF Tear, diskVars
  <1>7. ArtifactsTypeOK'
    BY <1>0, <1>1, <1>6 DEF ArtifactsTypeOK, sourceVars
  <1> QED
    BY <1>1, <1>6, <1>7, OffSteps

\* All that the session does otherwise.
LEMMA OtherSteps ==
  ASSUME ArtifactsTypeOK, PrepareInv, NEW d \in {"hosts", "upload", "unzip", "tests", "off"},
         doing \in {"prepared", "hosts", "upload", "unzip", "tests"}, Proceed(d)
  PROVE  ArtifactsTypeOK' /\ PrepareInv' /\ doing' = d
  <1>0. 1 \in 1 .. Len(Order)
    BY OrderFacts
  <1>1. /\ doing' = d /\ at' = 1
        /\ UNCHANGED <<sourceVars, diskVars, clean, changed, copied, artPath>>
    BY DEF Proceed, Goto
  <1>2. ArtifactsTypeOK'
    BY <1>0, <1>1 DEF ArtifactsTypeOK, sourceVars, diskVars
  <1>3. PrepareInv'
    BY <1>1, LaterSteps DEF Later, diskVars
  <1> QED
    BY <1>1, <1>2, <1>3

LEMMA PrepareStays ==
  ASSUME ArtifactsTypeOK, PrepareInv, UNCHANGED <<sourceVars, diskVars, prepareVars>>
  PROVE  ArtifactsTypeOK' /\ PrepareInv' /\ doing' = doing
  <1>1. /\ UNCHANGED <<source, config, hashes, saved, files>>
        /\ UNCHANGED <<doing, at, clean, changed, copied, artPath>>
    BY DEF sourceVars, diskVars, prepareVars
  <1>2. ArtifactsTypeOK'
    BY <1>1 DEF ArtifactsTypeOK
  <1>3. CopiesDone' = CopiesDone /\ RepacksDone' = RepacksDone
    BY <1>1 DEF CopiesDone, RepacksDone, Before
  <1>4. PlainOK'
    BY <1>1, PlainStays DEF PrepareInv
  <1>5. CopiesOK'
    BY <1>1, <1>3 DEF PrepareInv, CopiesOK, Copy, Repack
  <1>6. RepacksOK'
    BY <1>1, <1>3 DEF PrepareInv, RepacksOK, MadeOK, Copy, Repack
  <1>7. CleanOK'
    BY <1>1, <1>3 DEF PrepareInv, CleanOK, Exists, Current, Repack
  <1> QED
    BY <1>1, <1>2, <1>4, <1>5, <1>6, <1>7 DEF PrepareInv

-----------------------------------------------------------------------------
\* The containers.
LEMMA HostFacts ==
  /\ Len(Hosts) \in Nat \ {0} /\ DOMAIN Hosts = 1 .. Len(Hosts)
  /\ \A k \in 1 .. Len(Hosts) : Hosts[k] \in HostSet
  /\ \A h \in HostSet : \E k \in 1 .. Len(Hosts) : Hosts[k] = h
  /\ IsFiniteSet(HostSet) /\ Cardinality(HostSet) <= Len(Hosts)
  <1>1. Hosts \in Seq(HostSet) /\ Hosts # << >>
    BY DockerAssumption DEF HostSet
  <1>2. Len(Hosts) \in Nat \ {0} /\ DOMAIN Hosts = 1 .. Len(Hosts)
    BY <1>1
  <1>3. \A k \in 1 .. Len(Hosts) : Hosts[k] \in HostSet
    BY <1>1, <1>2
  <1>4. \A h \in HostSet : \E k \in 1 .. Len(Hosts) : Hosts[k] = h
    BY <1>2 DEF HostSet, Range
  <1> DEFINE g == [k \in 1 .. Len(Hosts) |-> Hosts[k]]
  <1>5. g \in Surjection(1 .. Len(Hosts), HostSet)
    BY <1>3, <1>4 DEF Surjection
  <1> HIDE DEF g
  <1>6. ExistsSurjection(1 .. Len(Hosts), HostSet)
    BY <1>5 DEF ExistsSurjection
  <1>7. IsFiniteSet(1 .. Len(Hosts))
    BY <1>2, FS_Interval
  <1>8. IsFiniteSet(HostSet)
    BY <1>5, <1>7, FS_Surjection
  <1>9. Cardinality(HostSet) <= Len(Hosts)
    BY <1>2, <1>6, FS_SurjCardinalityBound
  <1> QED
    BY <1>2, <1>3, <1>4, <1>8, <1>9

LEMMA Counted ==
  ASSUME NEW S, S \subseteq HostSet
  PROVE  Cardinality(S) \in Nat
  BY HostFacts, FS_Subset, FS_CardinalityType

LEMMA FailedCounted ==
  ASSUME NEW f \in [HostSet -> Outcomes]
  PROVE  Cardinality(Failed(f)) \in Nat /\ Failed(f) \subseteq HostSet /\ DoneAt(f) \subseteq HostSet
  BY Counted DEF Failed, DoneAt

LEMMA EventsTyped ==
  ASSUME events \in 0 .. MaxEvents, NEW n \in Nat, Happen(n)
  PROVE  events' \in 0 .. MaxEvents
  BY EventsAssumption DEF Happen

LEMMA HappensTyped ==
  ASSUME events \in 0 .. MaxEvents, Happens
  PROVE  events' \in 0 .. MaxEvents
  BY EventsTyped DEF Happens

LEMMA RowOf ==
  ASSUME DockerTypeOK, NEW x \in AllOf
  PROVE  x[1] \in HostSet /\ x[2] \in Containers /\ x = <<x[1], x[2]>> /\ docker[x[1]][x[2]] \in States
  BY DEF AllOf, DockerTypeOK

\* One container changes.
LEMMA OneChanges ==
  ASSUME DockerTypeOK, NEW h \in HostSet, NEW c \in Containers, NEW s \in States,
         docker' = [docker EXCEPT ![h][c] = s]
  PROVE  /\ docker' \in [HostSet -> [Containers -> States]]
         /\ \A x \in AllOf : x # <<h, c>> => docker'[x[1]][x[2]] = docker[x[1]][x[2]]
         /\ docker'[h][c] = s
         /\ UpNow' \subseteq UpNow \cup {<<h, c>>}
         /\ ~Up(s) => UpNow' \subseteq UpNow \ {<<h, c>>}
         /\ <<h, c>> \in AllOf
  <1>1. docker \in [HostSet -> [Containers -> States]]
    BY DEF DockerTypeOK
  <1>2. docker' = [docker EXCEPT ![h] = [docker[h] EXCEPT ![c] = s]]
    BY <1>1
  <1>3. [docker[h] EXCEPT ![c] = s] \in [Containers -> States]
    BY <1>1
  <1>4. docker' \in [HostSet -> [Containers -> States]]
    BY <1>1, <1>2, <1>3
  <1>5. docker'[h] = [docker[h] EXCEPT ![c] = s] /\ \A g \in HostSet : g # h => docker'[g] = docker[g]
    BY <1>1, <1>2
  <1>6. docker'[h][c] = s /\ \A d \in Containers : d # c => docker'[h][d] = docker[h][d]
    BY <1>1, <1>5
  <1>7. ASSUME NEW x \in AllOf, x # <<h, c>> PROVE docker'[x[1]][x[2]] = docker[x[1]][x[2]]
    BY <1>5, <1>6, <1>7, RowOf
  <1>8. <<h, c>> \in AllOf
    BY DEF AllOf
  <1> QED
    BY <1>4, <1>6, <1>7, <1>8 DEF UpNow

LEMMA NoneChange ==
  ASSUME UNCHANGED docker
  PROVE  UpNow' = UpNow
  BY DEF UpNow

\* All containers at some hosts change: none runs that has not run before.
LEMMA ManyChange ==
  ASSUME DockerTypeOK, NEW S \in SUBSET HostSet, NEW from, NEW to \in {"absent", "exited"},
         docker' = SetAt(S, from, to)
  PROVE  /\ docker' \in [HostSet -> [Containers -> States]]
         /\ UpNow' \subseteq UpNow
         /\ {"up", "paused"} \subseteq from => UpNow' \cap AtHosts(S) = {}
  <1>1. docker \in [HostSet -> [Containers -> States]] /\ to \in States /\ ~Up(to)
    BY DEF DockerTypeOK, States, Up
  <1>2. \A h \in HostSet : \A c \in Containers :
          docker'[h][c] = IF h \in S /\ docker[h][c] \in from THEN to ELSE docker[h][c]
    BY DEF SetAt
  <1>3. docker' \in [HostSet -> [Containers -> States]]
    BY <1>1 DEF SetAt
  <1>4. ASSUME NEW x \in UpNow'
        PROVE  x \in UpNow /\ ({"up", "paused"} \subseteq from => x \notin AtHosts(S))
    <2>1. x \in AllOf /\ x[1] \in HostSet /\ x[2] \in Containers /\ Up(docker'[x[1]][x[2]])
      BY RowOf DEF UpNow
    <2>2. docker'[x[1]][x[2]] = docker[x[1]][x[2]] /\ ~(x[1] \in S /\ docker[x[1]][x[2]] \in from)
      BY <2>1, <1>1, <1>2
    <2> QED
      BY <2>1, <2>2 DEF UpNow, Up, AtHosts
  <1> QED
    BY <1>3, <1>4

\* What a step about containers keeps; the calls about the swarm are others.
ContainerStep ==
  /\ DockerTypeOK' /\ KeptOK' /\ events' \in 0 .. MaxEvents
  /\ UpNow \subseteq mine => UpNow' \subseteq mine'
  /\ UNCHANGED <<swarm, manager, swarmCall>>

LEMMA RunSteps ==
  ASSUME DockerTypeOK, KeptOK, events \in 0 .. MaxEvents,
         NEW h \in HostSet, NEW c \in Containers, RunContainer(h, c)
  PROVE  ContainerStep
  <1>1. UNCHANGED <<swarm, manager, swarmCall, removing>>
    BY DEF RunContainer
  <1>2. PICK o \in Outcomes, logs \in Outcomes :
          /\ Happen(1 + Cost(o) + Cost(logs))
          /\ IF docker[h][c] = "absent" /\ Done(o)
             THEN /\ docker' = [docker EXCEPT ![h][c] = "up"]
                  /\ mine' = mine \cup {<<h, c>>}
                  /\ IF o = "ok" /\ ~Raises(logs)
                     THEN tracked' = tracked \cup {<<h, c>>} /\ UNCHANGED loose
                     ELSE loose' = loose \cup {<<h, c>>} /\ UNCHANGED tracked
             ELSE UNCHANGED <<docker, mine, tracked, loose>>
    BY DEF RunContainer
  <1>3. events' \in 0 .. MaxEvents
    <2>1. 1 + Cost(o) + Cost(logs) \in Nat
      BY DEF Cost, AsNumber
    <2> QED
      BY <2>1, <1>2, EventsTyped
  <1>4. CASE docker[h][c] = "absent" /\ Done(o)
    <2>1. /\ docker' = [docker EXCEPT ![h][c] = "up"] /\ mine' = mine \cup {<<h, c>>}
          /\ \/ tracked' = tracked \cup {<<h, c>>} /\ UNCHANGED loose
             \/ loose' = loose \cup {<<h, c>>} /\ UNCHANGED tracked
      BY <1>2, <1>4
    <2>2. /\ docker' \in [HostSet -> [Containers -> States]]
          /\ UpNow' \subseteq UpNow \cup {<<h, c>>} /\ <<h, c>> \in AllOf
      BY <2>1, OneChanges DEF States
    <2>3. DockerTypeOK'
      BY <2>1, <2>2, <1>1 DEF DockerTypeOK
    <2> QED
      BY <2>1, <2>2, <2>3, <1>1, <1>3 DEF ContainerStep, KeptOK
  <1>5. CASE ~(docker[h][c] = "absent" /\ Done(o))
    <2>1. UNCHANGED <<docker, mine, tracked, loose>>
      BY <1>2, <1>5
    <2> QED
      BY <2>1, <1>1, <1>3, NoneChange DEF ContainerStep, KeptOK, DockerTypeOK
  <1> QED
    BY <1>4, <1>5

LEMMA CommandSteps ==
  ASSUME DockerTypeOK, KeptOK, events \in 0 .. MaxEvents,
         NEW h \in HostSet, NEW c \in Containers, NEW op \in DOMAIN Moves, Command(op, h, c)
  PROVE  ContainerStep
  <1> DEFINE s == Moves[op].to
  <1>1. /\ docker[h][c] \in Moves[op].from /\ docker' = [docker EXCEPT ![h][c] = s]
        /\ UNCHANGED <<tracked, swarm, manager, swarmCall, removing>>
        /\ events' \in 0 .. MaxEvents
    BY HappensTyped DEF Command
  <1>2. /\ s \in States
        /\ op \in {"start", "restart"} \/ ~Up(s) \/ Up(docker[h][c])
    BY <1>1 DEF Moves, States, Up
  <1>3. IF op \in {"start", "restart"}
        THEN mine' = mine \cup {<<h, c>>} /\ loose' = loose \cup ({<<h, c>>} \ tracked)
        ELSE UNCHANGED <<mine, loose>>
    BY DEF Command
  <1> HIDE DEF s
  <1>4. /\ docker' \in [HostSet -> [Containers -> States]]
        /\ UpNow' \subseteq UpNow \cup {<<h, c>>} /\ <<h, c>> \in AllOf
        /\ ~Up(s) => UpNow' \subseteq UpNow
    BY <1>1, <1>2, OneChanges
  <1>5. op \in {"start", "restart"} \/ UpNow' \subseteq UpNow
    <2>1. Up(docker[h][c]) => <<h, c>> \in UpNow
      BY <1>4 DEF UpNow
    <2> QED
      BY <2>1, <1>2, <1>4
  <1>6. DockerTypeOK'
    <2>1. mine' \subseteq AllOf /\ loose' \subseteq AllOf
      BY <1>3, <1>4 DEF DockerTypeOK
    <2> QED
      BY <2>1, <1>1, <1>4 DEF DockerTypeOK
  <1> QED
    BY <1>1, <1>3, <1>4, <1>5, <1>6 DEF ContainerStep, KeptOK

LEMMA EndSteps ==
  ASSUME DockerTypeOK, KeptOK, events \in 0 .. MaxEvents,
         NEW h \in HostSet, NEW c \in Containers, ContainerEnds(h, c)
  PROVE  ContainerStep
  <1>1. PICK s \in {"exited", "absent"} : docker' = [docker EXCEPT ![h][c] = s]
    BY DEF ContainerEnds
  <1>2. /\ UNCHANGED <<tracked, swarm, manager, swarmCall, removing, mine, loose>>
        /\ events' \in 0 .. MaxEvents
    BY HappensTyped DEF ContainerEnds
  <1>3. s \in States /\ ~Up(s)
    BY DEF States, Up
  <1>4. docker' \in [HostSet -> [Containers -> States]] /\ UpNow' \subseteq UpNow
    BY <1>1, <1>3, OneChanges
  <1> QED
    BY <1>2, <1>4 DEF ContainerStep, KeptOK, DockerTypeOK

LEMMA SetToSeqIsSeq ==
  ASSUME NEW S, IsFiniteSet(S)
  PROVE  SetToSeq(S) \in Seq(S)
  <1>1. ExistsBijection(1 .. Cardinality(S), S) /\ Cardinality(S) \in Nat
    BY FS_CardinalityType
  <1>2. \E f \in [1 .. Cardinality(S) -> S] : IsInjective(f)
    BY <1>1 DEF ExistsBijection, Bijection, Injection
  <1>3. SetToSeq(S) \in [1 .. Cardinality(S) -> S]
    BY <1>2 DEF SetToSeq
  <1> QED
    BY <1>1, <1>3

LEMMA RemoveSomeSteps ==
  ASSUME DockerTypeOK, KeptOK, events \in 0 .. MaxEvents,
         NEW S, NEW N, RemoveContainers(S, N)
  PROVE  ContainerStep
  <1>1. /\ removing' = SetToSeq(Matching(S, N)) /\ events' \in 0 .. MaxEvents
        /\ UNCHANGED <<docker, tracked, swarm, manager, swarmCall, mine, loose>>
    BY HappensTyped DEF RemoveContainers
  <1>2. IsFiniteSet(AllOf)
    BY HostFacts, DockerAssumption, FS_Product DEF AllOf
  <1>3. Matching(S, N) \in SUBSET AllOf
    BY DEF Matching
  <1> DEFINE M == Matching(S, N)
  <1> HIDE DEF M
  <1>4. IsFiniteSet(M) /\ M \subseteq AllOf
    BY <1>2, <1>3, FS_Subset DEF M
  <1>5. SetToSeq(M) \in Seq(M)
    BY <1>4, SetToSeqIsSeq
  <1>6. SetToSeq(M) \in Seq(AllOf)
    BY <1>4, <1>5
  <1>7. DockerTypeOK'
    BY <1>1, <1>6 DEF DockerTypeOK, M
  <1> QED
    BY <1>1, <1>7, NoneChange DEF ContainerStep, KeptOK

LEMMA RemoveOneSteps ==
  ASSUME DockerTypeOK, KeptOK, events \in 0 .. MaxEvents,
         NEW h \in HostSet, NEW c \in Containers, RemoveContainer(h, c)
  PROVE  ContainerStep
  <1>1. /\ <<h, c>> \in AllOf /\ events' \in 0 .. MaxEvents
        /\ UNCHANGED <<docker, swarm, manager, swarmCall, mine, loose>>
        /\ IF Matching({h}, {c}) # {}
           THEN removing' = << <<h, c>> >> /\ UNCHANGED tracked
           ELSE tracked' = tracked \ {<<h, c>>} /\ UNCHANGED removing
    BY HappensTyped DEF RemoveContainer, AllOf
  <1>2. DockerTypeOK'
    <2>1. \A x \in AllOf : << x >> \in Seq(AllOf)
      OBVIOUS
    <2>2. removing' \in Seq(AllOf)
      BY <2>1, <1>1 DEF DockerTypeOK
    <2> QED
      BY <2>2, <1>1 DEF DockerTypeOK
  <1>3. Matching({h}, {c}) = {} => <<h, c>> \notin UpNow
    BY <1>1 DEF Matching, UpNow, Up
  <1>4. KeptOK'
    <2>1. UpNow' = UpNow
      BY <1>1, NoneChange
    <2> QED
      BY <2>1, <1>1, <1>3 DEF KeptOK
  <1> QED
    BY <1>1, <1>2, <1>4, NoneChange DEF ContainerStep

LEMMA RemoveNextSteps ==
  ASSUME DockerTypeOK, KeptOK, events \in 0 .. MaxEvents, RemoveNext
  PROVE  ContainerStep
  <1>1. removing \in Seq(AllOf) /\ removing # << >>
    BY DEF RemoveNext, IsFree, DockerTypeOK
  <1>2. PICK x \in AllOf : x = Head(removing)
    BY <1>1
  <1>3. PICK o \in Outcomes :
          /\ Happen(Cost(o))
          /\ docker' = IF Done(o) THEN [docker EXCEPT ![x[1]][x[2]] = "absent"] ELSE docker
          /\ IF Raises(o) THEN UNCHANGED tracked ELSE tracked' = tracked \ {<<x[1], x[2]>>}
          /\ removing' = IF Raises(o) THEN << >> ELSE Tail(removing)
          /\ loose' = IF o = "ok" THEN loose ELSE loose \cup {x}
    BY <1>2 DEF RemoveNext, ForgetEntry
  <1>4. UNCHANGED <<swarm, manager, swarmCall, mine>>
    BY DEF RemoveNext
  <1>5. x[1] \in HostSet /\ x[2] \in Containers /\ x = <<x[1], x[2]>>
    BY RowOf
  <1>6. events' \in 0 .. MaxEvents
    <2>1. Cost(o) \in Nat
      BY DEF Cost, AsNumber
    <2> QED
      BY <2>1, <1>3, EventsTyped
  <1>7. /\ docker' \in [HostSet -> [Containers -> States]]
        /\ UpNow' \subseteq UpNow
        /\ o = "ok" => x \notin UpNow'
    <2>1. CASE Done(o)
      <3>1. docker' = [docker EXCEPT ![x[1]][x[2]] = "absent"] /\ "absent" \in States /\ ~Up("absent")
        BY <2>1, <1>3 DEF States, Up
      <3>2. /\ docker' \in [HostSet -> [Containers -> States]]
            /\ UpNow' \subseteq UpNow \ {<<x[1], x[2]>>}
        BY <3>1, <1>5, OneChanges
      <3> QED
        BY <3>2, <1>5
    <2>2. CASE ~Done(o)
      BY <2>2, <1>3, NoneChange DEF Done, DockerTypeOK
    <2> QED
      BY <2>1, <2>2
  <1>8. removing' \in Seq(AllOf)
    BY <1>1, <1>3
  <1>9. tracked' \subseteq tracked /\ tracked \subseteq tracked' \cup {x} /\ loose \subseteq loose'
        /\ loose' \subseteq loose \cup {x} /\ (o # "ok" => x \in loose')
    BY <1>3, <1>5
  <1>10. DockerTypeOK'
    BY <1>4, <1>7, <1>8, <1>9 DEF DockerTypeOK
  <1>11. KeptOK'
    BY <1>4, <1>7, <1>9 DEF KeptOK
  <1> QED
    BY <1>4, <1>6, <1>7, <1>10, <1>11 DEF ContainerStep

LEMMA ForgetAllSteps ==
  ASSUME DockerTypeOK, KeptOK, events \in 0 .. MaxEvents,
         RemoveAllContainers \/ KillRunningContainers
  PROVE  ContainerStep
  <1>1. PICK from \in {States, {"up", "paused"}}, to \in {"absent", "exited"} : ForgetAll(from, to)
    BY DEF RemoveAllContainers, KillRunningContainers
  <1>2. PICK f \in [HostSet -> Outcomes] :
          /\ Happen(1 + Cardinality(Failed(f)))
          /\ docker' = SetAt(DoneAt(f), from, to)
          /\ loose' = loose \cup (IF to = "exited" THEN AllOf ELSE AtHosts(Failed(f)))
    BY <1>1 DEF ForgetAll
  <1>3. tracked' = {} /\ UNCHANGED <<swarm, manager, swarmCall, removing, mine>>
    BY <1>1 DEF ForgetAll
  <1>4. events' \in 0 .. MaxEvents
    BY <1>2, FailedCounted, EventsTyped
  <1>5. /\ docker' \in [HostSet -> [Containers -> States]]
        /\ UpNow' \subseteq UpNow /\ UpNow' \cap AtHosts(DoneAt(f)) = {}
    BY <1>1, <1>2, FailedCounted, ManyChange DEF States
  <1>6. AtHosts(Failed(f)) \subseteq AllOf /\ AllOf \subseteq AtHosts(DoneAt(f)) \cup AtHosts(Failed(f))
    <2>1. \A h \in HostSet : h \in DoneAt(f) \/ h \in Failed(f)
      BY DEF DoneAt, Failed, Done
    <2> QED
      BY <2>1 DEF AtHosts, AllOf
  <1>7. UpNow' \subseteq loose'
    <2>1. UpNow' \subseteq AllOf
      BY DEF UpNow
    <2> QED
      BY <2>1, <1>2, <1>5, <1>6
  <1>8. DockerTypeOK'
    BY <1>2, <1>3, <1>5, <1>6 DEF DockerTypeOK
  <1> QED
    BY <1>3, <1>4, <1>5, <1>7, <1>8 DEF ContainerStep, KeptOK

LEMMA PruneSteps ==
  ASSUME DockerTypeOK, KeptOK, events \in 0 .. MaxEvents, Prune
  PROVE  ContainerStep
  <1>1. /\ docker' = SetAt(HostSet, {"exited"}, "absent") /\ events' \in 0 .. MaxEvents
        /\ UNCHANGED <<tracked, swarm, manager, swarmCall, removing, mine, loose>>
    BY HappensTyped DEF Prune
  <1>2. docker' \in [HostSet -> [Containers -> States]] /\ UpNow' \subseteq UpNow
    BY <1>1, ManyChange
  <1> QED
    BY <1>1, <1>2 DEF ContainerStep, KeptOK, DockerTypeOK

\* DockerCleaner lets the session go on only when no container runs.
LEMMA CleanerSteps ==
  ASSUME DockerTypeOK, KeptOK, events \in 0 .. MaxEvents, NEW force \in BOOLEAN,
         CleanerPasses(force),
         UNCHANGED <<tracked, swarm, manager, swarmCall, removing, mine, loose>>
  PROVE  ContainerStep /\ UpNow' = {}
  <1>1. CASE UpNow = {}
    <2>1. UNCHANGED <<docker, events>>
      BY <1>1 DEF CleanerPasses
    <2> QED
      BY <2>1, <1>1, NoneChange DEF ContainerStep, KeptOK, DockerTypeOK
  <1>2. CASE UpNow # {}
    <2>1. PICK f \in [HostSet -> Outcomes] :
            /\ Happen(Cardinality(Failed(f)))
            /\ docker' = SetAt(DoneAt(f), {"up", "paused"}, "exited")
            /\ SecondLook
      BY <1>2 DEF CleanerPasses
    <2>2. UpNow' = {}
      BY <2>1 DEF SecondLook, UpNow
    <2>3. docker' \in [HostSet -> [Containers -> States]]
      BY <2>1, FailedCounted, ManyChange
    <2>4. events' \in 0 .. MaxEvents
      BY <2>1, FailedCounted, EventsTyped
    <2> QED
      BY <2>2, <2>3, <2>4 DEF ContainerStep, KeptOK, DockerTypeOK
  <1> QED
    BY <1>1, <1>2

-----------------------------------------------------------------------------
\* The swarm.
\* There are more swarms than hosts, so that one of them is new.
LEMMA FreshIsFresh ==
  ASSUME DockerTypeOK
  PROVE  FreshSwarm \in SwarmIds /\ \A h \in HostSet : swarm[h] # FreshSwarm
  <1>1. \E i \in SwarmIds : \A h \in HostSet : swarm[h] # i
    <2> SUFFICES ASSUME \A i \in SwarmIds : \E h \in HostSet : swarm[h] = i PROVE FALSE
      OBVIOUS
    <2>1. IsFiniteSet(SwarmIds) /\ Cardinality(SwarmIds) = Len(Hosts) + 1
      BY HostFacts, FS_Interval DEF SwarmIds
    <2> DEFINE g == [i \in SwarmIds |-> CHOOSE h \in HostSet : swarm[h] = i]
    <2>2. \A i \in SwarmIds : g[i] \in HostSet /\ swarm[g[i]] = i
      OBVIOUS
    <2>3. g \in [SwarmIds -> HostSet]
      OBVIOUS
    <2> HIDE DEF g
    <2>4. Cardinality(HostSet) < Cardinality(SwarmIds)
      BY <2>1, HostFacts, FS_CardinalityType
    <2>5. \E i, j \in SwarmIds : i # j /\ g[i] = g[j]
      BY <2>1, <2>3, <2>4, HostFacts, FS_PigeonHole
    <2> QED
      BY <2>2, <2>5
  <1> QED
    BY <1>1 DEF FreshSwarm

LEMMA SwarmRest ==
  ASSUME DockerTypeOK, KeptOK, UNCHANGED <<docker, tracked, removing, mine, loose>>,
         swarm' \in [HostSet -> {NoSwarm} \cup SwarmIds], manager' \in 0 .. Len(Hosts),
         swarmCall' \in {"none", "init", "raised", "leave"}
  PROVE  DockerTypeOK' /\ KeptOK' /\ UpNow' = UpNow
  BY NoneChange DEF DockerTypeOK, KeptOK

LEMMA InitSwarmSteps ==
  ASSUME DockerTypeOK, KeptOK, events \in 0 .. MaxEvents, InitSwarm
  PROVE  /\ DockerTypeOK' /\ DockerInv' /\ events' \in 0 .. MaxEvents
         /\ UNCHANGED mine /\ UpNow' = UpNow
  <1>1. UNCHANGED <<docker, tracked, removing, mine, loose>>
    BY DEF InitSwarm
  <1> DEFINE left(leaves) == [h \in HostSet |-> IF h \in DoneAt(leaves) THEN NoSwarm ELSE swarm[h]]
             raised(leaves) == \E h \in HostSet : Raises(leaves[h])
             seen(leaves, f) == {k \in 1 .. Len(Hosts) : \A j \in 1 .. k : JoinSeen(j, left(leaves), f)}
             asked(leaves, f) == IF raised(leaves) THEN {}
                                 ELSE {k \in 1 .. Len(Hosts) : \A j \in 1 .. k - 1 : j \in seen(leaves, f)}
             joined(leaves, f) == {k \in asked(leaves, f) : /\ left(leaves)[Hosts[k]] = NoSwarm
                                                            /\ Done(f[Hosts[k]])}
  <1>2. PICK leaves \in [HostSet -> Outcomes], f \in [HostSet -> Outcomes] :
          /\ Happen(1 + Cardinality(Failed(leaves)) + Cardinality(Failed(f)))
          /\ swarm' = [h \in HostSet |-> IF \E k \in joined(leaves, f) : Hosts[k] = h THEN FreshSwarm
                                         ELSE left(leaves)[h]]
          /\ manager' = IF raised(leaves) THEN manager ELSE 1
          /\ swarmCall' = IF ~raised(leaves) /\ Cardinality(seen(leaves, f)) = Len(Hosts)
                          THEN "init" ELSE "raised"
    BY DEF InitSwarm
  <1>3. events' \in 0 .. MaxEvents
    <2>1. Cardinality(Failed(leaves)) \in Nat /\ Cardinality(Failed(f)) \in Nat
      BY FailedCounted
    <2>2. 1 + Cardinality(Failed(leaves)) + Cardinality(Failed(f)) \in Nat
      BY <2>1
    <2> QED
      BY <2>2, <1>2, EventsTyped
  <1>4. swarm' \in [HostSet -> {NoSwarm} \cup SwarmIds]
    <2>1. \A h \in HostSet : left(leaves)[h] \in {NoSwarm} \cup SwarmIds
      BY DEF DockerTypeOK
    <2> HIDE DEF left, joined
    <2> QED
      BY <2>1, <1>2, FreshIsFresh
  <1>5. /\ manager' \in 0 .. Len(Hosts)
        /\ swarmCall' \in {"none", "init", "raised", "leave"}
    <2> HIDE DEF raised, seen
    <2> QED
      BY <1>2, HostFacts DEF DockerTypeOK
  <1>6. DockerTypeOK' /\ KeptOK' /\ UpNow' = UpNow
    BY <1>1, <1>4, <1>5, SwarmRest
  <1>7. OneSwarm'
    <2> SUFFICES ASSUME swarmCall' = "init"
                 PROVE  /\ manager' = 1
                        /\ \A h \in HostSet : swarm'[h] = FreshSwarm
      <3>1. NoSwarm \notin SwarmIds
        BY HostFacts DEF NoSwarm, SwarmIds
      <3>2. Hosts[1] \in HostSet /\ FreshSwarm # NoSwarm
        BY <3>1, HostFacts, FreshIsFresh, <1>6
      <3> HIDE DEF left, raised, seen, asked, joined
      <3> QED
        BY <3>2 DEF OneSwarm, NoHost
    <2>1. ~raised(leaves) /\ Cardinality(seen(leaves, f)) = Len(Hosts)
      <3> HIDE DEF raised, seen
      <3> QED
        BY <1>2
    <2>2. manager' = 1
      <3> HIDE DEF raised
      <3> QED
        BY <2>1, <1>2
    <2>3. seen(leaves, f) = 1 .. Len(Hosts)
      <3> DEFINE S == seen(leaves, f)
      <3>1. S \in SUBSET (1 .. Len(Hosts))
        OBVIOUS
      <3>2. Cardinality(S) = Len(Hosts)
        BY <2>1
      <3> HIDE DEF S, seen
      <3>3. IsFiniteSet(1 .. Len(Hosts)) /\ Cardinality(1 .. Len(Hosts)) = Len(Hosts)
        BY HostFacts, FS_Interval
      <3>4. 1 .. Len(Hosts) = S
        BY <3>1, <3>2, <3>3, FS_Subset
      <3> QED
        BY <3>4 DEF S
    <2>4. ASSUME NEW k \in 1 .. Len(Hosts) PROVE k \in joined(leaves, f)
      <3>0. Len(Hosts) \in Nat
        BY HostFacts
      <3>1. JoinSeen(k, left(leaves), f)
        <4>1. k \in seen(leaves, f) /\ k \in 1 .. k
          BY <3>0, <2>3
        <4> QED
          BY <4>1
      <3>2. k \in asked(leaves, f)
        <4>1. \A j \in 1 .. k - 1 : j \in 1 .. Len(Hosts)
          BY <3>0
        <4> HIDE DEF seen, raised
        <4> QED
          BY <4>1, <2>1, <2>3
      <3> HIDE DEF left, asked
      <3> QED
        BY <3>1, <3>2 DEF JoinSeen, Done
    <2>5. ASSUME NEW h \in HostSet PROVE swarm'[h] = FreshSwarm
      <3>1. \E k \in joined(leaves, f) : Hosts[k] = h
        <4> HIDE DEF joined
        <4> QED
          BY <2>4, HostFacts
      <3> HIDE DEF joined, left
      <3> QED
        BY <3>1, <1>2
    <2> QED
      BY <2>2, <2>5
  <1> QED
    BY <1>1, <1>3, <1>6, <1>7 DEF DockerInv

LEMMA LeaveSwarmSteps ==
  ASSUME DockerTypeOK, KeptOK, events \in 0 .. MaxEvents, LeaveSwarm
  PROVE  /\ DockerTypeOK' /\ DockerInv' /\ events' \in 0 .. MaxEvents
         /\ UNCHANGED mine /\ UpNow' = UpNow
  <1>1. PICK f \in [HostSet -> Outcomes] :
          /\ Happen(1 + Cardinality(Failed(f)))
          /\ swarm' = [h \in HostSet |-> IF h \in DoneAt(f) THEN NoSwarm ELSE swarm[h]]
    BY DEF LeaveSwarm
  <1>2. swarmCall' = "leave" /\ UNCHANGED <<docker, tracked, manager, removing, mine, loose>>
    BY DEF LeaveSwarm
  <1>3. events' \in 0 .. MaxEvents
    BY <1>1, FailedCounted, EventsTyped
  <1>4. swarm' \in [HostSet -> {NoSwarm} \cup SwarmIds]
    BY <1>1 DEF DockerTypeOK
  <1>5. DockerTypeOK' /\ KeptOK' /\ UpNow' = UpNow
    BY <1>2, <1>4, SwarmRest DEF DockerTypeOK
  <1> QED
    BY <1>2, <1>3, <1>5 DEF DockerInv, OneSwarm

-----------------------------------------------------------------------------
\* The hosts.
HostsTyped == /\ remote \in [HostSet -> [File -> Content]]
              /\ unzipped \in [HostSet -> [Names -> Content]]
              /\ missed \subseteq HostSet

LEMMA HostsStay ==
  ASSUME HostsInv, HostsTyped, UNCHANGED hostVars, UNCHANGED <<files, artPath>> \/ doing' = "off",
         doing' \in {doing, "off"} \/ doing' \notin {"unzip", "tests"}
  PROVE  HostsInv' /\ HostsTyped'
  <1>1. HostsTyped'
    BY DEF HostsTyped, hostVars
  <1>2. CASE doing' \notin {"unzip", "tests"}
    BY <1>1, <1>2 DEF HostsInv, UploadOK, DeployedIsLocal
  <1>3. CASE UNCHANGED <<files, artPath, doing>>
    BY <1>1, <1>3 DEF HostsInv, UploadOK, DeployedIsLocal, Exists, hostVars
  <1> QED
    BY <1>2, <1>3

LEMMA InitHostsSteps ==
  ASSUME HostsTyped, events \in 0 .. MaxEvents, InitRemoteHosts
  PROVE  HostsInv' /\ HostsTyped' /\ events' \in 0 .. MaxEvents
  <1>1. PICK R \in SUBSET HostSet :
          /\ Happen(Cardinality(R))
          /\ remote' = [h \in HostSet |-> IF clean = "all" /\ h \notin R THEN NoFiles ELSE remote[h]]
          /\ missed' = missed \cup R
    BY DEF InitRemoteHosts
  <1>2. doing' = "upload" /\ UNCHANGED unzipped
    BY DEF InitRemoteHosts, Proceed, Goto
  <1>3. events' \in 0 .. MaxEvents
    BY <1>1, Counted, EventsTyped
  <1>4. NoFiles \in [File -> Content]
    BY ContentFacts DEF NoFiles
  <1>5. HostsTyped'
    BY <1>1, <1>2, <1>4 DEF HostsTyped
  <1> QED
    BY <1>2, <1>3, <1>5 DEF HostsInv, UploadOK, DeployedIsLocal

LEMMA UploadSteps ==
  ASSUME ArtifactsTypeOK, HostsTyped, events \in 0 .. MaxEvents, Upload
  PROVE  HostsInv' /\ HostsTyped' /\ events' \in 0 .. MaxEvents
  <1>1. PICK L \in [HostSet -> SUBSET NotUploaded], cut \in BOOLEAN :
          /\ Happen(Cardinality({h \in HostSet : L[h] # {}}))
          /\ remote' = [h \in HostSet |-> [f \in File |->
               IF f \notin NotUploaded THEN remote[h][f]
               ELSE IF f \notin L[h] THEN files[f]
               ELSE IF cut THEN Plain(Torn) ELSE remote[h][f]]]
          /\ missed' = missed \cup {h \in HostSet : L[h] # {}}
    BY DEF Upload
  <1>2. doing' = "unzip" /\ UNCHANGED <<unzipped, files>>
    BY DEF Upload, Proceed, Goto, diskVars
  <1>3. events' \in 0 .. MaxEvents
    BY <1>1, Counted, EventsTyped
  <1>4. \A h \in HostSet : \A f \in File :
          /\ remote'[h][f] = IF f \notin NotUploaded THEN remote[h][f]
                             ELSE IF f \notin L[h] THEN files[f]
                             ELSE IF cut THEN Plain(Torn) ELSE remote[h][f]
    BY <1>1
  <1>5. HostsTyped'
    <2>1. \A h \in HostSet : \A f \in File :
            remote[h][f] \in Content /\ files[f] \in Content
      <3>1. remote \in [HostSet -> [File -> Content]] /\ files \in [File -> Content]
        BY DEF HostsTyped, ArtifactsTypeOK
      <3> QED
        BY <3>1
    <2>3. Plain(Torn) \in Content
      BY ContentFacts
    <2>2. remote' \in [HostSet -> [File -> Content]]
      BY <1>1, <2>1, <2>3
    <2> QED
      BY <2>2, <1>1, <1>2 DEF HostsTyped
  <1>6. ASSUME NEW h \in HostSet \ missed', NEW f \in File, Exists(f)
        PROVE  remote'[h][f] = files[f]
    <2>1. L[h] = {}
      BY <1>1, <1>6
    <2>2. f \notin NotUploaded => remote[h][f] = files[f]
      BY <1>6 DEF NotUploaded
    <2> QED
      BY <2>1, <2>2, <1>4
  <1>7. UploadOK'
    BY <1>2, <1>6 DEF UploadOK, Exists
  <1> QED
    BY <1>2, <1>3, <1>5, <1>7 DEF HostsInv, DeployedIsLocal

LEMMA UnzipSteps ==
  ASSUME TypeOK, RepacksOK, HostsInv, HostsTyped, Unzip
  PROVE  HostsInv' /\ HostsTyped' /\ events' \in 0 .. MaxEvents
  <1>1. PICK R \in SUBSET HostSet, run \in BOOLEAN :
          /\ Proceed(IF run THEN "tests" ELSE "off")
          /\ Happen(Cardinality(R))
          /\ unzipped' = [h \in HostSet |-> [a \in Names |->
                            IF h \in R THEN Nothing ELSE remote[h][artPath[a]]]]
          /\ missed' = missed \cup R
    BY DEF Unzip
  <1>2. /\ doing = "unzip" /\ doing' \in {"tests", "off"}
        /\ UNCHANGED <<remote, files, artPath>>
    BY <1>1 DEF Unzip, Proceed, Goto, diskVars
  <1>3. events' \in 0 .. MaxEvents
    BY <1>1, Counted, EventsTyped DEF TypeOK
  <1>4. \A a \in Names : artPath[a] \in File
    BY <1>2 DEF RepacksOK, RepacksDone
  <1>5. HostsTyped'
    <2>1. \A h \in HostSet : \A a \in Names : remote[h][artPath[a]] \in Content /\ Nothing \in Content
      BY <1>4, ContentFacts DEF HostsTyped
    <2>2. unzipped' \in [HostSet -> [Names -> Content]]
      BY <1>1, <2>1
    <2> QED
      BY <2>2, <1>1, <1>2 DEF HostsTyped
  <1>6. ASSUME NEW h \in HostSet \ missed', NEW a \in Names, Exists(artPath[a])
        PROVE  unzipped'[h][a] = files[artPath[a]]
    <2>1. h \notin R /\ h \notin missed
      BY <1>1
    <2>2. unzipped'[h][a] = remote[h][artPath[a]]
      BY <1>1, <2>1
    <2>3. remote[h][artPath[a]] = files[artPath[a]]
      BY <1>2, <1>4, <1>6, <2>1 DEF HostsInv, UploadOK
    <2> QED
      BY <2>2, <2>3
  <1>7. DeployedIsLocal'
    BY <1>2, <1>6 DEF DeployedIsLocal, Exists
  <1> QED
    BY <1>2, <1>3, <1>5, <1>7 DEF HostsInv, UploadOK

-----------------------------------------------------------------------------
\* Every step keeps the invariant.
LEMMA TypesAre ==
  /\ TypeOK <=> ArtifactsTypeOK /\ DockerTypeOK /\ HostsTyped /\ events \in 0 .. MaxEvents
  /\ TypeOK' <=> ArtifactsTypeOK' /\ DockerTypeOK' /\ HostsTyped' /\ events' \in 0 .. MaxEvents
  BY DEF TypeOK, HostsTyped

LEMMA DockerStays ==
  ASSUME DockerTypeOK, DockerInv, UNCHANGED dockerVars
  PROVE  DockerTypeOK' /\ DockerInv' /\ UpNow' = UpNow /\ mine' = mine
  <1>1. UNCHANGED <<docker, tracked, swarm, manager, swarmCall, removing, mine, loose>>
    BY DEF dockerVars
  <1> QED
    BY <1>1, NoneChange DEF DockerTypeOK, DockerInv, KeptOK, OneSwarm

LEMMA Start ==
  ASSUME Init
  PROVE  SInv
  <1>1. ArtifactsInit /\ DockerInit /\ remote = [h \in HostSet |-> NoFiles]
        /\ unzipped = NotUnzipped /\ missed = {} /\ events = 0
    BY DEF Init
  <1>2. /\ doing = "off" /\ at = 1 /\ clean = "" /\ changed = {} /\ copied = {}
        /\ hashes = NoHashes /\ saved = NoSaved /\ files = [f \in File |-> Nothing]
        /\ artPath = [a \in Names |-> NoFile]
        /\ source  = [a \in Names |-> [name |-> 1, version |-> 1]]
        /\ config  = [a \in Names |-> [glob |-> 1, rules |-> 1]]
    BY <1>1 DEF ArtifactsInit
  <1>3. ArtifactsTypeOK
    <2>1. 1 \in 1 .. Len(Order) /\ 1 \in 1 .. MaxVersion /\ 1 \in 1 .. MaxFileName
      BY OrderFacts, ContentFacts
    <2>2. source \in [Names -> [name : 1 .. MaxFileName, version : 1 .. MaxVersion]]
      BY <1>2, <2>1
    <2>3. config \in [Names -> [glob : 1 .. 2, rules : 1 .. 2]]
      <3>1. [glob |-> 1, rules |-> 1] \in [glob : 1 .. 2, rules : 1 .. 2]
        OBVIOUS
      <3> QED
        BY <3>1, <1>2
    <2> QED
      BY <1>2, <2>1, <2>2, <2>3, NothingTyped DEF ArtifactsTypeOK
  <1>4. PrepareInv
    BY <1>2, ContentFacts DEF PrepareInv, PlainOK, CopiesOK, RepacksOK, CleanOK, CopiesDone, RepacksDone
  <1>5. DockerTypeOK
    <2>1. << >> \in Seq(AllOf) /\ NoHost \in 0 .. Len(Hosts) /\ "absent" \in States
      BY HostFacts DEF NoHost, States
    <2> QED
      BY <1>1, <2>1 DEF DockerInit, DockerTypeOK
  <1>6. UpNow = {}
    BY <1>1, RowOf DEF DockerInit, UpNow, Up, AllOf
  <1>7. HostsTyped
    BY <1>1, ContentFacts DEF HostsTyped, NoFiles, NotUnzipped
  <1>8. TypeOK
    BY <1>1, <1>3, <1>5, <1>7, TypesAre, EventsAssumption
  <1>9. DockerInv
    BY <1>1, <1>6 DEF DockerInv, KeptOK, OneSwarm, DockerInit
  <1> QED
    BY <1>2, <1>4, <1>6, <1>8, <1>9 DEF SInv, HostsInv, UploadOK, DeployedIsLocal, OwnOK

\* Between sessions, and in prepare().
LEMMA LocalSteps ==
  ASSUME SInv, ArtifactsTypeOK', PrepareInv', events' \in 0 .. MaxEvents,
         UNCHANGED <<dockerVars, hostVars>>,
         doing' \in {"off", "load", "copy", "repack", "backup", "delete", "prepared"}
  PROVE  SInv'
  <1>1. DockerTypeOK' /\ DockerInv'
    BY DockerStays, TypesAre DEF SInv
  <1>2. HostsInv' /\ HostsTyped'
    BY TypesAre DEF SInv, hostVars, HostsTyped, HostsInv, UploadOK, DeployedIsLocal
  <1> QED
    BY <1>1, <1>2, TypesAre DEF SInv, OwnOK

LEMMA BeginSteps ==
  ASSUME SInv, Begin
  PROVE  SInv'
  <1>1. ArtifactsTypeOK' /\ PrepareInv' /\ doing' = "load" /\ UNCHANGED events
    BY SetUpSteps DEF Begin, SInv, TypeOK, SetUpEnvironment
  <1>2. /\ tracked' = {} /\ manager' = NoHost /\ swarmCall' = "none" /\ removing' = << >>
        /\ mine' = {} /\ loose' = {} /\ UNCHANGED <<docker, swarm>>
        /\ unzipped' = NotUnzipped /\ missed' = {} /\ UNCHANGED remote
    BY DEF Begin, NewManager
  <1>3. DockerTypeOK'
    <2>1. << >> \in Seq(AllOf) /\ NoHost \in 0 .. Len(Hosts)
      BY HostFacts DEF NoHost
    <2> QED
      BY <1>2, <2>1 DEF SInv, TypeOK, DockerTypeOK
  <1>4. HostsTyped'
    BY <1>2, ContentFacts DEF SInv, TypeOK, HostsTyped, NotUnzipped
  <1>5. DockerInv'
    BY <1>2 DEF DockerInv, KeptOK, OneSwarm
  <1> QED
    BY <1>1, <1>3, <1>4, <1>5, TypesAre
    DEF SInv, HostsInv, UploadOK, DeployedIsLocal, OwnOK

LEMMA DeploySteps ==
  ASSUME SInv, BeforeHostsSetup \/ InitRemoteHosts \/ Upload \/ Unzip \/ EndOfTests
  PROVE  SInv'
  <1>0. ArtifactsTypeOK /\ DockerTypeOK /\ HostsTyped /\ events \in 0 .. MaxEvents
    BY TypesAre DEF SInv
  <1>1. CASE BeforeHostsSetup
    <2>1. /\ UNCHANGED <<tracked, swarm, manager, swarmCall, removing, mine, loose, hostVars>>
          /\ doing = "prepared"
      BY <1>1 DEF BeforeHostsSetup
    <2>2. CASE \E force \in BOOLEAN : CleanerPasses(force) /\ Proceed("hosts")
      <3>1. PICK force \in BOOLEAN : CleanerPasses(force) /\ Proceed("hosts")
        BY <2>2
      <3>2. ContainerStep /\ UpNow' = {}
        BY <1>0, <2>1, <3>1, CleanerSteps DEF SInv, DockerInv
      <3>3. ArtifactsTypeOK' /\ PrepareInv' /\ doing' = "hosts"
        BY <1>0, <2>1, <3>1, OtherSteps DEF SInv
      <3>4. HostsInv' /\ HostsTyped'
        BY <1>0, <2>1, <3>3 DEF hostVars, HostsTyped, HostsInv, UploadOK, DeployedIsLocal
      <3>5. DockerInv'
        BY <3>2 DEF ContainerStep, SInv, DockerInv, OneSwarm
      <3> QED
        BY <3>2, <3>3, <3>4, <3>5, TypesAre DEF SInv, ContainerStep, OwnOK
    <2>3. CASE Proceed("off") /\ UNCHANGED <<docker, events>>
      <3>1. ArtifactsTypeOK' /\ PrepareInv' /\ doing' = "off"
        BY <1>0, <2>1, <2>3, OtherSteps DEF SInv
      <3> QED
        BY <2>1, <2>3, <3>1, <1>0, LocalSteps DEF dockerVars
    <2> QED
      BY <2>2, <2>3, <1>1 DEF BeforeHostsSetup
  <1>2. CASE InitRemoteHosts \/ Upload \/ Unzip
    <2>1. UNCHANGED dockerVars
      BY <1>2 DEF InitRemoteHosts, Upload, Unzip
    <2>2. /\ doing \in {"hosts", "upload", "unzip"}
          /\ \E d \in {"upload", "unzip", "tests", "off"} : Proceed(d)
      BY <1>2 DEF InitRemoteHosts, Upload, Unzip
    <2>3. /\ ArtifactsTypeOK' /\ PrepareInv'
      BY <1>0, <2>2, OtherSteps DEF SInv
    <2>4. DockerTypeOK' /\ DockerInv' /\ UpNow' = UpNow /\ mine' = mine
      BY <1>0, <2>1, DockerStays DEF SInv
    <2>5. HostsInv' /\ HostsTyped' /\ events' \in 0 .. MaxEvents
      BY <1>0, <1>2, InitHostsSteps, UploadSteps, UnzipSteps DEF SInv, PrepareInv
    <2>6. OwnOK'
      BY <2>2, <2>4 DEF SInv, OwnOK
    <2> QED
      BY <2>3, <2>4, <2>5, <2>6, TypesAre DEF SInv
  <1>3. CASE EndOfTests
    <2>1. doing = "tests" /\ Proceed("off") /\ UNCHANGED <<dockerVars, hostVars, events>>
      BY <1>3 DEF EndOfTests
    <2>2. ArtifactsTypeOK' /\ PrepareInv' /\ doing' = "off"
      BY <1>0, <2>1, OtherSteps DEF SInv
    <2> QED
      BY <2>1, <2>2, <1>0, LocalSteps
  <1> QED
    BY <1>1, <1>2, <1>3

\* The tests.
LEMMA TestSteps ==
  ASSUME SInv, UNCHANGED <<sourceVars, diskVars, prepareVars, hostVars>>,
         \/ ContainerStep
         \/ /\ DockerTypeOK' /\ DockerInv' /\ events' \in 0 .. MaxEvents
            /\ UNCHANGED mine /\ UpNow' = UpNow
  PROVE  SInv'
  <1>1. /\ DockerTypeOK' /\ DockerInv' /\ events' \in 0 .. MaxEvents
        /\ UpNow \subseteq mine => UpNow' \subseteq mine'
    BY DEF ContainerStep, SInv, DockerInv, OneSwarm
  <1>2. ArtifactsTypeOK' /\ PrepareInv' /\ doing' = doing
    BY PrepareStays DEF SInv, TypeOK
  <1>3. HostsInv' /\ HostsTyped'
    BY <1>2, HostsStay, TypesAre DEF SInv, diskVars, prepareVars
  <1>4. OwnOK'
    BY <1>1, <1>2 DEF SInv, OwnOK
  <1> QED
    BY <1>1, <1>2, <1>3, <1>4, TypesAre DEF SInv

LEMMA Step ==
  ASSUME SInv, [Next]_vars
  PROVE  SInv'
  <1>0. /\ ArtifactsTypeOK /\ DockerTypeOK /\ HostsTyped /\ events \in 0 .. MaxEvents
        /\ PrepareInv /\ KeptOK
    BY TypesAre DEF SInv, DockerInv
  <1>1. ASSUME NEW a \in Names,
               \/ \E n \in 1 .. MaxFileName, v \in 1 .. MaxVersion : Local(Rebuild(a, n, v))
               \/ Local(EditGlob(a)) \/ Local(EditRules(a))
        PROVE  SInv'
    <2>1. ArtifactsTypeOK' /\ PrepareInv' /\ doing' = "off"
      BY <1>0, <1>1, BetweenSessions DEF Local
    <2>2. events' \in 0 .. MaxEvents
      BY <1>0, <1>1, HappensTyped DEF Local, Rebuild, EditGlob, EditRules
    <2> QED
      BY <1>1, <2>1, <2>2, LocalSteps DEF Local
  <1>2. CASE \/ Local(Load) \/ Local(CopyArtifact) \/ Local(RepackArtifact)
             \/ Local(Backup) \/ Local(DeleteArtifacts)
    <2>1. /\ ArtifactsTypeOK' /\ PrepareInv'
          /\ doing' \in {"off", "load", "copy", "repack", "backup", "delete", "prepared"}
      BY <1>0, <1>2, LoadSteps, CopySteps, RepackSteps, BackupSteps, DeleteSteps DEF Local
    <2>2. UNCHANGED <<dockerVars, hostVars, events>>
      BY <1>2 DEF Local, Load, CopyArtifact, RepackArtifact, Backup, DeleteArtifacts
    <2> QED
      BY <1>0, <2>1, <2>2, LocalSteps
  <1>3. CASE Local(Crash)
    <2>1. ArtifactsTypeOK' /\ PrepareInv' /\ doing' = "off"
      BY <1>0, <1>3, CrashSteps DEF Local
    <2>2. events' \in 0 .. MaxEvents
      BY <1>0, <1>3, HappensTyped DEF Local, Crash
    <2> QED
      BY <1>3, <2>1, <2>2, LocalSteps DEF Local
  <1>4. CASE Begin
    BY <1>4, BeginSteps
  <1>5. CASE BeforeHostsSetup \/ InitRemoteHosts \/ Upload \/ Unzip \/ EndOfTests
    BY <1>5, DeploySteps
  <1>6. ASSUME NEW h \in HostSet, NEW c \in Containers,
               \/ Test(RunContainer(h, c)) \/ Test(RemoveContainer(h, c)) \/ Test(ContainerEnds(h, c))
               \/ \E op \in DOMAIN Moves : Test(Command(op, h, c))
        PROVE  SInv'
    <2>1. ContainerStep
      BY <1>0, <1>6, RunSteps, RemoveOneSteps, EndSteps, CommandSteps DEF Test
    <2> QED
      BY <1>6, <2>1, TestSteps DEF Test
  <1>7. ASSUME NEW S, NEW N, Test(RemoveContainers(S, N))
        PROVE  SInv'
    BY <1>0, <1>7, RemoveSomeSteps, TestSteps DEF Test
  <1>8. CASE \/ Test(RemoveNext) \/ Test(RemoveAllContainers) \/ Test(KillRunningContainers)
             \/ Test(Prune)
    <2>1. ContainerStep
      BY <1>0, <1>8, RemoveNextSteps, ForgetAllSteps, PruneSteps DEF Test
    <2> QED
      BY <1>8, <2>1, TestSteps DEF Test
  <1>9. CASE Test(InitSwarm) \/ Test(LeaveSwarm)
    <2>1. /\ DockerTypeOK' /\ DockerInv' /\ events' \in 0 .. MaxEvents
          /\ UNCHANGED mine /\ UpNow' = UpNow
      BY <1>0, <1>9, InitSwarmSteps, LeaveSwarmSteps DEF Test
    <2> QED
      BY <1>9, <2>1, TestSteps DEF Test
  <1>10. CASE UNCHANGED vars
    <2>1. UNCHANGED <<sourceVars, diskVars, prepareVars, dockerVars, hostVars, events>>
      BY <1>10 DEF vars
    <2>2. DockerTypeOK' /\ DockerInv' /\ UpNow' = UpNow /\ mine' = mine
      BY <1>0, <2>1, DockerStays DEF SInv
    <2> QED
      BY <1>0, <2>1, <2>2, TestSteps
  <1> QED
    BY <1>1, <1>2, <1>3, <1>4, <1>5, <1>6, <1>7, <1>8, <1>9, <1>10 DEF Next

-----------------------------------------------------------------------------
LEMMA Always == Spec => []SInv
  BY Start, Step, PTL DEF Spec

\* The types of the artifacts, the containers and the hosts, for any artifacts and hosts.
THEOREM SessionTypes == Spec => []TypeOK
  <1>1. SInv => TypeOK
    BY DEF SInv
  <1> QED
    BY <1>1, Always, PTL

\* What prepare() deploys is current, in the sense of PreparedIsCurrent, after any sequence of
\* sessions, crashes, rebuilds and edits, and for any rules: a copy is compared with its
\* source, a repack is made of what `copy` has just left there, and `delete` takes away only
\* copies that nothing deploys.
THEOREM WhatIsPreparedIsCurrent == Spec => []PreparedIsCurrent
  <1>1. SInv => PreparedIsCurrent
    <2> SUFFICES ASSUME SInv, Deploying, NEW a \in Names
                 PROVE  /\ a \notin Repacked \/ clean = "all" => files[artPath[a]] = Current(a)
                        /\ a \in Repacked \cap copied =>
                             /\ files[artPath[a]].version = source[a].version
                             /\ files[artPath[a]].rules = config[a].rules
                             /\ \A b \in Uses[a] : source[b].version \in files[artPath[a]].with[b]
      BY DEF PreparedIsCurrent
    <2>1. CopiesDone = Names /\ RepacksDone = Names /\ doing # "off"
      BY DEF Deploying, CopiesDone, RepacksDone
    <2>2. a \notin Repacked => files[artPath[a]] = Current(a)
      BY <2>1 DEF SInv, PrepareInv, CopiesOK, RepacksOK, Current
    <2>3. a \in Repacked \cap copied => artPath[a] = Repack(a) /\ MadeOK(a)
      BY <2>1 DEF SInv, PrepareInv, RepacksOK
    <2>4. clean = "all" /\ a \in Repacked => files[artPath[a]] = Current(a)
      BY <2>1, <2>3 DEF SInv, PrepareInv, CleanOK
    <2> QED
      BY <2>2, <2>3, <2>4 DEF MadeOK
  <1> QED
    BY <1>1, Always, PTL

\* Every host at which nothing has failed in the session has unzipped the files of the
\* artifacts directory: `upload` compares every file at every host.
THEOREM HostsHaveTheArtifacts == Spec => []DeployedIsLocal
  <1>1. SInv => DeployedIsLocal
    BY DEF SInv, HostsInv
  <1> QED
    BY <1>1, Always, PTL

\* DockerCleaner looks again after it has killed, so that no container of a former session
\* runs beside the tests.
THEOREM OnlyOwnContainers == Spec => []NoForeignContainer
  <1>1. SInv => NoForeignContainer
    BY DEF SInv, OwnOK, NoForeignContainer
  <1> QED
    BY <1>1, Always, PTL

\* Removing a container forgets no other, whichever command fails.
THEOREM ContainersAreKnown == Spec => []NoLostContainer
  <1>1. SInv => NoLostContainer
    BY DEF SInv, DockerInv, KeptOK, NoLostContainer
  <1> QED
    BY <1>1, Always, PTL

\* When init_swarm returns, every host has left what it was in and joined a new swarm.
THEOREM TheSwarmIsOne == Spec => []OneSwarm
  <1>1. SInv => OneSwarm
    BY DEF SInv, DockerInv
  <1> QED
    BY <1>1, Always, PTL
=============================================================================
