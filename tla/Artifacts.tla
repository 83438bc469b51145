----------------------------- MODULE Artifacts -----------------------------
(***************************************************************************)
(* prepare() of src/tiden/artifacts.py: the artifacts of the configuration *)
(* are copied to the local artifacts directory, some of them repacked, and *)
(* what was done is kept in two files for the next session, which does     *)
(* only what has changed since.                                            *)
(*                                                                         *)
(* Everything here but the variables of one session (`doing` and below) is *)
(* on disk.  A session may end at any step, by a crash or an exception,    *)
(* and in the middle of writing a file.  Between sessions somebody builds  *)
(* the artifacts anew and edits the configuration.                         *)
(***************************************************************************)
EXTENDS Integers, Sequences, SequencesExt, Events

CONSTANTS
  Order,        \* the artifacts, in the order of the configuration
  Repacked,     \* those with repack rules
  Uses,         \* the other artifacts that the rules of each one copy from
  MayCrash,     \* whether a session may end at any step
  MaxVersion,   \* bound: the contents of a source file
  MaxFileName   \* bound: the names a source file has under its pattern

Names == Range(Order)

ASSUME ArtifactsAssumption ==
  /\ Order \in Seq(Names) \ {<< >>} /\ IsInjective(Order) /\ Repacked \subseteq Names
  /\ Uses \in [Repacked -> SUBSET Names]
  /\ MayCrash \in BOOLEAN /\ {MaxVersion, MaxFileName} \subseteq Nat \ {0}

VARIABLES
  source,    \* the file that the pattern of each artifact finds: its name and content
  config,    \* glob_path and the repack rules of each artifact, as numbered texts
  hashes,    \* local_hash_artifacts.yaml: the glob_path of each artifact, 0 if it has none
  saved,     \* local_artifacts_config.yaml: the path of each artifact
  files,     \* the artifacts directory
  doing,     \* the step that the session is in
  at,        \* the number of the artifact that the step is at
  clean,     \* --clean
  changed, copied,   \* changed_artifacts and copied_artifacts of prepare()
  artPath    \* config["artifacts"][..]["path"]

sourceVars  == <<source, config>>
diskVars    == <<hashes, saved, files>>
prepareVars == <<doing, at, clean, changed, copied, artPath>>

-----------------------------------------------------------------------------
\* The files in the artifacts directory: copies, and X.repack.zip of X.zip.
File == [of : Names, name : 1 .. MaxFileName, repack : BOOLEAN]
NoFile == [of |-> Order[1], name |-> 0, repack |-> FALSE]
Copy(a)   == [of |-> a, name |-> source[a].name, repack |-> FALSE]
Repack(a) == [of |-> a, name |-> source[a].name, repack |-> TRUE]

\* What is in a file: the content of the source (or its checksum), and for a repack what its
\* rules took from the other artifacts.
Torn == -1
Content == [version : Torn .. MaxVersion, rules : 0 .. 2,
            with : [Names -> SUBSET (Torn .. MaxVersion)]]
Plain(v) == [version |-> v, rules |-> 0, with |-> [a \in Names |-> {}]]
Nothing == Plain(0)

Exists(f) == files[f] # Nothing

\* An artifact as it is now, repacked by the rules as they are now.
Current(a) ==
  IF a \in Repacked
  THEN [version |-> source[a].version, rules |-> config[a].rules,
        with |-> [b \in Names |-> IF b \in Uses[a] THEN {source[b].version} ELSE {}]]
  ELSE Plain(source[a].version)

ArtifactsTypeOK ==
  /\ source \in [Names -> [name : 1 .. MaxFileName, version : 1 .. MaxVersion]]
  /\ config \in [Names -> [glob : 1 .. 2, rules : 1 .. 2]]
  /\ hashes \in [torn : BOOLEAN, of : [Names -> 0 .. 2]]
  /\ saved \in [torn : BOOLEAN, of : [Names -> File \cup {NoFile}]]
  /\ files \in [File -> Content]
  /\ doing \in {"off", "load", "copy", "repack", "backup", "delete", "prepared",
                "hosts", "upload", "unzip", "tests"}
  /\ at \in 1 .. Len(Order)
  /\ clean \in {"", "all"}
  /\ changed \subseteq Names /\ copied \subseteq Names
  /\ artPath \in [Names -> File \cup {NoFile}]

NoHashes == [torn |-> FALSE, of |-> [a \in Names |-> 0]]
NoSaved  == [torn |-> FALSE, of |-> [a \in Names |-> NoFile]]

ArtifactsInit ==
  /\ source  = [a \in Names |-> [name |-> 1, version |-> 1]]
  /\ config  = [a \in Names |-> [glob |-> 1, rules |-> 1]]
  /\ hashes  = NoHashes
  /\ saved   = NoSaved
  /\ files   = [f \in File |-> Nothing]
  /\ doing   = "off"
  /\ at      = 1
  /\ clean   = ""
  /\ changed = {} /\ copied = {}
  /\ artPath = [a \in Names |-> NoFile]

-----------------------------------------------------------------------------
\* External: between sessions an artifact is built anew, perhaps under another name (a new
\* one or one it had before), or its configuration is edited.
Rebuild(a, name, version) ==
  /\ doing = "off" /\ Happens
  /\ source' = [source EXCEPT ![a] = [name |-> name, version |-> version]]
  /\ source' # source
  /\ UNCHANGED <<config, diskVars, prepareVars>>

EditGlob(a) ==
  /\ doing = "off" /\ Happens
  /\ config' = [config EXCEPT ![a].glob = 3 - @]
  /\ UNCHANGED <<source, diskVars, prepareVars>>

EditRules(a) ==
  /\ doing = "off" /\ Happens
  /\ a \in Repacked
  /\ config' = [config EXCEPT ![a].rules = 3 - @]
  /\ UNCHANGED <<source, diskVars, prepareVars>>

-----------------------------------------------------------------------------
Goto(d) == doing' = d /\ at' = 1
NextArtifact(d, after) == IF at < Len(Order) THEN doing' = d /\ at' = at + 1 ELSE Goto(after)

\* setup_test_environment: --clean=all removes the whole var_dir; --clean=tests nothing that
\* this module knows of.
CleanUp(opt) ==
  IF opt = "all"
  THEN hashes' = NoHashes /\ saved' = NoSaved /\ files' = [f \in File |-> Nothing]
  ELSE UNCHANGED diskVars

SetUpEnvironment ==
  /\ doing = "off" /\ Goto("load")
  /\ \E opt \in {"", "all"} : clean' = opt /\ CleanUp(opt)
  /\ changed' = {} /\ copied' = {} /\ artPath' = [a \in Names |-> NoFile]
  /\ UNCHANGED <<sourceVars, events>>

\* get_changed_artifacts: only the text of glob_path is compared.
Changed == {a \in Names : hashes.of[a] # config[a].glob}
HashesNow == [torn |-> FALSE, of |-> [a \in Names |-> config[a].glob]]
NothingSaved == saved.of = NoSaved.of

Dumps == Changed # {} \/ NothingSaved

\* A file that was cut short is read as None, which has no len().
LoadRaises == hashes.torn \/ (Changed = {} /\ saved.torn)

Load ==
  /\ doing = "load"
  /\ IF LoadRaises
     THEN Goto("off") /\ UNCHANGED <<hashes, changed>>
     ELSE /\ changed' = Changed
          /\ hashes' = IF Dumps THEN HashesNow ELSE hashes
          /\ Goto("copy")
  /\ UNCHANGED <<sourceVars, saved, files, clean, copied, artPath, events>>

\* The names are compared, not the contents.
EqualsByName(a) == IF a \in Repacked THEN Exists(Repack(a)) ELSE Exists(Copy(a))

\* artifacts_equals: the checksum of the copy, or the one that the repack has inside.
Equals(a) == IF a \in Repacked
             THEN files[Repack(a)].version = source[a].version
             ELSE files[Copy(a)].version = source[a].version

\* One artifact of copy_artifacts.
CopyArtifact ==
  LET a == Order[at] IN
  /\ doing = "copy"
  /\ IF a \in changed \/ ~Equals(a)
     THEN /\ files' = [files EXCEPT ![Copy(a)] = Plain(source[a].version)]
          /\ copied' = copied \cup {a}
     ELSE UNCHANGED <<files, copied>>
  /\ NextArtifact("copy", "repack")
  /\ UNCHANGED <<sourceVars, hashes, saved, clean, changed, artPath, events>>

\* _parse_args looks for the other artifact by its pattern in the artifacts directory, and
\* takes all the files it finds there, former names and repacks included.
Matches(b) == {f \in File : f.of = b /\ Exists(f)}

Made(a) == [version |-> source[a].version, rules |-> config[a].rules,
            with |-> [b \in Names |-> IF b \in Uses[a] THEN {files[f].version : f \in Matches(b)}
                                      ELSE {}]]

\* An artifact without an entry in the saved configuration has the path of its copy.
Restored(a) == IF saved.of[a] = NoFile THEN Copy(a) ELSE saved.of[a]

\* One artifact of repack_and_get_command_to_unzip and repack_artifact: AttributeError if the
\* saved configuration is needed and was cut short.  Other exceptions are in Crash.
RepackArtifact ==
  LET a == Order[at]
      repacks == a \in Repacked /\ a \in copied
  IN
  /\ doing = "repack"
  /\ IF a \in Repacked /\ ~repacks /\ saved.torn
     THEN Goto("off") /\ UNCHANGED <<files, artPath>>
     ELSE /\ files' = IF repacks THEN [files EXCEPT ![Repack(a)] = Made(a)] ELSE files
          /\ artPath' = [artPath EXCEPT ![a] = IF repacks THEN Repack(a)
                                               ELSE IF a \in Repacked THEN Restored(a)
                                               ELSE Copy(a)]
          /\ NextArtifact("repack", "backup")
  /\ UNCHANGED <<sourceVars, hashes, saved, clean, changed, copied, events>>

BackedUp == [torn |-> FALSE, of |-> artPath]

BackupDue == NothingSaved \/ copied # {}

\* apply_changes, backup.
Backup ==
  /\ doing = "backup"
  /\ saved' = IF BackupDue THEN BackedUp ELSE saved
  /\ Goto("delete")
  /\ UNCHANGED <<sourceVars, hashes, files, clean, changed, copied, artPath, events>>

\* delete_artifacts: the copies that were repacked.
DeleteArtifacts ==
  /\ doing = "delete"
  /\ files' = [f \in File |-> IF \E a \in Repacked \cap copied : f = Copy(a) THEN Nothing
                              ELSE files[f]]
  /\ Goto("prepared")
  /\ UNCHANGED <<sourceVars, hashes, saved, clean, changed, copied, artPath, events>>

Prepare == Load \/ CopyArtifact \/ RepackArtifact \/ Backup \/ DeleteArtifacts

-----------------------------------------------------------------------------
\* What a crash may leave of the file that is being written: the YAML files are opened with
\* 'w', a copy is cut short, a repack has been removed and the new one not moved yet.
Tear ==
  \/ /\ doing = "load" /\ ~LoadRaises /\ Dumps
     /\ hashes' = [NoHashes EXCEPT !.torn = TRUE] /\ UNCHANGED <<saved, files>>
  \/ /\ doing = "copy"
     /\ files' = [files EXCEPT ![Copy(Order[at])] = Plain(Torn)] /\ UNCHANGED <<hashes, saved>>
  \/ /\ doing = "repack" /\ Order[at] \in Repacked \cap copied
     /\ files' = [files EXCEPT ![Repack(Order[at])] = Nothing] /\ UNCHANGED <<hashes, saved>>
  \/ /\ doing = "backup" /\ BackupDue
     /\ saved' = [NoSaved EXCEPT !.torn = TRUE] /\ UNCHANGED <<hashes, files>>

Crash ==
  /\ MayCrash /\ doing # "off" /\ Happens
  /\ Goto("off")
  /\ UNCHANGED diskVars \/ Tear
  /\ UNCHANGED <<sourceVars, clean, changed, copied, artPath>>

-----------------------------------------------------------------------------
Deploying == doing \in {"prepared", "hosts", "upload", "unzip", "tests"}

\* After whatever sequence of rebuilds, edits and crashes: what a session deploys of an
\* artifact without repack rules is the source as it is.  A repacked artifact that it has
\* copied is made of its source and rules as they are, and has what they take from other
\* artifacts as it is, besides perhaps older files of the same pattern.  And after a
\* --clean=all nothing is old, whatever was in the var_dir ("Recommend to run tests with
\* --clean=all option").
PreparedIsCurrent ==
  Deploying => \A a \in Names :
    LET used == files[artPath[a]] IN
    /\ a \notin Repacked \/ clean = "all" => used = Current(a)
    /\ a \in Repacked \cap copied =>
         /\ used.version = source[a].version /\ used.rules = config[a].rules
         /\ \A b \in Uses[a] : source[b].version \in used.with[b]

\* README.md:263: "All changed artifacts will be automatically redeployed".
ChangedIsDeployed ==
  Deploying => \A a \in Names : files[artPath[a]].version = source[a].version
=============================================================================
