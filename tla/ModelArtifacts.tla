--------------------------- MODULE ModelArtifacts ---------------------------
(***************************************************************************)
(* The threat engine's two models as files: train_model.py writes them, an *)
(* engine process (main.py, model.py) loads them before it serves.         *)
(*                                                                         *)
(* Nothing locks the directory.  A training writes its three files one     *)
(* after the other and may be killed at any point; an engine reads them in *)
(* the same order, at any time, and compares nothing: it may serve with    *)
(* the files of two trainings, and no property here says otherwise.  What  *)
(* a training learnt is its number.                                        *)
(***************************************************************************)
EXTENDS Integers, Sequences

CONSTANTS
  MaxTrainings,   \* bound: trainings
  MaxKills        \* bound: times a training or an engine is killed

ASSUME ArtifactAssumption == MaxTrainings \in Nat \ {0} /\ MaxKills \in Nat

VARIABLES
  files,      \* what is in models/: a training's number, Missing or Broken
  training,   \* trainings begun; the first one is part of the image
  dump,       \* the file the running training writes next, 0 if none runs
  engine,     \* "down", "loading" or "serving"
  loaded,     \* what the engine has read, file by file
  kills

artifacts == <<files, training, dump, engine, loaded, kills>>
-----------------------------------------------------------------------------
\* isolation_forest.joblib, xgboost_model.joblib and metadata.json, in the
\* order in which they are written and read.
Forest == 1
Booster == 2
Metadata == 3
File == Forest .. Metadata

Trainings == 1 .. MaxTrainings
Missing == 0
Broken == -1     \* truncated by a training that is writing it or was killed

ArtifactsTypeOK ==
  /\ files \in [File -> Trainings \cup {Missing, Broken}]
  /\ training \in Trainings /\ dump \in File \cup {0}
  /\ engine \in {"down", "loading", "serving"}
  /\ loaded \in Seq(Trainings) /\ Len(loaded) <= 3
  /\ kills \in 0 .. MaxKills

\* Every file holds a model, be it of one training or of several.
Readable == \A f \in File : files[f] \in Trainings

\* "Bake a trained model into the image", or a clone without one.
ArtifactsInit ==
  /\ \E t \in {1, Missing} : files = [f \in File |-> t]
  /\ training = 1 /\ dump = 0
  /\ engine = "down" /\ loaded = <<>> /\ kills = 0
-----------------------------------------------------------------------------
\* main: another training has generated its dataset and fitted both models.
Train ==
  /\ dump = 0 /\ training + 1 \in Trainings
  /\ training' = training + 1 /\ dump' = Forest
  /\ UNCHANGED <<files, engine, loaded, kills>>

\* The next file is opened, and with that truncated, ...
OpenFile ==
  /\ dump # 0 /\ files[dump] # Broken
  /\ files' = [files EXCEPT ![dump] = Broken]
  /\ UNCHANGED <<training, dump, engine, loaded, kills>>

\* ... and written.
WriteFile ==
  /\ dump # 0 /\ files[dump] = Broken
  /\ files' = [files EXCEPT ![dump] = training]
  /\ dump' = IF dump = Metadata THEN 0 ELSE dump + 1
  /\ UNCHANGED <<training, engine, loaded, kills>>

\* lifespan begins: model.load().
Launch ==
  /\ engine = "down"
  /\ engine' = "loading" /\ loaded' = <<>>
  /\ UNCHANGED <<files, training, dump, kills>>

\* The next file is loaded; one that is missing or broken ends the process.
Load ==
  /\ engine = "loading" /\ Len(loaded) < 3
  /\ LET content == files[Len(loaded) + 1] IN
       \/ /\ content \in Trainings
          /\ loaded' = Append(loaded, content)
          /\ UNCHANGED engine
       \/ /\ content \notin Trainings
          /\ engine' = "down" /\ loaded' = <<>>
  /\ UNCHANGED <<files, training, dump, kills>>

\* lifespan yields: the server and the Kafka consumer have a model.
Serve ==
  /\ engine = "loading" /\ Len(loaded) = 3
  /\ engine' = "serving"
  /\ UNCHANGED <<files, training, dump, loaded, kills>>

\* A training or the engine is killed.
Kill ==
  /\ kills < MaxKills
  /\ kills' = kills + 1
  /\ \/ /\ dump # 0
        /\ dump' = 0
        /\ UNCHANGED <<engine, loaded>>
     \/ /\ engine # "down"
        /\ engine' = "down" /\ loaded' = <<>>
        /\ UNCHANGED dump
  /\ UNCHANGED <<files, training>>

ArtifactsNext ==
  Train \/ OpenFile \/ WriteFile \/ Launch \/ Load \/ Serve \/ Kill
=============================================================================
