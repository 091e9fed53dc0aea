------------------------ MODULE SmokeDeploymentProofs ------------------------
(***************************************************************************)
(* SmokeDeployment, for any variables of the .env, any number of commands  *)
(* and any number of failures, interruptions and kills: the operator's     *)
(* configuration is never lost, a teardown that ends well has reverted it, *)
(* and the bot keeps its secrets.                                          *)
(***************************************************************************)
EXTENDS SmokeDeployment, TLAPS

USE DEF All, Run, Exit, Goto, bounds, script

LEMMA EnvIsAFile == ASSUME NEW e \in Env PROVE e # NoFile
  BY DEF Env, NoFile, Keys

LEMMA SomeKeys == /\ Graph \in Keys /\ Kept \subseteq Keys /\ Secrets \subseteq Keys
                  /\ Secrets \cap Kept = {}
  BY SmokeAssumption DEF Keys, Kept

-----------------------------------------------------------------------------
LEMMA FillType == ASSUME NEW k \in ToFill, TypeOK PROVE k \in Keys
  BY SomeKeys DEF ToFill, Empty, Keys

LEMMA AfterChecksType ==
    ASSUME NEW c, AfterChecks(c), c \in {"ok", "failed", "error", "interrupted"}
    PROVE  /\ pc' \in {"idle", "restore"} /\ code' = c
           /\ UNCHANGED <<command, mem, generados>>
  BY DEF AfterChecks

LEMMA CutType == ASSUME TypeOK, CutShort
                 PROVE  cut' \in SUBSET {"rewrite", "recreate"} /\ cut \subseteq cut'
  BY DEF TypeOK, CutShort

LEMMA Counted ==
    ASSUME TypeOK
    PROVE  /\ Fault => faults' \in 0 .. MaxFaults
           /\ commands < MaxCommands => commands + 1 \in 0 .. MaxCommands
<1>1. commands \in 0 .. MaxCommands /\ faults \in 0 .. MaxFaults
  BY DEF TypeOK
<1>2. MaxCommands \in Nat /\ MaxFaults \in Nat
  BY SmokeAssumption
<1> QED
  BY <1>1, <1>2 DEF Fault

(* Every variable keeps its type. *)
THEOREM TypeCorrect == Spec => []TypeOK
<1>1. Init => TypeOK
  <2> SUFFICES ASSUME Init PROVE TypeOK
    OBVIOUS
  <2>1. original \in Env
    BY DEF Init, Env
  <2>2. commands \in 0 .. MaxCommands /\ faults \in 0 .. MaxFaults
    BY SmokeAssumption DEF Init
  <2> QED
    BY <2>1, <2>2 DEF Init, TypeOK
<1>2. TypeOK /\ [Next]_vars => TypeOK'
  <2> SUFFICES ASSUME TypeOK, [Next]_vars PROVE TypeOK'
    OBVIOUS
  <2> USE Counted DEF TypeOK
  <2>1. ASSUME NEW c \in {"setup", "teardown"} \cup Run \cup All, Invoke(c) PROVE TypeOK'
    BY <2>1 DEF Invoke
  <2>2. CASE RemoveOldSink
    BY <2>2 DEF RemoveOldSink
  <2>3. CASE StartSink
    BY <2>3 DEF StartSink
  <2>4. CASE BackUp
    BY <2>4 DEF BackUp
  <2>5. CASE Repoint
    BY <2>5 DEF Repoint, AfterSetup
  <2>6. ASSUME NEW k \in Keys, SetEnvVar(k) PROVE TypeOK'
    BY <2>6 DEF SetEnvVar, Env
  <2>7. ASSUME NEW k \in Keys, KeepSecret(k) PROVE TypeOK'
    BY <2>7 DEF KeepSecret, ToKeep, Env
  <2>8. CASE RunChecks
    BY <2>8 DEF RunChecks, AfterChecks
  <2>9. CASE RestoreEnv
    <3>1. [k \in Secrets |-> mem[k]] \in [Secrets -> {"empty", "own", "made"}]
      BY SomeKeys DEF Env
    <3> QED
      BY <2>9, <3>1 DEF RestoreEnv
  <2>10. CASE Unlink
    BY <2>10 DEF Unlink
  <2>11. CASE Recreate
    BY <2>11 DEF Recreate
  <2>12. CASE RemoveSink
    BY <2>12 DEF RemoveSink
  <2>13. CASE Interrupt
    BY <2>13, CutType DEF Interrupt, AfterChecks
  <2>14. CASE Kill
    BY <2>14, CutType DEF Kill
  <2>15. CASE UNCHANGED vars
    BY <2>15 DEF vars
  <2> QED
    BY <2>1, <2>2, <2>3, <2>4, <2>5, <2>6, <2>7, <2>8, <2>9, <2>10, <2>11,
       <2>12, <2>13, <2>14, <2>15 DEF Next
<1> QED
  BY <1>1, <1>2, PTL DEF Spec
-----------------------------------------------------------------------------
(* What the script knows at each of its steps. *)
Staged ==
    /\ pc \in {"rm", "sink", "backup", "fill", "checks", "restore"} => mem = env
    /\ pc \in {"rm", "sink", "backup", "fill"} => command \in {"setup"} \cup All
    /\ pc = "checks" => command \in Run \cup All
    /\ pc = "restore" => command \in {"teardown"} \cup All
    /\ pc = "fill" => backup # NoFile
    /\ pc \in {"checks", "restore"} /\ command \in All => backup # NoFile
    /\ pc = "unlink" => backup # NoFile /\ env = backup
    /\ pc \in {"keep", "rm sink"} => backup = NoFile

LEMMA StagedAlways == Spec => []Staged
<1>1. Init => Staged
  BY DEF Init, Staged
<1>2. TypeOK /\ Staged /\ [Next]_vars => Staged'
  <2> SUFFICES ASSUME TypeOK, Staged, [Next]_vars PROVE Staged'
    OBVIOUS
  <2> USE DEF Staged
  <2>1. ASSUME NEW c \in {"setup", "teardown"} \cup Run \cup All, Invoke(c) PROVE Staged'
    BY <2>1 DEF Invoke
  <2>2. CASE RemoveOldSink
    BY <2>2 DEF RemoveOldSink
  <2>3. CASE StartSink
    BY <2>3 DEF StartSink
  <2>4. CASE BackUp
    BY <2>4, EnvIsAFile DEF BackUp, TypeOK
  <2>5. CASE Repoint
    BY <2>5 DEF Repoint, AfterSetup
  <2>6. ASSUME NEW k \in Keys, SetEnvVar(k) PROVE Staged'
    BY <2>6 DEF SetEnvVar
  <2>7. ASSUME NEW k \in Keys, KeepSecret(k) PROVE Staged'
    BY <2>7 DEF KeepSecret
  <2>8. CASE RunChecks
    BY <2>8 DEF RunChecks, AfterChecks
  <2>9. CASE RestoreEnv
    BY <2>9 DEF RestoreEnv
  <2>10. CASE Unlink
    BY <2>10 DEF Unlink
  <2>11. CASE Recreate
    BY <2>11 DEF Recreate
  <2>12. CASE RemoveSink
    BY <2>12 DEF RemoveSink
  <2>13. CASE Interrupt
    BY <2>13 DEF Interrupt, AfterChecks
  <2>14. CASE Kill
    BY <2>14 DEF Kill
  <2>15. CASE UNCHANGED vars
    BY <2>15 DEF vars
  <2> QED
    BY <2>1, <2>2, <2>3, <2>4, <2>5, <2>6, <2>7, <2>8, <2>9, <2>10, <2>11,
       <2>12, <2>13, <2>14, <2>15 DEF Next
<1> QED
  BY <1>1, <1>2, TypeCorrect, PTL DEF Spec

-----------------------------------------------------------------------------
(* OriginalKept alone is not inductive: the backup goes back into the .env, *)
(* so that it has to hold the operator's secrets too.                       *)
Preserved ==
    /\ OriginalKept
    /\ backup # NoFile =>
           \A k \in Secrets : original[k] = "own" => backup[k] = "own"

LEMMA SetEnvVarFills ==
    ASSUME TypeOK, Staged, NEW k \in Keys, SetEnvVar(k)
    PROVE  /\ backup # NoFile
           /\ k \in Secrets => env[k] = "empty"
           /\ \A j \in Keys : env'[j] = IF j = k THEN "made" ELSE env[j]
           /\ UNCHANGED <<original, backup>>
<1>1. pc = "fill" /\ k \in ToFill /\ mem = env
  BY DEF SetEnvVar, Staged
<1>2. k \in Secrets => mem[k] = "empty"
  BY <1>1, SmokeAssumption DEF ToFill, Empty
<1>3. \A j \in Keys : env'[j] = IF j = k THEN "made" ELSE env[j]
  BY DEF SetEnvVar, TypeOK, Env
<1> QED
  BY <1>1, <1>2, <1>3 DEF SetEnvVar, Staged

LEMMA KeepSecretFills ==
    ASSUME TypeOK, NEW k \in Keys, KeepSecret(k)
    PROVE  /\ k \in Secrets /\ env[k] = "empty"
           /\ generados[k] # "empty" /\ pc = "keep"
           /\ \A j \in Keys : env'[j] = IF j = k THEN generados[k] ELSE env[j]
           /\ UNCHANGED <<original, backup, bot, pc, generados, cut>>
  BY DEF KeepSecret, ToKeep, TypeOK, Env, bounds, script

(* What the operator had is never lost: it is in the .env or in its backup, *)
(* through any number of commands cut short at any step.                    *)
THEOREM ConfigurationKept == Spec => []OriginalKept
<1>1. Init => Preserved
  BY SomeKeys DEF Init, Preserved, OriginalKept
<1>2. TypeOK /\ Staged /\ Preserved /\ [Next]_vars => Preserved'
  <2> SUFFICES ASSUME TypeOK, Staged, Preserved, [Next]_vars PROVE Preserved'
    OBVIOUS
  <2>1. ASSUME UNCHANGED <<original, env, backup>> PROVE Preserved'
    BY <2>1 DEF Preserved, OriginalKept
  <2>2. CASE BackUp
    <3>1. original' = original /\ env' = env /\ backup' # NoFile
      BY <2>2, EnvIsAFile DEF BackUp, TypeOK
    <3>2. CASE backup = NoFile
      BY <2>2, <3>1, <3>2 DEF BackUp, Preserved, OriginalKept
    <3>3. CASE backup # NoFile
      BY <2>2, <3>1, <3>3 DEF BackUp, Preserved, OriginalKept
    <3> QED
      BY <3>2, <3>3
  <2>3. ASSUME NEW k \in Keys, SetEnvVar(k) PROVE Preserved'
    <3>1. \A j \in Secrets : original[j] = "own" => j # k
      BY <2>3, SetEnvVarFills DEF Preserved, OriginalKept
    <3> QED
      BY <2>3, <3>1, SetEnvVarFills, SomeKeys DEF Preserved, OriginalKept
  <2>4. ASSUME NEW k \in Keys, KeepSecret(k) PROVE Preserved'
    <3>1. backup = NoFile
      BY <2>4, KeepSecretFills DEF Staged
    <3>2. \A j \in Secrets : original[j] = "own" => j # k
      BY <2>4, KeepSecretFills DEF Preserved, OriginalKept
    <3>3. \A j \in Kept : j # k /\ j \in Keys
      BY <2>4, KeepSecretFills, SomeKeys
    <3> QED
      BY <2>4, <3>1, <3>2, <3>3, KeepSecretFills, SomeKeys DEF Preserved, OriginalKept
  <2>5. CASE RestoreEnv
    <3>1. CASE backup = NoFile
      BY <2>5, <3>1 DEF RestoreEnv, Preserved, OriginalKept
    <3>2. CASE backup # NoFile
      BY <2>5, <3>2 DEF RestoreEnv, Preserved, OriginalKept
    <3> QED
      BY <3>1, <3>2
  <2>6. CASE Unlink
    BY <2>6 DEF Unlink, Staged, Preserved, OriginalKept
  <2> QED
    BY <2>1, <2>2, <2>3, <2>4, <2>5, <2>6
    DEF Next, Invoke, RemoveOldSink, StartSink, Repoint, RunChecks, Recreate,
        RemoveSink, Interrupt, Kill, vars
<1>3. Preserved => OriginalKept
  BY DEF Preserved
<1> QED
  BY <1>1, <1>2, <1>3, TypeCorrect, StagedAlways, PTL DEF Spec

-----------------------------------------------------------------------------
(* The secrets the bot runs with: in the .env, or in the hands of the      *)
(* teardown that has just put the backup in its place.                     *)
Remembered ==
    "rewrite" \notin cut => \A k \in Secrets : bot[k] # "empty" =>
        IF pc \in {"unlink", "keep"} THEN generados[k] # "empty" ELSE env[k] # "empty"

(* Once they are written back, or outside a teardown, they are in the .env. *)
LEMMA RememberedInEnv ==
    ASSUME TypeOK, Remembered, "rewrite" \notin cut, NEW k \in Secrets, bot[k] # "empty",
           pc = "unlink" => FALSE, pc = "keep" => ToKeep = {}
    PROVE  env[k] # "empty"
  BY DEF Remembered, ToKeep

(* The bot is never recreated without a secret that it had, unless a        *)
(* teardown was cut while it was writing them back.                         *)
Stay == \A k \in Secrets : bot[k] # "empty" /\ bot'[k] = "empty" => "rewrite" \in cut

LEMMA CutGrows == ASSUME TypeOK, [Next]_vars PROVE cut \subseteq cut'
  BY CutType
  DEF Next, Invoke, RemoveOldSink, StartSink, BackUp, Repoint, SetEnvVar, KeepSecret,
      RunChecks, RestoreEnv, Unlink, Recreate, RemoveSink, Interrupt, Kill, vars

THEOREM SecretsRemain == Spec => SecretsStay
<1>1. Init => Remembered
  BY DEF Init, Remembered
<1>2. TypeOK /\ Staged /\ Remembered /\ [Next]_vars => Remembered' /\ Stay
  <2> SUFFICES ASSUME TypeOK, Staged, Remembered, [Next]_vars PROVE Remembered' /\ Stay
    OBVIOUS
  <2>0. CASE "rewrite" \in cut
    BY <2>0, CutGrows DEF Remembered, Stay
  <2> SUFFICES ASSUME "rewrite" \notin cut PROVE Remembered' /\ Stay
    BY <2>0
  <2> USE DEF Remembered, Stay
  <2>1. ASSUME NEW c \in {"setup", "teardown"} \cup Run \cup All, Invoke(c) PROVE Remembered' /\ Stay
    BY <2>1 DEF Invoke
  <2>2. CASE RemoveOldSink
    BY <2>2 DEF RemoveOldSink
  <2>3. CASE StartSink
    BY <2>3 DEF StartSink
  <2>4. CASE BackUp
    BY <2>4 DEF BackUp
  <2>5. CASE Repoint
    BY <2>5 DEF Repoint, AfterSetup
  <2>6. ASSUME NEW k \in Keys, SetEnvVar(k) PROVE Remembered' /\ Stay
    <3>1. bot' = bot /\ pc = "fill" /\ pc' = pc /\ cut' = cut
      BY <2>6 DEF SetEnvVar
    <3> QED
      BY <2>6, <3>1, SetEnvVarFills, SomeKeys
  <2>7. ASSUME NEW k \in Keys, KeepSecret(k) PROVE Remembered' /\ Stay
    BY <2>7, KeepSecretFills
  <2>8. CASE RunChecks
    BY <2>8 DEF RunChecks, AfterChecks
  <2>9. CASE RestoreEnv
    <3>1. CASE backup = NoFile
      BY <2>9, <3>1 DEF RestoreEnv
    <3>2. CASE backup # NoFile
      BY <2>9, <3>2 DEF RestoreEnv, Staged
    <3> QED
      BY <3>1, <3>2
  <2>10. CASE Unlink
    BY <2>10 DEF Unlink
  <2>11. CASE Recreate
    BY <2>11, RememberedInEnv DEF Recreate
  <2>12. CASE RemoveSink
    BY <2>12 DEF RemoveSink
  <2>13. ASSUME CutShort, bot' = bot, env' = env, pc' \notin {"unlink", "keep"}
         PROVE  Remembered' /\ Stay
    <3>1. "rewrite" \notin cut' => pc # "unlink" /\ (pc = "keep" => ToKeep = {})
      BY <2>13 DEF CutShort
    <3> QED
      BY <2>13, <3>1, RememberedInEnv
  <2>14. CASE Interrupt
    BY <2>13, <2>14 DEF Interrupt, AfterChecks
  <2>15. CASE Kill
    BY <2>13, <2>15 DEF Kill
  <2>16. CASE UNCHANGED vars
    BY <2>16 DEF vars
  <2> QED
    BY <2>1, <2>2, <2>3, <2>4, <2>5, <2>6, <2>7, <2>8, <2>9, <2>10, <2>11,
       <2>12, <2>14, <2>15, <2>16 DEF Next
<1>3. [](TypeOK /\ Staged /\ Remembered) /\ [][Next]_vars => SecretsStay
  <2>1. TypeOK /\ Staged /\ Remembered /\ [Next]_vars => [Stay]_vars
    BY <1>2
  <2> QED
    BY <2>1, PTL DEF SecretsStay, Stay
<1> QED
  BY <1>1, <1>2, <1>3, TypeCorrect, StagedAlways, PTL DEF Spec

-----------------------------------------------------------------------------
(* When the bot runs with the .env as it is. *)
InStep ==
    /\ cut = {} /\ backup = NoFile /\ pc # "keep" => bot = env
    /\ pc = "rm sink" /\ command \in All => bot = env
    /\ TeardownReverts

LEMMA KeptReverted ==
    ASSUME TypeOK, OriginalKept, backup = NoFile, bot = env
    PROVE  Reverted
  BY DEF OriginalKept, Reverted

(* A teardown that ends well has put the .env back and the bot runs with    *)
(* it: as the end of `all`, whatever was cut before, and by itself when no  *)
(* command was cut before it.                                               *)
THEOREM RevertsWhenDone == Spec => []TeardownReverts
<1>1. Init => InStep
  BY DEF Init, InStep, TeardownReverts
<1>2. TypeOK /\ Staged /\ OriginalKept /\ InStep /\ [Next]_vars => InStep'
  <2> SUFFICES ASSUME TypeOK, Staged, OriginalKept, InStep, [Next]_vars PROVE InStep'
    OBVIOUS
  <2> USE DEF InStep
  <2>1. ASSUME NEW c \in {"setup", "teardown"} \cup Run \cup All, Invoke(c) PROVE InStep'
    BY <2>1 DEF Invoke, TeardownReverts
  <2>2. CASE RemoveOldSink
    BY <2>2 DEF RemoveOldSink, TeardownReverts
  <2>3. CASE StartSink
    BY <2>3 DEF StartSink, TeardownReverts
  <2>4. CASE BackUp
    BY <2>4, EnvIsAFile DEF BackUp, TypeOK, TeardownReverts
  <2>5. CASE Repoint
    BY <2>5 DEF Repoint, AfterSetup, Staged, TeardownReverts
  <2>6. ASSUME NEW k \in Keys, SetEnvVar(k) PROVE InStep'
    BY <2>6, SetEnvVarFills DEF SetEnvVar, TeardownReverts, Staged
  <2>7. ASSUME NEW k \in Keys, KeepSecret(k) PROVE InStep'
    BY <2>7, KeepSecretFills DEF TeardownReverts
  <2>8. CASE RunChecks
    BY <2>8 DEF RunChecks, AfterChecks, Staged, TeardownReverts
  <2>9. CASE RestoreEnv
    BY <2>9 DEF RestoreEnv, Staged, TeardownReverts
  <2>10. CASE Unlink
    BY <2>10 DEF Unlink, TeardownReverts
  <2>11. CASE Recreate
    BY <2>11 DEF Recreate, Staged, TeardownReverts
  <2>12. CASE RemoveSink
    <3>1. backup = NoFile /\ pc = "rm sink" /\ pc' = "idle"
          /\ UNCHANGED <<original, env, backup, bot, command, cut>>
      BY <2>12 DEF RemoveSink, Staged
    <3>2. bot = env => Reverted
      BY <3>1, KeptReverted
    <3>3. bot = env => Reverted'
      BY <3>1, <3>2 DEF Reverted
    <3> QED
      BY <3>1, <3>3 DEF TeardownReverts
  <2>13. CASE Interrupt
    BY <2>13 DEF Interrupt, AfterChecks, CutShort, Staged, TeardownReverts
  <2>14. CASE Kill
    BY <2>14 DEF Kill, CutShort, TeardownReverts
  <2>15. CASE UNCHANGED vars
    BY <2>15 DEF vars, TeardownReverts, Reverted
  <2> QED
    BY <2>1, <2>2, <2>3, <2>4, <2>5, <2>6, <2>7, <2>8, <2>9, <2>10, <2>11,
       <2>12, <2>13, <2>14, <2>15 DEF Next
<1>3. InStep => TeardownReverts
  BY DEF InStep
<1> QED
  BY <1>1, <1>2, <1>3, TypeCorrect, StagedAlways, ConfigurationKept, PTL DEF Spec
=============================================================================
