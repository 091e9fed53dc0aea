--------------------------- MODULE SmokeDeployment ---------------------------
(***************************************************************************)
(* scripts/smoke_test.py and the deployment it repoints: the .env of the   *)
(* bot, its backup, the container of the sink, and the environment that    *)
(* the container of the bot was last created with.  The operator runs one  *)
(* command after the other; a docker command or a check may fail, and the  *)
(* script may be interrupted (Ctrl-C) or killed before any of its steps,   *)
(* each of which writes one file or runs one docker command.               *)
(*                                                                         *)
(* A variable of the .env is "empty", "own" (the operator's) or "made"     *)
(* (put there by setup).  Writing a file is atomic, and nobody else edits  *)
(* the .env or recreates the bot.                                          *)
(***************************************************************************)
EXTENDS Naturals

CONSTANTS
    Secrets,       \* KEEP_ON_TEARDOWN
    Placeholders,  \* META_PHONE_NUMBER_ID, META_ACCESS_TOKEN
    Graph,         \* META_GRAPH_BASE_URL: "made" is the sink, the rest Meta
    MaxCommands,   \* bound: how often the script is run
    MaxFaults      \* bound: what fails, is interrupted or killed

ASSUME SmokeAssumption ==
    /\ Secrets \cap Placeholders = {}
    /\ Graph \notin Secrets \cup Placeholders
    /\ MaxCommands \in Nat /\ MaxFaults \in Nat

VARIABLES
    original,      \* the .env before the script was ever run
    env, backup,   \* the .env and .env.antes-del-smoke
    sink,          \* is the container of the sink running?
    bot,           \* the environment of the container of the bot
    pc, command,   \* the next step of the script, and its command
    mem,           \* dep.bot_env: the .env as the script knows it
    generados,     \* the secrets that teardown is to keep
    code,          \* how the last command ended, or is going to end
    commands, faults,
    cut            \* ghost: where teardowns have been cut short

script == <<pc, command, mem, generados, code>>
bounds == <<commands, faults>>
vars == <<original, env, backup, sink, bot, script, bounds, cut>>

Keys == Secrets \cup Placeholders \cup {Graph}
Kept == Placeholders \cup {Graph}        \* what teardown does revert
Env == [Keys -> {"empty", "own", "made"}]
NoFile == [k \in {} |-> "empty"]

All == {"all", "all --keep", "all --skip-flow"}
Run == {"run", "run --skip-flow"}
SkipFlow == {"run --skip-flow", "all --skip-flow"}

TypeOK ==
    /\ original \in Env /\ env \in Env /\ bot \in Env /\ mem \in Env
    /\ backup \in Env \cup {NoFile}
    /\ sink \in BOOLEAN
    /\ pc \in {"idle", "rm", "sink", "backup", "fill", "checks",
               "restore", "unlink", "keep", "rm sink"}
    /\ command \in {"setup", "teardown"} \cup Run \cup All
    /\ generados \in [Secrets -> {"empty", "own", "made"}]
    /\ code \in {"ok", "failed", "error", "interrupted", "killed"}
    /\ commands \in 0 .. MaxCommands /\ faults \in 0 .. MaxFaults
    /\ cut \in SUBSET {"rewrite", "recreate"}

Init ==
    /\ original \in [Keys -> {"empty", "own"}]
    /\ env = original /\ bot = original /\ mem = original
    /\ backup = NoFile /\ sink = FALSE
    /\ pc = "idle" /\ command = "setup" /\ code = "ok"
    /\ generados = [k \in Secrets |-> "empty"]
    /\ commands = 0 /\ faults = 0 /\ cut = {}

-----------------------------------------------------------------------------
Fault == faults < MaxFaults /\ faults' = faults + 1

Goto(stage) == pc' = stage /\ UNCHANGED <<command, mem, generados, code>>

Exit(c) == pc' = "idle" /\ code' = c /\ UNCHANGED <<command, mem, generados>>

(* main: Deployment reads the .env; all begins like setup. *)
Invoke(c) ==
    /\ pc = "idle" /\ commands < MaxCommands
    /\ commands' = commands + 1
    /\ command' = c /\ mem' = env /\ code' = "ok"
    /\ \/ c \in Run /\ pc' = "checks"
       \/ c = "teardown" /\ pc' = "restore"
       \/ c \in {"setup"} \cup All /\ pc' = "rm"
    /\ UNCHANGED <<original, env, backup, sink, bot, generados, faults, cut>>

-----------------------------------------------------------------------------
(* cmd_setup. *)

(* docker inspect, which may fail, and docker rm, whose failure is ignored. *)
RemoveOldSink ==
    /\ pc = "rm"
    /\ \/ sink' = FALSE /\ Goto("sink") /\ UNCHANGED faults
       \/ Fault /\ UNCHANGED sink /\ (Goto("sink") \/ Exit("error"))
    /\ UNCHANGED <<original, env, backup, bot, commands, cut>>

(* docker run, and the wait for its /_health. *)
StartSink ==
    /\ pc = "sink"
    /\ \/ ~sink /\ sink' = TRUE /\ Goto("backup") /\ UNCHANGED faults
       \/ sink /\ Exit("error") /\ UNCHANGED <<sink, faults>>
       \/ ~sink /\ Fault /\ sink' \in BOOLEAN /\ Exit("error")
    /\ UNCHANGED <<original, env, backup, bot, commands, cut>>

OverwritesBackup ==                            \* mutant of BackUp
    /\ pc = "backup"
    /\ backup' = env
    /\ Goto("fill")
    /\ UNCHANGED <<original, env, sink, bot, bounds, cut>>

(* A backup that is there already is older, and stays. *)
BackUp ==
    /\ pc = "backup"
    /\ backup' = IF backup = NoFile THEN env ELSE backup
    /\ Goto("fill")
    /\ UNCHANGED <<original, env, sink, bot, bounds, cut>>

(* What setup still has to write, in its order: the secrets and then the   *)
(* placeholders that are empty, and last the address of the sink.          *)
Empty(keys) == {k \in keys : mem[k] = "empty"}
ToFill ==
    IF Empty(Secrets) # {} THEN Empty(Secrets)
    ELSE IF Empty(Placeholders) # {} THEN Empty(Placeholders)
    ELSE {k \in {Graph} : mem[k] # "made"}

SetEnvVar(k) ==
    /\ pc = "fill" /\ k \in ToFill
    /\ env' = [env EXCEPT ![k] = "made"]
    /\ mem' = [mem EXCEPT ![k] = "made"]
    /\ UNCHANGED <<original, backup, sink, bot, pc, command, generados, code, bounds, cut>>

AfterSetup == IF command \in All THEN Goto("checks") ELSE Exit("ok")

(* docker compose up, and the wait for the new container. *)
Repoint ==
    /\ pc = "fill" /\ ToFill = {}
    /\ \/ bot' = env /\ AfterSetup /\ UNCHANGED faults
       \/ Fault /\ bot' \in {bot, env} /\ Exit("error")
    /\ UNCHANGED <<original, env, backup, sink, commands, cut>>

-----------------------------------------------------------------------------
(* cmd_run, as far as it looks at this state: where the bot sends, and that *)
(* its secrets are there and are those that the script signs with.          *)
Checks ==
    /\ \A k \in Secrets : bot[k] # "empty" /\ bot[k] = mem[k]
    /\ IF command \in SkipFlow THEN bot[Graph] # "made" ELSE bot[Graph] = "made"

OnlyIfOk(c) ==                                 \* mutant of AfterChecks: no finally
    /\ code' = c
    /\ pc' = IF command \in All \ {"all --keep"} /\ c = "ok" THEN "restore" ELSE "idle"
    /\ UNCHANGED <<command, mem, generados>>

(* `finally` of all: teardown whatever came out, or --keep. *)
AfterChecks(c) ==
    /\ code' = c
    /\ pc' = IF command \in All \ {"all --keep"} THEN "restore" ELSE "idle"
    /\ UNCHANGED <<command, mem, generados>>

RunChecks ==
    /\ pc = "checks"
    /\ \/ /\ command \notin SkipFlow /\ ~sink
          /\ AfterChecks("error") /\ UNCHANGED faults
       \/ /\ command \in SkipFlow \/ sink
          /\ AfterChecks(IF Checks THEN "ok" ELSE "failed") /\ UNCHANGED faults
       \/ Fault /\ \E c \in {"failed", "error"} : AfterChecks(c)
    /\ UNCHANGED <<original, env, backup, sink, bot, commands, cut>>

-----------------------------------------------------------------------------
(* cmd_teardown. *)

RestoreAnyway ==                               \* mutant of RestoreEnv
    /\ pc = "restore"
    /\ generados' = [k \in Secrets |-> mem[k]]
    /\ env' = backup
    /\ pc' = "unlink"
    /\ UNCHANGED <<original, backup, sink, bot, command, mem, code, bounds, cut>>

RestoreEnv ==
    /\ pc = "restore"
    /\ IF backup = NoFile
       THEN pc' = "rm sink" /\ UNCHANGED <<env, generados>>
       ELSE /\ generados' = [k \in Secrets |-> mem[k]]
            /\ env' = backup
            /\ pc' = "unlink"
    /\ UNCHANGED <<original, backup, sink, bot, command, mem, code, bounds, cut>>

Unlink ==
    /\ pc = "unlink"
    /\ backup' = NoFile
    /\ Goto("keep")
    /\ UNCHANGED <<original, env, sink, bot, bounds, cut>>

KeepsNone == {}                                \* mutant of ToKeep
ToKeep == {k \in Secrets : generados[k] # "empty" /\ env[k] = "empty"}

KeepSecret(k) ==
    /\ pc = "keep" /\ k \in ToKeep
    /\ env' = [env EXCEPT ![k] = generados[k]]
    /\ UNCHANGED <<original, backup, sink, bot, script, bounds, cut>>

(* docker compose up; if it fails, the sink stays. *)
Recreate ==
    /\ pc = "keep" /\ ToKeep = {}
    /\ \/ bot' = env /\ Goto("rm sink") /\ UNCHANGED <<faults, cut>>
       \/ /\ Fault /\ bot' \in {bot, env} /\ Exit("error")
          /\ cut' = cut \cup {"recreate"}
    /\ UNCHANGED <<original, env, backup, sink, commands>>

(* docker rm, whose failure is ignored. *)
RemoveSink ==
    /\ pc = "rm sink"
    /\ \/ sink' = FALSE /\ UNCHANGED faults
       \/ Fault /\ UNCHANGED sink
    /\ Exit(code)
    /\ UNCHANGED <<original, env, backup, bot, commands, cut>>

-----------------------------------------------------------------------------
CutShort ==
    cut' = cut \cup {s \in {"rewrite", "recreate"} :
                       \/ s = "rewrite" /\ (pc = "unlink" \/ (pc = "keep" /\ ToKeep # {}))
                       \/ s = "recreate" /\ pc = "keep" /\ ToKeep = {}}

(* Ctrl-C: only the checks of all are inside the `try` that tears down. *)
Interrupt ==
    /\ pc # "idle" /\ Fault
    /\ IF pc = "checks" THEN AfterChecks("interrupted") ELSE Exit("interrupted")
    /\ CutShort
    /\ UNCHANGED <<original, env, backup, sink, bot, commands>>

(* The session or the machine goes away: no `finally` runs. *)
Kill ==
    /\ pc # "idle" /\ Fault
    /\ Exit("killed")
    /\ CutShort
    /\ UNCHANGED <<original, env, backup, sink, bot, commands>>

Next ==
    \/ \E c \in {"setup", "teardown"} \cup Run \cup All : Invoke(c)
    \/ RemoveOldSink \/ StartSink \/ BackUp \/ Repoint
    \/ \E k \in Keys : SetEnvVar(k) \/ KeepSecret(k)
    \/ RunChecks
    \/ RestoreEnv \/ Unlink \/ Recreate \/ RemoveSink
    \/ Interrupt \/ Kill

Spec == Init /\ [][Next]_vars

-----------------------------------------------------------------------------
(* Wherever the script is cut and however often it is run again, the       *)
(* operator's configuration is in the .env or in its backup, and a secret  *)
(* of theirs never leaves the .env (README of scripts, line 99).           *)
OriginalKept ==
    /\ \A k \in Kept : IF backup = NoFile THEN env[k] = original[k]
                                          ELSE backup[k] = original[k]
    /\ \A k \in Secrets : original[k] = "own" => env[k] = "own"

(* smoke_test.py:65-67, 532-535: a bot that runs with a secret is never    *)
(* recreated without one, unless a teardown was cut between restoring the  *)
(* .env and writing back the secrets: the next one does not know them.     *)
SecretsStay ==
    [][ \A k \in Secrets : bot[k] # "empty" /\ bot'[k] = "empty"
            => "rewrite" \in cut ]_vars

(* smoke_test.py:25, 1090: a teardown that ends well has put back the .env *)
(* and recreated the bot with it; by itself, unless one that was cut after *)
(* it dropped the backup leaves the bot as it was; as the end of `all`,    *)
(* whatever happened before.                                               *)
Reverted ==
    /\ backup = NoFile /\ bot = env
    /\ \A k \in Kept : bot[k] = original[k]

TeardownReverts ==
    pc = "idle" /\ commands > 0 /\ code \in {"ok", "failed"} =>
        /\ command = "teardown" /\ cut = {} => Reverted
        /\ command \in All \ {"all --keep"} => Reverted
=============================================================================
