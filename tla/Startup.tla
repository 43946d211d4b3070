------------------------------ MODULE Startup ------------------------------
(***************************************************************************)
(* From launch to serving: config.py, __main__.py, _init_runtime and the   *)
(* two transports of server.py, init_schemas of storage/db.py; and the     *)
(* health resource, which looks at the databases start-up leaves.          *)
(*                                                                         *)
(* Servers share the two database files.  One of them is the systemd unit, *)
(* which is launched again after it fails; clients launch the others.  A   *)
(* server may be killed at any step, and scout.db may be replaced by an    *)
(* empty file under running servers ("rotated", db.py:11).                 *)
(***************************************************************************)
EXTENDS Naturals, Sequences, Functions

CONSTANTS
    Servers,        \* processes
    Service,        \* the one that is the systemd unit
    Nobody,         \* no process
    Tokens,         \* texts of bearer tokens that are not blank
    PortNumbers,    \* texts that int() reads
    Environments,   \* the environments servers are launched in
    Arguments,      \* the command lines clients use
    MaxKills,       \* bound: kills
    MaxRotations    \* bound: replacements of scout.db

Hosts == {"", "127.0.0.1", "[::1]", "elsewhere"}
Ports == PortNumbers \cup {"", "name"}

NoArguments == [transport |-> "default", token |-> "default",
                host |-> "default", port |-> "default"]

ASSUME ServersAssumption == Service \in Servers /\ Nobody \notin Servers
ASSUME TextsAssumption ==
    /\ Tokens \cap {"", "blank", "unset", "default"} = {}
    /\ PortNumbers \cap {"", "name", "default"} = {}
ASSUME LaunchAssumption ==
    /\ Environments \subseteq [transport : {"stdio", "http"}, token : Tokens \cup {"unset", "blank"},
                               host : Hosts, port : Ports]
    /\ Arguments \subseteq [transport : {"default", "stdio", "http"},
                            token : Tokens \cup {"default", ""},
                            host : Hosts \cup {"default"}, port : Ports \cup {"default"}]
ASSUME BoundsAssumption == MaxKills \in Nat /\ MaxRotations \in Nat

VARIABLES
    objects,    \* tables and indexes of each database file
    lock,       \* who holds the write lock of each
    phase,      \* where each process stands
    at,         \* the next statement of its schema script
    exit,       \* how its last run ended
    server,     \* the settings it runs with
    unitEnv,    \* the environment file of the unit
    rotated,    \* history: scout.db was replaced since it was launched
    kills, rotations,
    asked,      \* the server that is computing scout://health
    counts,     \* what its checks have found
    status,     \* the status it last answered
    held,       \* history: databases whose count could succeed since it was asked
    missed      \* history: those whose count could fail

launchVars == <<phase, at, exit, server, unitEnv>>
fileVars   == <<objects, lock, rotated, rotations>>
healthVars == <<asked, counts, status, held, missed>>
vars       == <<launchVars, fileVars, kills, healthVars>>

Databases == {"scout", "tagged"}

(* The statements of the two scripts; the indexes of one script as one.    *)
Schema == [scout  |-> <<"postings", "scores", "indexes">>,
           tagged |-> <<"tagged_mismatches", "indexes">>]
Counted == [scout |-> "postings", tagged |-> "tagged_mismatches"]

Whole(d) == Range(Schema[d]) \subseteq objects[d]

-----------------------------------------------------------------------------
(* config.py and __main__.py: what a launch comes to.                      *)

AuthToken(env) == IF env.token \in {"unset", "blank"} THEN "" ELSE env.token

BindAccepted(env) == env.host \in {"127.0.0.1", "[::1]"} /\ env.port # ""

SettingsAccepted(env) == BindAccepted(env) /\ (env.transport = "http" => AuthToken(env) # "")

Given(argument, default) == IF argument = "default" THEN default ELSE argument

(* Settings are checked on import, and the port of the environment is read *)
(* whatever the transport and the --port.                                  *)
Refusal(env, args) ==
    IF ~SettingsAccepted(env)
      THEN "ValidationError"
    ELSE IF env.port \notin PortNumbers
      THEN "ValueError"
    ELSE IF \/ args.port \notin PortNumbers \cup {"default"}
            \/ /\ Given(args.transport, env.transport) = "http"
               /\ Given(args.token, AuthToken(env)) = ""
      THEN "SystemExit"
    ELSE "none"

RunWith(env, args) == [transport |-> Given(args.transport, env.transport),
                       host      |-> Given(args.host, env.host),
                       port      |-> Given(args.port, env.port)]

NotRunning == [transport |-> "none", host |-> "", port |-> ""]

Failures == {"ValidationError", "ValueError", "SystemExit", "OperationalError", "OSError",
             "killed"}
Exits    == Failures \cup {"none", "stopped"}
Phases   == {"down", "scout", "tagged", "binding", "serving"}

Unchecked == [scout |-> "pending", tagged |-> "pending", ollama |-> "pending"]

Init ==
    /\ objects   = [d \in Databases |-> {}]
    /\ lock      = [d \in Databases |-> Nobody]
    /\ phase     = [p \in Servers |-> "down"]
    /\ at        = [p \in Servers |-> 1]
    /\ exit      = [p \in Servers |-> "none"]
    /\ server    = [p \in Servers |-> NotRunning]
    /\ unitEnv  \in Environments
    /\ rotated   = [p \in Servers |-> FALSE]
    /\ kills     = 0
    /\ rotations = 0
    /\ asked     = Nobody
    /\ counts    = Unchecked
    /\ status    = "none"
    /\ held      = {}
    /\ missed    = {}

(* The health check of the process that computes it is over.               *)
Forget == asked' = Nobody /\ counts' = Unchecked /\ held' = {} /\ missed' = {}

(* The process ends, and what it was computing with it.                    *)
End(p, how) ==
    /\ phase'  = [phase EXCEPT ![p] = "down"]
    /\ at'     = [at EXCEPT ![p] = 1]
    /\ exit'   = [exit EXCEPT ![p] = how]
    /\ server' = [server EXCEPT ![p] = NotRunning]
    /\ lock'   = [d \in Databases |-> IF lock[d] = p THEN Nobody ELSE lock[d]]
    /\ IF asked = p THEN Forget ELSE UNCHANGED <<asked, counts, held, missed>>
    /\ UNCHANGED <<objects, unitEnv, rotated, rotations, status>>

Launch(p) ==
    /\ phase[p] = "down"
    /\ \E env  \in IF p = Service THEN {unitEnv} ELSE Environments,
          args \in IF p = Service THEN {NoArguments} ELSE Arguments :
         IF Refusal(env, args) = "none"
           THEN /\ phase'  = [phase EXCEPT ![p] = "scout"]
                /\ exit'   = [exit EXCEPT ![p] = "none"]
                /\ server' = [server EXCEPT ![p] = RunWith(env, args)]
           ELSE /\ exit'   = [exit EXCEPT ![p] = Refusal(env, args)]
                /\ UNCHANGED <<phase, server>>
    /\ rotated' = [rotated EXCEPT ![p] = FALSE]
    /\ UNCHANGED <<at, unitEnv, objects, lock, rotations, kills, healthVars>>

-----------------------------------------------------------------------------
(* init_schemas: each statement of a script commits by itself.             *)

Statement(p) == Schema[phase[p]][at[p]]

(* Mutant: one statement too many is taken.                                *)
AdvancePastEnd(p) ==
    IF at[p] <= Len(Schema[phase[p]])
      THEN at' = [at EXCEPT ![p] = @ + 1] /\ UNCHANGED phase
      ELSE /\ at' = [at EXCEPT ![p] = 1]
           /\ phase' = [phase EXCEPT ![p] = IF @ = "scout" THEN "tagged" ELSE "binding"]

Advance(p) ==
    IF at[p] < Len(Schema[phase[p]])
      THEN at' = [at EXCEPT ![p] = @ + 1] /\ UNCHANGED phase
      ELSE /\ at' = [at EXCEPT ![p] = 1]
           /\ phase' = [phase EXCEPT ![p] = IF @ = "scout" THEN "tagged" ELSE "binding"]

Witness == IF asked = Nobody THEN UNCHANGED <<held, missed>>
           ELSE /\ held'   = held   \cup {d \in Databases : Counted[d] \in objects'[d]}
                /\ missed' = missed \cup {d \in Databases : Counted[d] \notin objects'[d]}

(* Mutant: a database that has its first table is taken to be complete.    *)
PresentSkipsScript(p) ==
    /\ phase[p] \in Databases
    /\ Statement(p) \in objects[phase[p]]
    /\ at' = [at EXCEPT ![p] = 1]
    /\ phase' = [phase EXCEPT ![p] = IF @ = "scout" THEN "tagged" ELSE "binding"]
    /\ UNCHANGED <<exit, server, unitEnv, fileVars, kills, healthVars>>

(* Mutant: CREATE without IF NOT EXISTS.                                   *)
PresentRefused(p) ==
    /\ phase[p] \in Databases
    /\ Statement(p) \in objects[phase[p]]
    /\ End(p, "OperationalError")
    /\ UNCHANGED kills

(* IF NOT EXISTS finds the object, and needs no lock to.                   *)
Present(p) ==
    /\ phase[p] \in Databases
    /\ Statement(p) \in objects[phase[p]]
    /\ Advance(p)
    /\ UNCHANGED <<exit, server, unitEnv, fileVars, kills, healthVars>>

BeginCreate(p) ==
    /\ phase[p] \in Databases
    /\ Statement(p) \notin objects[phase[p]]
    /\ lock[phase[p]] = Nobody
    /\ lock' = [lock EXCEPT ![phase[p]] = p]
    /\ UNCHANGED <<launchVars, objects, rotated, rotations, kills, healthVars>>

CommitCreate(p) ==
    /\ phase[p] \in Databases
    /\ lock[phase[p]] = p
    /\ objects' = [objects EXCEPT ![phase[p]] = @ \cup {Statement(p)}]
    /\ lock' = [lock EXCEPT ![phase[p]] = Nobody]
    /\ Advance(p)
    /\ Witness
    /\ UNCHANGED <<exit, server, unitEnv, rotated, rotations, kills, asked, counts, status>>

(* Mutant: a script that could not get the lock is left for the next one.  *)
BusyIgnored(p) ==
    /\ phase[p] \in Databases
    /\ Statement(p) \notin objects[phase[p]]
    /\ lock[phase[p]] \notin {p, Nobody}
    /\ Advance(p)
    /\ UNCHANGED <<exit, server, unitEnv, fileVars, kills, healthVars>>

(* busy_timeout: five seconds without the lock.                            *)
BusyTimeout(p) ==
    /\ phase[p] \in Databases
    /\ Statement(p) \notin objects[phase[p]]
    /\ lock[phase[p]] \notin {p, Nobody}
    /\ End(p, "OperationalError")
    /\ UNCHANGED kills

-----------------------------------------------------------------------------
(* run_stdio and run_http after init_schemas.                              *)

Serves(q, transport, host, port) ==
    phase[q] = "serving" /\ server[q] = [transport |-> transport, host |-> host, port |-> port]

(* main passes the host on with its brackets, which config.py removed to   *)
(* check it; no address has such a name.                                   *)
Bindable(p) ==
    server[p].transport = "http" =>
        /\ server[p].host \notin {"", "[::1]"}
        /\ ~\E q \in Servers : Serves(q, "http", server[p].host, server[p].port)

Bind(p) ==
    /\ phase[p] = "binding"
    /\ IF Bindable(p)
         THEN /\ phase' = [phase EXCEPT ![p] = "serving"]
              /\ UNCHANGED <<at, exit, server, unitEnv, fileVars, healthVars>>
         ELSE End(p, "OSError")
    /\ UNCHANGED kills

(* A client closes stdin, or the operator stops the server.                *)
Stop(p) ==
    /\ phase[p] = "serving"
    /\ End(p, "stopped")
    /\ UNCHANGED kills

Kill(p) ==
    /\ phase[p] # "down"
    /\ kills < MaxKills
    /\ kills' = kills + 1
    /\ End(p, "killed")

(* scout.db is replaced by an empty file, while no process is creating its *)
(* tables (else they would go to the file that was moved away).            *)
Rotate ==
    /\ rotations < MaxRotations
    /\ \A p \in Servers : phase[p] # "scout"
    /\ objects' = [objects EXCEPT !["scout"] = {}]
    /\ rotated' = [p \in Servers |-> phase[p] # "down"]
    /\ rotations' = rotations + 1
    /\ UNCHANGED asked
    /\ Witness
    /\ UNCHANGED <<launchVars, lock, kills, counts, status>>

-----------------------------------------------------------------------------
(* get_health: the probe of Ollama beside the counts, scout.db first.      *)

AskHealth(p) ==
    /\ phase[p] = "serving"
    /\ asked = Nobody
    /\ asked' = p
    /\ status' = "none"
    /\ held'   = {d \in Databases : Counted[d] \in objects[d]}
    /\ missed' = {d \in Databases : Counted[d] \notin objects[d]}
    /\ UNCHANGED <<launchVars, fileVars, kills, counts>>

Count(d) ==
    /\ asked # Nobody
    /\ counts[d] = "pending"
    /\ d = "tagged" => counts["scout"] # "pending"
    /\ counts' = [counts EXCEPT ![d] = IF Counted[d] \in objects[d] THEN "ok" ELSE "error"]
    /\ UNCHANGED <<launchVars, fileVars, kills, asked, status, held, missed>>

(* Any answer, or none in two seconds.                                     *)
CheckOllama ==
    /\ asked # Nobody
    /\ counts["ollama"] = "pending"
    /\ \E found \in {"ok", "error"} : counts' = [counts EXCEPT !["ollama"] = found]
    /\ UNCHANGED <<launchVars, fileVars, kills, asked, status, held, missed>>

(* Mutant: `sqlite_ok' looks at one of the two flags.                      *)
AnswerTaggedOnly ==
    /\ asked # Nobody
    /\ \A check \in DOMAIN counts : counts[check] # "pending"
    /\ status' = IF counts["tagged"] = "ok" /\ counts["ollama"] = "ok" THEN "ok" ELSE "degraded"
    /\ Forget
    /\ UNCHANGED <<launchVars, fileVars, kills>>

AnswerHealth ==
    /\ asked # Nobody
    /\ \A check \in DOMAIN counts : counts[check] # "pending"
    /\ status' = IF \A check \in DOMAIN counts : counts[check] = "ok" THEN "ok" ELSE "degraded"
    /\ Forget
    /\ UNCHANGED <<launchVars, fileVars, kills>>

-----------------------------------------------------------------------------
StartupStep(p) == \/ Present(p)
                  \/ BeginCreate(p)
                  \/ CommitCreate(p)
                  \/ BusyTimeout(p)
                  \/ Bind(p)

Health == \/ \E p \in Servers : AskHealth(p)
          \/ \E d \in Databases : Count(d)
          \/ CheckOllama
          \/ AnswerHealth

Next == \/ \E p \in Servers : Launch(p) \/ StartupStep(p) \/ Stop(p) \/ Kill(p)
        \/ Rotate
        \/ Health

Spec == Init /\ [][Next]_vars

Failed(p) == phase[p] = "down" /\ exit[p] \in Failures

(* Restart=on-failure of the unit.                                         *)
Restart == Failed(Service) /\ Launch(Service)

FairSpec == /\ Spec
            /\ \A p \in Servers : WF_vars(StartupStep(p))
            /\ WF_vars(Restart)

-----------------------------------------------------------------------------
StartupTypeOK ==
    /\ objects   \in [Databases -> SUBSET (Range(Schema["scout"]) \cup Range(Schema["tagged"]))]
    /\ lock      \in [Databases -> Servers \cup {Nobody}]
    /\ phase     \in [Servers -> Phases]
    /\ at        \in [Servers -> 1..3]
    /\ exit      \in [Servers -> Exits]
    /\ server    \in [Servers -> [transport : {"none", "stdio", "http"}, host : Hosts, port : Ports]]
    /\ unitEnv   \in Environments
    /\ rotated   \in [Servers -> BOOLEAN]
    /\ kills     \in 0..MaxKills
    /\ rotations \in 0..MaxRotations
    /\ asked     \in Servers \cup {Nobody}
    /\ counts    \in [{"scout", "tagged", "ollama"} -> {"pending", "ok", "error"}]
    /\ status    \in {"none", "ok", "degraded"}
    /\ held \subseteq Databases /\ missed \subseteq Databases

(* A server that serves finds every table and index it was written for,    *)
(* whoever else was starting, failing or killed in the middle of a script  *)
(* (server.py:25-27); only a scout.db that was replaced under it lacks     *)
(* them, until some server is launched.                                    *)
ServesWithSchema ==
    \A p \in Servers : phase[p] = "serving" => Whole("tagged") /\ (Whole("scout") \/ rotated[p])

(* "ok" is answered only if each database could be read at some time while *)
(* the answer was being made, "degraded" with Ollama up only if one could  *)
(* not (health.py:78-82).                                                  *)
HealthHonest ==
    [][/\ status = "none" /\ status' = "ok" => held = Databases
       /\ status = "none" /\ status' = "degraded" /\ counts["ollama"] = "ok" => missed # {}
      ]_vars

(* What carries these from step to step: a process in a script has what    *)
(* the statements behind it create, one that is past a script has all of   *)
(* it, and a check's finding was true when it was made.                    *)
Scripted ==
    \A p \in Servers :
        /\ phase[p] \notin Databases => at[p] = 1
        /\ phase[p] \in Databases =>
             /\ at[p] \in 1..Len(Schema[phase[p]])
             /\ \A i \in 1..(at[p] - 1) : Schema[phase[p]][i] \in objects[phase[p]]

SchemaLeft ==
    \A p \in Servers :
        /\ phase[p] \in {"tagged", "binding", "serving"} => Whole("scout") \/ rotated[p]
        /\ phase[p] \in {"binding", "serving"} => Whole("tagged")

Witnessed ==
    IF asked = Nobody THEN counts = Unchecked
    ELSE \A d \in Databases :
            /\ Counted[d] \in objects[d] => d \in held
            /\ Counted[d] \notin objects[d] => d \in missed
            /\ counts[d] = "ok" => d \in held
            /\ counts[d] = "error" => d \in missed

StartupInv == StartupTypeOK /\ Scripted /\ SchemaLeft /\ Witnessed

(* Once the unit's settings are ones a server can serve with, the unit is  *)
(* serving again after every failure, however its start-ups and those of   *)
(* clients are cut off or get in each other's way, unless it is stopped or *)
(* another server has its address.                                         *)
Servable == /\ Refusal(unitEnv, NoArguments) = "none"
            /\ unitEnv.transport = "http" => unitEnv.host # "[::1]"

AddressTaken == \E q \in Servers \ {Service} : Serves(q, "http", unitEnv.host, unitEnv.port)

ServiceRecovers ==
    (Failed(Service) /\ Servable) ~> \/ phase[Service] = "serving"
                                     \/ exit[Service] = "stopped"
                                     \/ AddressTaken
=============================================================================
