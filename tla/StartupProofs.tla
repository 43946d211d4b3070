--------------------------- MODULE StartupProofs ---------------------------
(***************************************************************************)
(* For any number of servers, environments and command lines, and any      *)
(* number of kills and replacements of scout.db: a server that serves has  *)
(* its schema, and health answers are true.                                *)
(***************************************************************************)
EXTENDS Startup, TLAPS

(* The two scripts, statement by statement.                                *)
LEMMA Scripts ==
    /\ Len(Schema["scout"]) = 3 /\ Len(Schema["tagged"]) = 2
    /\ Schema["scout"][1] = "postings" /\ Schema["scout"][2] = "scores"
    /\ Schema["scout"][3] = "indexes"
    /\ Schema["tagged"][1] = "tagged_mismatches" /\ Schema["tagged"][2] = "indexes"
    /\ Range(Schema["scout"]) = {"postings", "scores", "indexes"}
    /\ Range(Schema["tagged"]) = {"tagged_mismatches", "indexes"}
    /\ Counted["scout"] = "postings" /\ Counted["tagged"] = "tagged_mismatches"
  <1>1. Schema["scout"] = <<"postings", "scores", "indexes">>
    BY DEF Schema
  <1>2. Schema["tagged"] = <<"tagged_mismatches", "indexes">>
    BY DEF Schema
  <1>3. DOMAIN Schema["scout"] = {1, 2, 3} /\ DOMAIN Schema["tagged"] = {1, 2}
    BY <1>1, <1>2
  <1>4. Range(Schema["scout"]) = {"postings", "scores", "indexes"}
    BY <1>1, <1>3 DEF Range
  <1>5. Range(Schema["tagged"]) = {"tagged_mismatches", "indexes"}
    BY <1>2, <1>3 DEF Range
  <1>6. QED
    BY <1>1, <1>2, <1>4, <1>5 DEF Counted

(* What a launch that is not refused runs with.                            *)
LEMMA RunTypes ==
    ASSUME NEW env \in Environments, NEW args \in Arguments \cup {NoArguments},
           Refusal(env, args) = "none"
    PROVE  RunWith(env, args) \in [transport : {"none", "stdio", "http"}, host : Hosts, port : Ports]
  <1>1. /\ env.transport \in {"stdio", "http"} /\ env.host \in Hosts /\ env.port \in Ports
        /\ args.transport \in {"default", "stdio", "http"}
        /\ args.host \in Hosts \cup {"default"} /\ args.port \in Ports \cup {"default"}
    <2>1. env \in [transport : {"stdio", "http"}, token : Tokens \cup {"unset", "blank"},
                   host : Hosts, port : Ports]
      BY LaunchAssumption
    <2>2. CASE args \in Arguments
      <3>1. args \in [transport : {"default", "stdio", "http"}, token : Tokens \cup {"default", ""},
                      host : Hosts \cup {"default"}, port : Ports \cup {"default"}]
        BY <2>2, LaunchAssumption
      <3>2. QED
        BY <2>1, <3>1
    <2>3. CASE args = NoArguments
      BY <2>1, <2>3 DEF NoArguments
    <2>4. QED
      BY <2>2, <2>3
  <1>2. /\ Given(args.transport, env.transport) \in {"stdio", "http"}
        /\ Given(args.host, env.host) \in Hosts /\ Given(args.port, env.port) \in Ports
    BY <1>1 DEF Given
  <1>3. QED
    BY <1>2 DEF RunWith

LEMMA InitInv == Init => StartupInv
  <1> SUFFICES ASSUME Init PROVE StartupInv
    OBVIOUS
  <1>1. StartupTypeOK
    <2>1. NotRunning \in [transport : {"none", "stdio", "http"}, host : Hosts, port : Ports]
      BY DEF NotRunning, Hosts, Ports
    <2>2. server \in [Servers -> [transport : {"none", "stdio", "http"}, host : Hosts, port : Ports]]
      BY <2>1 DEF Init
    <2>3. /\ phase \in [Servers -> Phases] /\ exit \in [Servers -> Exits]
          /\ at \in [Servers -> 1..3] /\ rotated \in [Servers -> BOOLEAN]
          /\ unitEnv \in Environments /\ asked \in Servers \cup {Nobody}
          /\ status \in {"none", "ok", "degraded"}
          /\ held \subseteq Databases /\ missed \subseteq Databases
      BY DEF Init, Phases, Exits
    <2>4. /\ objects \in [Databases -> SUBSET (Range(Schema["scout"]) \cup Range(Schema["tagged"]))]
          /\ lock \in [Databases -> Servers \cup {Nobody}]
      BY DEF Init
    <2>5. counts \in [{"scout", "tagged", "ollama"} -> {"pending", "ok", "error"}]
      BY DEF Init, Unchecked
    <2>6. kills \in 0..MaxKills /\ rotations \in 0..MaxRotations
      BY BoundsAssumption DEF Init
    <2>7. QED
      BY <2>2, <2>3, <2>4, <2>5, <2>6 DEF StartupTypeOK
  <1>2. Scripted /\ SchemaLeft /\ Witnessed
    BY DEF Init, Scripted, SchemaLeft, Witnessed, Databases
  <1>3. QED
    BY <1>1, <1>2 DEF StartupInv

(* How far a step of a script takes its process.                           *)
LEMMA Advances ==
    ASSUME StartupInv, NEW p \in Servers, phase[p] \in Databases, Advance(p)
    PROVE  \/ /\ at[p] < Len(Schema[phase[p]])
              /\ at' = [at EXCEPT ![p] = at[p] + 1] /\ phase' = phase
           \/ /\ at[p] = Len(Schema[phase[p]])
              /\ at' = [at EXCEPT ![p] = 1]
              /\ \/ phase[p] = "scout"  /\ phase' = [phase EXCEPT ![p] = "tagged"]
                 \/ phase[p] = "tagged" /\ phase' = [phase EXCEPT ![p] = "binding"]
  <1>1. at[p] \in 1..Len(Schema[phase[p]])
    BY DEF StartupInv, Scripted
  <1>2. Len(Schema[phase[p]]) \in Nat
    BY Scripts DEF Databases
  <1>3. phase[p] = "scout" \/ phase[p] = "tagged"
    BY DEF Databases
  <1>4. p \in DOMAIN phase
    BY DEF StartupInv, StartupTypeOK
  <1>5. CASE at[p] < Len(Schema[phase[p]])
    BY <1>5 DEF Advance
  <1>6. CASE ~(at[p] < Len(Schema[phase[p]]))
    <2>1. at[p] = Len(Schema[phase[p]])
      BY <1>1, <1>2, <1>6
    <2>2. /\ at' = [at EXCEPT ![p] = 1]
          /\ phase' = [phase EXCEPT ![p] = IF phase[p] = "scout" THEN "tagged" ELSE "binding"]
      BY <1>6 DEF Advance
    <2>3. QED
      BY <1>3, <2>1, <2>2
  <1>7. QED
    BY <1>5, <1>6

(* A statement of either script is a table or index of a schema.           *)
LEMMA StatementNamed ==
    ASSUME StartupInv, NEW p \in Servers, phase[p] \in Databases
    PROVE  Statement(p) \in Range(Schema["scout"]) \cup Range(Schema["tagged"])
  <1>1. at[p] \in 1..Len(Schema[phase[p]])
    BY DEF StartupInv, Scripted
  <1>2. CASE phase[p] = "scout"
    <2>1. at[p] = 1 \/ at[p] = 2 \/ at[p] = 3
      BY <1>1, <1>2, Scripts
    <2>2. QED
      BY <1>2, <2>1, Scripts DEF Statement
  <1>3. CASE phase[p] = "tagged"
    <2>1. at[p] = 1 \/ at[p] = 2
      BY <1>1, <1>3, Scripts
    <2>2. QED
      BY <1>3, <2>1, Scripts DEF Statement
  <1>4. QED
    BY <1>2, <1>3 DEF Databases

LEMMA AdvanceTypes ==
    ASSUME StartupInv, NEW p \in Servers, phase[p] \in Databases, Advance(p)
    PROVE  at' \in [Servers -> 1..3] /\ phase' \in [Servers -> Phases]
  <1>1. at \in [Servers -> 1..3] /\ phase \in [Servers -> Phases]
    BY DEF StartupInv, StartupTypeOK
  <1>2. CASE at[p] < Len(Schema[phase[p]]) /\ at' = [at EXCEPT ![p] = at[p] + 1] /\ phase' = phase
    <2>1. at[p] + 1 \in 1..3
      <3>1. at[p] < Len(Schema[phase[p]])
        BY <1>2
      <3>1a. at[p] < 3 \/ at[p] < 2
        BY <3>1, Scripts DEF Databases
      <3>2. at[p] \in 1..3
        BY <1>1
      <3>3. at[p] < 3
        BY <3>1a, <3>2
      <3>4. QED
        BY <3>2, <3>3
    <2>2. QED
      BY <1>1, <1>2, <2>1
  <1>3. CASE /\ at' = [at EXCEPT ![p] = 1]
             /\ \/ phase' = [phase EXCEPT ![p] = "tagged"]
                \/ phase' = [phase EXCEPT ![p] = "binding"]
    BY <1>1, <1>3 DEF Phases
  <1>4. QED
    BY <1>2, <1>3, Advances

LEMMA EndTypes ==
    ASSUME StartupInv, NEW p \in Servers, NEW how \in Exits, End(p, how), kills' \in 0..MaxKills
    PROVE  StartupTypeOK'
  <1>1. StartupTypeOK
    BY DEF StartupInv
  <1>2. phase' \in [Servers -> Phases] /\ at' \in [Servers -> 1..3] /\ exit' \in [Servers -> Exits]
    BY <1>1 DEF End, StartupTypeOK, Phases
  <1>3. server' \in [Servers -> [transport : {"none", "stdio", "http"}, host : Hosts, port : Ports]]
    <2>1. NotRunning \in [transport : {"none", "stdio", "http"}, host : Hosts, port : Ports]
      BY DEF NotRunning, Hosts, Ports
    <2>2. QED
      BY <1>1, <2>1 DEF End, StartupTypeOK
  <1>4. lock' \in [Databases -> Servers \cup {Nobody}]
    BY <1>1 DEF End, StartupTypeOK
  <1>5. /\ asked' \in Servers \cup {Nobody}
        /\ counts' \in [{"scout", "tagged", "ollama"} -> {"pending", "ok", "error"}]
        /\ held' \subseteq Databases /\ missed' \subseteq Databases
    <2>1. CASE asked = p
      BY <2>1 DEF End, Forget, Unchecked
    <2>2. CASE asked # p
      BY <1>1, <2>2 DEF End, StartupTypeOK
    <2>3. QED
      BY <2>1, <2>2
  <1>6. UNCHANGED <<objects, unitEnv, rotated, rotations, status>>
    BY DEF End
  <1>7. QED
    BY <1>1, <1>2, <1>3, <1>4, <1>5, <1>6 DEF StartupTypeOK

LEMMA WitnessTypes ==
    ASSUME StartupInv, Witness
    PROVE  held' \subseteq Databases /\ missed' \subseteq Databases
  BY DEF StartupInv, StartupTypeOK, Witness

LEMMA LaunchTypes == ASSUME StartupInv, NEW p \in Servers, Launch(p) PROVE StartupTypeOK'
  <1>0. StartupTypeOK
    BY DEF StartupInv
  <1>1. UNCHANGED <<at, unitEnv, objects, lock, rotations, kills, asked, counts, status, held, missed>>
    BY DEF Launch, healthVars
  <1>2. rotated' \in [Servers -> BOOLEAN]
    BY <1>0 DEF Launch, StartupTypeOK
  <1>3. PICK env  \in IF p = Service THEN {unitEnv} ELSE Environments,
             args \in IF p = Service THEN {NoArguments} ELSE Arguments :
           IF Refusal(env, args) = "none"
             THEN /\ phase'  = [phase EXCEPT ![p] = "scout"]
                  /\ exit'   = [exit EXCEPT ![p] = "none"]
                  /\ server' = [server EXCEPT ![p] = RunWith(env, args)]
             ELSE /\ exit'   = [exit EXCEPT ![p] = Refusal(env, args)]
                  /\ UNCHANGED <<phase, server>>
    BY DEF Launch
  <1>4. env \in Environments /\ args \in Arguments \cup {NoArguments}
    BY <1>0, <1>3 DEF StartupTypeOK
  <1>5. /\ phase' \in [Servers -> Phases] /\ exit' \in [Servers -> Exits]
        /\ server' \in [Servers -> [transport : {"none", "stdio", "http"}, host : Hosts, port : Ports]]
    <2>1. CASE Refusal(env, args) = "none"
      <3>1. RunWith(env, args) \in [transport : {"none", "stdio", "http"}, host : Hosts, port : Ports]
        BY <1>4, <2>1, RunTypes
      <3>2. QED
        BY <1>0, <1>3, <2>1, <3>1 DEF StartupTypeOK, Phases, Exits
    <2>2. CASE Refusal(env, args) # "none"
      <3>1. Refusal(env, args) \in Exits
        BY DEF Refusal, Exits, Failures
      <3>2. QED
        BY <1>0, <1>3, <2>2, <3>1 DEF StartupTypeOK
    <2>3. QED
      BY <2>1, <2>2
  <1>6. QED
    BY <1>0, <1>1, <1>2, <1>5 DEF StartupTypeOK

LEMMA TypesStep == StartupInv /\ [Next]_vars => StartupTypeOK'
  <1> SUFFICES ASSUME StartupInv, [Next]_vars PROVE StartupTypeOK'
    OBVIOUS
  <1> USE DEF launchVars, fileVars, healthVars
  <1>0. StartupTypeOK
    BY DEF StartupInv
  <1>00. kills \in 0..MaxKills
    BY <1>0 DEF StartupTypeOK
  <1>1. ASSUME NEW p \in Servers, Launch(p) PROVE StartupTypeOK'
    BY <1>1, LaunchTypes
  <1>2. ASSUME NEW p \in Servers, Present(p) PROVE StartupTypeOK'
    <2>1. at' \in [Servers -> 1..3] /\ phase' \in [Servers -> Phases]
      BY <1>2, AdvanceTypes DEF Present
    <2>2. QED
      BY <1>0, <1>2, <2>1 DEF Present, StartupTypeOK
  <1>3. ASSUME NEW p \in Servers, BeginCreate(p) PROVE StartupTypeOK'
    <2>1. lock' \in [Databases -> Servers \cup {Nobody}]
      BY <1>0, <1>3 DEF BeginCreate, StartupTypeOK
    <2>2. QED
      BY <1>0, <1>3, <2>1 DEF BeginCreate, StartupTypeOK
  <1>4. ASSUME NEW p \in Servers, CommitCreate(p) PROVE StartupTypeOK'
    <2>1. at' \in [Servers -> 1..3] /\ phase' \in [Servers -> Phases]
      BY <1>4, AdvanceTypes DEF CommitCreate
    <2>2. held' \subseteq Databases /\ missed' \subseteq Databases
      BY <1>4, WitnessTypes DEF CommitCreate
    <2>3. objects' \in [Databases -> SUBSET (Range(Schema["scout"]) \cup Range(Schema["tagged"]))]
      <3>1. Statement(p) \in Range(Schema["scout"]) \cup Range(Schema["tagged"])
        BY <1>4, StatementNamed DEF CommitCreate
      <3>2. QED
        BY <1>0, <1>4, <3>1 DEF CommitCreate, StartupTypeOK
    <2>4. lock' \in [Databases -> Servers \cup {Nobody}]
      BY <1>0, <1>4 DEF CommitCreate, StartupTypeOK
    <2>5. QED
      BY <1>0, <1>4, <2>1, <2>2, <2>3, <2>4 DEF CommitCreate, StartupTypeOK
  <1>5. ASSUME NEW p \in Servers, BusyTimeout(p) PROVE StartupTypeOK'
    <2>1. "OperationalError" \in Exits
      BY DEF Exits, Failures
    <2>2. QED
      BY <1>00, <1>5, <2>1, EndTypes DEF BusyTimeout
  <1>6. ASSUME NEW p \in Servers, Bind(p) PROVE StartupTypeOK'
    <2>1. CASE Bindable(p)
      <3>1. phase' \in [Servers -> Phases]
        BY <1>0, <1>6, <2>1 DEF Bind, StartupTypeOK, Phases
      <3>2. QED
        BY <1>0, <1>6, <2>1, <3>1 DEF Bind, StartupTypeOK
    <2>2. CASE ~Bindable(p)
      <3>1. "OSError" \in Exits
        BY DEF Exits, Failures
      <3>2. QED
        BY <1>00, <1>6, <2>2, <3>1, EndTypes DEF Bind
    <2>3. QED
      BY <2>1, <2>2
  <1>7. ASSUME NEW p \in Servers, Stop(p) PROVE StartupTypeOK'
    <2>1. "stopped" \in Exits
      BY DEF Exits
    <2>2. QED
      BY <1>00, <1>7, <2>1, EndTypes DEF Stop
  <1>8. ASSUME NEW p \in Servers, Kill(p) PROVE StartupTypeOK'
    <2>1. "killed" \in Exits
      BY DEF Exits, Failures
    <2>2. kills' \in 0..MaxKills
      BY <1>00, <1>8, BoundsAssumption DEF Kill
    <2>3. QED
      BY <1>8, <2>1, <2>2, EndTypes DEF Kill
  <1>9. CASE Rotate
    <2>1. held' \subseteq Databases /\ missed' \subseteq Databases
      BY <1>9, WitnessTypes DEF Rotate
    <2>2. rotations' \in 0..MaxRotations
      BY <1>0, <1>9, BoundsAssumption DEF Rotate, StartupTypeOK
    <2>3. /\ objects' \in [Databases -> SUBSET (Range(Schema["scout"]) \cup Range(Schema["tagged"]))]
          /\ rotated' \in [Servers -> BOOLEAN]
      BY <1>0, <1>9 DEF Rotate, StartupTypeOK
    <2>4. QED
      BY <1>0, <1>9, <2>1, <2>2, <2>3 DEF Rotate, StartupTypeOK
  <1>10. ASSUME NEW p \in Servers, AskHealth(p) PROVE StartupTypeOK'
    BY <1>0, <1>10 DEF AskHealth, StartupTypeOK
  <1>11. ASSUME NEW d \in Databases, Count(d) PROVE StartupTypeOK'
    <2>1. counts' \in [{"scout", "tagged", "ollama"} -> {"pending", "ok", "error"}]
      BY <1>0, <1>11 DEF Count, StartupTypeOK
    <2>2. QED
      BY <1>0, <1>11, <2>1 DEF Count, StartupTypeOK
  <1>12. CASE CheckOllama
    <2>1. counts' \in [{"scout", "tagged", "ollama"} -> {"pending", "ok", "error"}]
      BY <1>0, <1>12 DEF CheckOllama, StartupTypeOK
    <2>2. QED
      BY <1>0, <1>12, <2>1 DEF CheckOllama, StartupTypeOK
  <1>13. CASE AnswerHealth
    <2>1. counts' \in [{"scout", "tagged", "ollama"} -> {"pending", "ok", "error"}]
      BY <1>13 DEF AnswerHealth, Forget, Unchecked
    <2>2. asked' = Nobody /\ held' = {} /\ missed' = {} /\ status' \in {"ok", "degraded"}
      BY <1>13 DEF AnswerHealth, Forget
    <2>3. QED
      BY <1>0, <1>13, <2>1, <2>2 DEF AnswerHealth, StartupTypeOK
  <1>14. CASE UNCHANGED vars
    BY <1>0, <1>14 DEF vars, StartupTypeOK
  <1>15. QED
    BY <1>1, <1>2, <1>3, <1>4, <1>5, <1>6, <1>7, <1>8, <1>9, <1>10, <1>11, <1>12, <1>13, <1>14
       DEF Next, StartupStep, Health

(* No object disappears but from a scout.db that is replaced.              *)
LEMMA ObjectsStay ==
    ASSUME StartupInv, [Next]_vars, NEW d \in Databases, d = "tagged" \/ ~Rotate
    PROVE  objects[d] \subseteq objects'[d]
  <1> USE DEF launchVars, fileVars, healthVars
  <1>1. ASSUME NEW p \in Servers, CommitCreate(p) PROVE objects[d] \subseteq objects'[d]
    BY <1>1 DEF CommitCreate, StartupInv, StartupTypeOK
  <1>2. ASSUME NEW p \in Servers, BusyTimeout(p) \/ Bind(p) \/ Stop(p) \/ Kill(p)
        PROVE  UNCHANGED objects
    BY <1>2 DEF BusyTimeout, Bind, Stop, Kill, End
  <1>3. ASSUME NEW p \in Servers, Launch(p) \/ Present(p) \/ BeginCreate(p) \/ AskHealth(p)
        PROVE  UNCHANGED objects
    BY <1>3 DEF Launch, Present, BeginCreate, AskHealth
  <1>4. ASSUME NEW c \in Databases, Count(c) PROVE UNCHANGED objects
    BY <1>4 DEF Count
  <1>5. CASE CheckOllama \/ AnswerHealth \/ UNCHANGED vars
    BY <1>5 DEF CheckOllama, AnswerHealth, vars
  <1>6. CASE Rotate
    BY <1>6 DEF Rotate, StartupInv, StartupTypeOK
  <1>7. QED
    BY <1>1, <1>2, <1>3, <1>4, <1>5, <1>6 DEF Next, StartupStep, Health

(* What the invariant says of one process.                                 *)
Progressing(q) ==
    /\ phase[q] \notin Databases => at[q] = 1
    /\ phase[q] \in Databases =>
         /\ at[q] \in 1..Len(Schema[phase[q]])
         /\ \A i \in 1..(at[q] - 1) : Schema[phase[q]][i] \in objects[phase[q]]
    /\ phase[q] \in {"tagged", "binding", "serving"} => Whole("scout") \/ rotated[q]
    /\ phase[q] \in {"binding", "serving"} => Whole("tagged")

LEMMA AllProgress == Scripted /\ SchemaLeft <=> \A q \in Servers : Progressing(q)
  BY DEF Scripted, SchemaLeft, Progressing

(* A process that stays where it is keeps what it has.                     *)
LEMMA StandsStill ==
    ASSUME StartupInv, [Next]_vars, NEW q \in Servers,
           phase'[q] = phase[q], at'[q] = at[q], rotated'[q] = rotated[q] \/ rotated'[q] = TRUE,
           ~Rotate
    PROVE  Progressing(q)'
  <1>1. Progressing(q)
    BY AllProgress DEF StartupInv
  <1>2. \A d \in Databases : objects[d] \subseteq objects'[d]
    BY ObjectsStay
  <1>3. "scout" \in Databases /\ "tagged" \in Databases
    BY DEF Databases
  <1>4. (Whole("scout") => Whole("scout")') /\ (Whole("tagged") => Whole("tagged")')
    BY <1>2, <1>3 DEF Whole
  <1>5. phase[q] \in Databases =>
          \A i \in 1..(at[q] - 1) : Schema[phase[q]][i] \in objects'[phase[q]]
    BY <1>1, <1>2 DEF Progressing
  <1>6. QED
    BY <1>1, <1>4, <1>5 DEF Progressing

(* A process that ends has nothing left to keep.                           *)
LEMMA EndProgress ==
    ASSUME StartupInv, NEW q \in Servers, phase'[q] = "down", at'[q] = 1
    PROVE  Progressing(q)'
  BY DEF Progressing, Databases

(* The statement p was at exists when it takes the next.                   *)
LEMMA AdvanceProgress ==
    ASSUME StartupInv, [Next]_vars, ~Rotate, NEW p \in Servers, phase[p] \in Databases,
           Advance(p), Statement(p) \in objects'[phase[p]], rotated' = rotated
    PROVE  Progressing(p)'
  <1>1. Progressing(p) /\ at \in [Servers -> 1..3] /\ phase \in [Servers -> Phases]
    BY AllProgress DEF StartupInv, StartupTypeOK
  <1>2. \A d \in Databases : objects[d] \subseteq objects'[d]
    BY ObjectsStay
  <1>3. \A i \in 1..at[p] : Schema[phase[p]][i] \in objects'[phase[p]]
    <2>1. ASSUME NEW i \in 1..at[p] PROVE Schema[phase[p]][i] \in objects'[phase[p]]
      <3>1. CASE i = at[p]
        BY <3>1 DEF Statement
      <3>2. CASE i # at[p]
        <4>1. i \in 1..(at[p] - 1)
          BY <1>1, <3>2
        <4>2. QED
          BY <1>1, <1>2, <4>1 DEF Progressing
      <3>3. QED
        BY <3>1, <3>2
    <2>2. QED
      BY <2>1
  <1>4. CASE /\ at[p] < Len(Schema[phase[p]])
             /\ at' = [at EXCEPT ![p] = at[p] + 1] /\ phase' = phase
    <2>1. at'[p] = at[p] + 1 /\ phase'[p] = phase[p]
      BY <1>1, <1>4
    <2>2. at[p] + 1 \in 1..Len(Schema[phase[p]]) /\ (at[p] + 1) - 1 = at[p]
      <3>1. Len(Schema[phase[p]]) \in Nat /\ at[p] \in Nat /\ at[p] < Len(Schema[phase[p]])
        BY <1>1, <1>4, Scripts DEF Databases
      <3>2. QED
        BY <3>1
    <2>3. "scout" \in Databases /\ "tagged" \in Databases
      BY DEF Databases
    <2>4. Whole("scout") => Whole("scout")'
      BY <1>2, <2>3 DEF Whole
    <2>5. phase[p] = "scout" \/ phase[p] = "tagged"
      BY DEF Databases
    <2>6. \A i \in 1..(at'[p] - 1) : Schema[phase'[p]][i] \in objects'[phase'[p]]
      BY <1>3, <2>1, <2>2
    <2>7. at'[p] \in 1..Len(Schema[phase'[p]])
      BY <2>1, <2>2
    <2>8. phase[p] = "tagged" => Whole("scout")' \/ rotated'[p]
      BY <1>1, <2>4 DEF Progressing
    <2>9. QED
      BY <2>1, <2>5, <2>6, <2>7, <2>8 DEF Progressing, Databases
  <1>5. CASE /\ at[p] = 3 /\ at' = [at EXCEPT ![p] = 1]
             /\ phase[p] = "scout" /\ phase' = [phase EXCEPT ![p] = "tagged"]
    <2>1. at'[p] = 1 /\ phase'[p] = "tagged"
      BY <1>1, <1>5
    <2>2. {"postings", "scores", "indexes"} \subseteq objects'["scout"]
      <3>1. 1 \in 1..at[p] /\ 2 \in 1..at[p] /\ 3 \in 1..at[p]
        BY <1>5
      <3>2. QED
        BY <1>3, <1>5, <3>1, Scripts
    <2>3. Whole("scout")'
      BY <2>2, Scripts DEF Whole
    <2>4. 1 \in 1..Len(Schema["tagged"]) /\ 1..(1 - 1) = {}
      BY Scripts
    <2>5. QED
      BY <2>1, <2>3, <2>4 DEF Progressing, Databases
  <1>6. CASE /\ at[p] = 2 /\ at' = [at EXCEPT ![p] = 1]
             /\ phase[p] = "tagged" /\ phase' = [phase EXCEPT ![p] = "binding"]
    <2>1. at'[p] = 1 /\ phase'[p] = "binding"
      BY <1>1, <1>6
    <2>2. {"tagged_mismatches", "indexes"} \subseteq objects'["tagged"]
      <3>1. 1 \in 1..at[p] /\ 2 \in 1..at[p]
        BY <1>6
      <3>2. QED
        BY <1>3, <1>6, <3>1, Scripts
    <2>3. Whole("tagged")'
      BY <2>2, Scripts DEF Whole
    <2>4. Whole("scout")' \/ rotated'[p]
      BY <1>1, <1>2, <1>6 DEF Progressing, Whole, Databases
    <2>5. QED
      BY <2>1, <2>3, <2>4 DEF Progressing, Databases
  <1>7. CASE /\ at[p] = Len(Schema[phase[p]])
             /\ at' = [at EXCEPT ![p] = 1]
             /\ \/ phase[p] = "scout"  /\ phase' = [phase EXCEPT ![p] = "tagged"]
                \/ phase[p] = "tagged" /\ phase' = [phase EXCEPT ![p] = "binding"]
    <2>1. CASE phase[p] = "scout"
      <3>1. at[p] = 3
        BY <1>7, <2>1, Scripts
      <3>2. QED
        BY <1>5, <1>7, <2>1, <3>1
    <2>2. CASE phase[p] = "tagged"
      <3>1. at[p] = 2
        BY <1>7, <2>2, Scripts
      <3>2. QED
        BY <1>6, <1>7, <2>2, <3>1
    <2>3. QED
      BY <1>7, <2>1, <2>2
  <1>8. QED
    BY <1>4, <1>7, Advances

LEMMA RotateProgress ==
    ASSUME StartupInv, Rotate, NEW q \in Servers
    PROVE  Progressing(q)'
  <1>1. Progressing(q)
    BY AllProgress DEF StartupInv
  <1>2. phase'[q] = phase[q] /\ at'[q] = at[q] /\ phase[q] # "scout"
    BY DEF Rotate, launchVars
  <1>3. objects'["tagged"] = objects["tagged"]
    BY DEF Rotate, StartupInv, StartupTypeOK, Databases
  <1>4. phase[q] # "down" => rotated'[q]
    BY DEF Rotate
  <1>5. QED
    BY <1>1, <1>2, <1>3, <1>4 DEF Progressing, Whole, Databases

LEMMA ProgressStep == StartupInv /\ [Next]_vars => (Scripted /\ SchemaLeft)'
  <1> SUFFICES ASSUME StartupInv, [Next]_vars, NEW q \in Servers PROVE Progressing(q)'
    BY DEF Scripted, SchemaLeft, Progressing
  <1> USE DEF launchVars, fileVars, healthVars
  <1>0. /\ at \in [Servers -> 1..3] /\ phase \in [Servers -> Phases]
        /\ rotated \in [Servers -> BOOLEAN]
    BY DEF StartupInv, StartupTypeOK
  <1>1. CASE Rotate
    BY <1>1, RotateProgress
  <1>2. ASSUME NEW p \in Servers, Launch(p), ~Rotate PROVE Progressing(q)'
    <2>1. at' = at /\ rotated' = [rotated EXCEPT ![p] = FALSE] /\ phase[p] = "down"
      BY <1>2 DEF Launch
    <2>2. phase' = phase \/ phase' = [phase EXCEPT ![p] = "scout"]
      BY <1>2 DEF Launch
    <2>3. CASE q # p
      <3>1. phase'[q] = phase[q] /\ at'[q] = at[q] /\ rotated'[q] = rotated[q]
        BY <1>0, <2>1, <2>2, <2>3
      <3>2. QED
        BY <1>2, <3>1, StandsStill
    <2>4. CASE q = p
      <3>1. at'[p] = 1
        BY <2>1, AllProgress DEF StartupInv, Progressing, Databases
      <3>2. phase'[p] = "down" \/ phase'[p] = "scout"
        BY <1>0, <2>1, <2>2
      <3>3. 1 \in 1..Len(Schema["scout"]) /\ 1..(1 - 1) = {}
        BY Scripts
      <3>4. QED
        BY <2>4, <3>1, <3>2, <3>3 DEF Progressing, Databases
    <2>5. QED
      BY <2>3, <2>4
  <1>3. ASSUME NEW p \in Servers, phase[p] \in Databases, Advance(p), ~Rotate,
               Statement(p) \in objects'[phase[p]], rotated' = rotated
        PROVE  Progressing(q)'
    <2>1. CASE q # p
      <3>1. phase'[q] = phase[q] /\ at'[q] = at[q] /\ rotated'[q] = rotated[q]
        BY <1>0, <1>3, <2>1, Advances
      <3>2. QED
        BY <1>3, <3>1, StandsStill
    <2>2. CASE q = p
      BY <1>3, <2>2, AdvanceProgress
    <2>3. QED
      BY <2>1, <2>2
  <1>4. ASSUME NEW p \in Servers, Present(p), ~Rotate PROVE Progressing(q)'
    <2>1. /\ phase[p] \in Databases /\ Advance(p) /\ rotated' = rotated
          /\ Statement(p) \in objects'[phase[p]]
      BY <1>4 DEF Present
    <2>2. QED
      BY <1>3, <1>4, <2>1
  <1>5. ASSUME NEW p \in Servers, CommitCreate(p), ~Rotate PROVE Progressing(q)'
    <2>1. /\ phase[p] \in Databases /\ Advance(p) /\ rotated' = rotated
          /\ Statement(p) \in objects'[phase[p]]
      BY <1>5 DEF CommitCreate, StartupInv, StartupTypeOK
    <2>2. QED
      BY <1>3, <1>5, <2>1
  <1>6. ASSUME NEW p \in Servers, NEW how, End(p, how), ~Rotate PROVE Progressing(q)'
    <2>1. CASE q # p
      <3>1. phase'[q] = phase[q] /\ at'[q] = at[q] /\ rotated'[q] = rotated[q]
        BY <1>0, <1>6, <2>1 DEF End
      <3>2. QED
        BY <1>6, <3>1, StandsStill
    <2>2. CASE q = p
      <3>1. phase'[q] = "down" /\ at'[q] = 1
        BY <1>0, <1>6, <2>2 DEF End
      <3>2. QED
        BY <3>1, EndProgress
    <2>3. QED
      BY <2>1, <2>2
  <1>7. ASSUME NEW p \in Servers, BusyTimeout(p) \/ Stop(p) \/ Kill(p), ~Rotate
        PROVE  Progressing(q)'
    BY <1>6, <1>7 DEF BusyTimeout, Stop, Kill
  <1>8. ASSUME NEW p \in Servers, Bind(p), ~Rotate PROVE Progressing(q)'
    <2>1. CASE ~Bindable(p)
      BY <1>6, <1>8, <2>1 DEF Bind
    <2>2. CASE Bindable(p)
      <3>1. /\ phase[p] = "binding" /\ phase' = [phase EXCEPT ![p] = "serving"]
            /\ at' = at /\ rotated' = rotated /\ objects' = objects
        BY <1>8, <2>2 DEF Bind
      <3>2. CASE q # p
        <4>1. phase'[q] = phase[q] /\ at'[q] = at[q] /\ rotated'[q] = rotated[q]
          BY <1>0, <3>1, <3>2
        <4>2. QED
          BY <1>8, <4>1, StandsStill
      <3>3. CASE q = p
        <4>1. phase'[q] = "serving" /\ at'[q] = at[q] /\ phase[q] = "binding"
          BY <1>0, <3>1, <3>3
        <4>2. Progressing(q)
          BY AllProgress DEF StartupInv
        <4>3. QED
          BY <3>1, <4>1, <4>2 DEF Progressing, Whole, Databases
      <3>4. QED
        BY <3>2, <3>3
    <2>3. QED
      BY <2>1, <2>2
  <1>9. ASSUME ~Rotate, UNCHANGED <<phase, at, rotated>> PROVE Progressing(q)'
    BY <1>9, StandsStill
  <1>10. ASSUME NEW p \in Servers, BeginCreate(p) \/ AskHealth(p), ~Rotate PROVE Progressing(q)'
    BY <1>9, <1>10 DEF BeginCreate, AskHealth
  <1>11. ASSUME NEW d \in Databases, Count(d), ~Rotate PROVE Progressing(q)'
    BY <1>9, <1>11 DEF Count
  <1>12. ASSUME CheckOllama \/ AnswerHealth \/ UNCHANGED vars, ~Rotate PROVE Progressing(q)'
    BY <1>9, <1>12 DEF CheckOllama, AnswerHealth, vars
  <1>13. QED
    BY <1>1, <1>2, <1>4, <1>5, <1>7, <1>8, <1>10, <1>11, <1>12 DEF Next, StartupStep, Health

(* What a check has found, and what it may find next.                      *)
LEMMA WitnessedStep == StartupInv /\ [Next]_vars => Witnessed'
  <1> SUFFICES ASSUME StartupInv, [Next]_vars PROVE Witnessed'
    OBVIOUS
  <1> USE DEF launchVars, fileVars, healthVars
  <1>0. Witnessed /\ counts \in [{"scout", "tagged", "ollama"} -> {"pending", "ok", "error"}]
    BY DEF StartupInv, StartupTypeOK
  <1>1. ASSUME UNCHANGED <<objects, asked, counts, held, missed>> PROVE Witnessed'
    BY <1>0, <1>1 DEF Witnessed
  <1>2. ASSUME Forget PROVE Witnessed'
    BY <1>2 DEF Witnessed, Forget
  <1>3. ASSUME NEW p \in Servers, Launch(p) \/ Present(p) \/ BeginCreate(p) PROVE Witnessed'
    BY <1>1, <1>3 DEF Launch, Present, BeginCreate
  <1>4. ASSUME NEW p \in Servers, NEW how, End(p, how) PROVE Witnessed'
    BY <1>1, <1>2, <1>4 DEF End
  <1>5. ASSUME NEW p \in Servers, BusyTimeout(p) \/ Stop(p) \/ Kill(p) PROVE Witnessed'
    BY <1>4, <1>5 DEF BusyTimeout, Stop, Kill
  <1>6. ASSUME NEW p \in Servers, Bind(p) PROVE Witnessed'
    BY <1>1, <1>4, <1>6 DEF Bind
  <1>7. ASSUME Witness, UNCHANGED <<asked, counts>> PROVE Witnessed'
    BY <1>0, <1>7 DEF Witnessed, Witness
  <1>8. ASSUME NEW p \in Servers, CommitCreate(p) PROVE Witnessed'
    BY <1>7, <1>8 DEF CommitCreate
  <1>9. CASE Rotate
    BY <1>7, <1>9 DEF Rotate
  <1>10. ASSUME NEW p \in Servers, AskHealth(p) PROVE Witnessed'
    <2>1. counts = Unchecked
      BY <1>0, <1>10 DEF AskHealth, Witnessed
    <2>2. \A d \in Databases : counts[d] = "pending"
      BY <2>1 DEF Unchecked, Databases
    <2>3. asked' # Nobody
      BY <1>10, ServersAssumption DEF AskHealth
    <2>4. QED
      BY <1>10, <2>2, <2>3 DEF AskHealth, Witnessed
  <1>11. ASSUME NEW d \in Databases, Count(d) PROVE Witnessed'
    <2>1. asked # Nobody /\ UNCHANGED <<objects, asked, held, missed>>
      BY <1>11 DEF Count
    <2>2. \A c \in Databases : counts'[c] = IF c # d THEN counts[c]
                                 ELSE IF Counted[d] \in objects[d] THEN "ok" ELSE "error"
      BY <1>0, <1>11 DEF Count, Databases
    <2>3. QED
      BY <1>0, <2>1, <2>2 DEF Witnessed
  <1>12. CASE CheckOllama
    <2>1. asked # Nobody /\ UNCHANGED <<objects, asked, held, missed>>
      BY <1>12 DEF CheckOllama
    <2>2. \A c \in Databases : counts'[c] = counts[c]
      BY <1>0, <1>12 DEF CheckOllama, Databases
    <2>3. QED
      BY <1>0, <2>1, <2>2 DEF Witnessed
  <1>13. CASE AnswerHealth
    BY <1>2, <1>13 DEF AnswerHealth
  <1>14. CASE UNCHANGED vars
    BY <1>1, <1>14 DEF vars
  <1>15. QED
    BY <1>3, <1>5, <1>6, <1>8, <1>9, <1>10, <1>11, <1>12, <1>13, <1>14 DEF Next, StartupStep, Health

(* The inductive invariant.                                                *)
THEOREM StartupInvariance == Spec => []StartupInv
  <1>1. StartupInv /\ [Next]_vars => StartupInv'
    BY TypesStep, ProgressStep, WitnessedStep DEF StartupInv
  <1>2. QED
    BY <1>1, InitInv, PTL DEF Spec

(* Type correctness.                                                       *)
THEOREM StartupTypeCorrect == Spec => []StartupTypeOK
  <1>1. StartupInv => StartupTypeOK
    BY DEF StartupInv
  <1>2. QED
    BY <1>1, StartupInvariance, PTL

(* A server that serves has both schemas, unless its scout.db was replaced *)
(* since its launch.                                                       *)
THEOREM ServersHaveSchema == Spec => []ServesWithSchema
  <1>1. StartupInv => ServesWithSchema
    BY DEF StartupInv, SchemaLeft, ServesWithSchema
  <1>2. QED
    BY <1>1, StartupInvariance, PTL

(* What a health answer says of the databases was true while it was made.  *)
THEOREM HealthIsHonest == Spec => HealthHonest
  <1> DEFINE Honest ==
        /\ status = "none" /\ status' = "ok" => held = Databases
        /\ status = "none" /\ status' = "degraded" /\ counts["ollama"] = "ok" => missed # {}
  <1>1. StartupInv /\ [Next]_vars => [Honest]_vars
    <2> SUFFICES ASSUME StartupInv, Next PROVE Honest
      BY DEF vars, launchVars, fileVars, healthVars
    <2> USE DEF launchVars, fileVars, healthVars
    <2>1. CASE AnswerHealth
      <3>1. Witnessed /\ held \subseteq Databases
            /\ counts \in [{"scout", "tagged", "ollama"} -> {"pending", "ok", "error"}]
        BY DEF StartupInv, StartupTypeOK
      <3>2. /\ asked # Nobody
            /\ \A check \in DOMAIN counts : counts[check] # "pending"
            /\ status' = IF \A check \in DOMAIN counts : counts[check] = "ok"
                           THEN "ok" ELSE "degraded"
        BY <2>1 DEF AnswerHealth
      <3>3. DOMAIN counts = {"scout", "tagged", "ollama"}
        BY <3>1
      <3>4. \A d \in Databases : (counts[d] = "ok" => d \in held) /\ (counts[d] = "error" => d \in missed)
        BY <3>1, <3>2 DEF Witnessed
      <3>5. ASSUME status' = "ok" PROVE held = Databases
        <4>1. \A d \in Databases : counts[d] = "ok"
          BY <3>2, <3>3, <3>5 DEF Databases
        <4>2. QED
          BY <3>1, <3>4, <4>1
      <3>6. ASSUME status' = "degraded", counts["ollama"] = "ok" PROVE missed # {}
        <4>1. PICK d \in {"scout", "tagged", "ollama"} : counts[d] # "ok"
          BY <3>2, <3>3, <3>6
        <4>2. d \in Databases /\ counts[d] = "error"
          BY <3>1, <3>2, <3>3, <3>6, <4>1 DEF Databases
        <4>3. QED
          BY <3>4, <4>2
      <3>7. QED
        BY <3>5, <3>6
    <2>2. CASE ~AnswerHealth
      <3>1. ASSUME NEW p \in Servers, BusyTimeout(p) \/ Bind(p) \/ Stop(p) \/ Kill(p)
            PROVE  status' = status
        BY <3>1 DEF BusyTimeout, Bind, Stop, Kill, End
      <3>2. ASSUME NEW p \in Servers, Launch(p) \/ Present(p) \/ BeginCreate(p) \/ CommitCreate(p)
            PROVE  status' = status
        BY <3>2 DEF Launch, Present, BeginCreate, CommitCreate
      <3>3. ASSUME NEW p \in Servers, AskHealth(p) PROVE status' = "none"
        BY <3>3 DEF AskHealth
      <3>4. ASSUME NEW d \in Databases, Count(d) PROVE status' = status
        BY <3>4 DEF Count
      <3>5. ASSUME Rotate \/ CheckOllama PROVE status' = status
        BY <3>5 DEF Rotate, CheckOllama
      <3>6. status' = status \/ status' = "none"
        BY <2>2, <3>1, <3>2, <3>3, <3>4, <3>5 DEF Next, StartupStep, Health
      <3>7. QED
        BY <3>6
    <2>3. QED
      BY <2>1, <2>2
  <1>2. QED
    BY <1>1, StartupInvariance, PTL DEF Spec, HealthHonest
=============================================================================
