-------------------------- MODULE InstallationProofs --------------------------
(***************************************************************************)
(* A login that was given up is silent: Spec => []LogoutSilences, for any  *)
(* number of processes, commands, logins and crashes.                      *)
(*                                                                         *)
(* Whatever a process has read is the present login, or one the server was *)
(* told of, or one that was dropped.  What makes this inductive is the     *)
(* order of the steps: the credentials are removed right after the server  *)
(* was told, and no way to leave stop() early skips the telling.           *)
(***************************************************************************)
EXTENDS Installation, SequenceTheorems, TLAPS

Steps == {"install", "look", "spawn", "await", "ask", "kill", "wait", "page",
          "sign in", "still", "revoke", "clear", "remove", "again"}

Known == {0, creds} \cup revoked \cup dropped

\* What leads where: the steps of stop() come together, and only the
\* revocation leads to the removal.
Chained(steps) ==
  /\ steps \in Seq(Steps)
  /\ \A i \in 1 .. Len(steps) :
       /\ steps[i] = "ask" => i + 1 <= Len(steps) /\ steps[i + 1] = "kill"
       /\ steps[i] = "kill" => i + 1 <= Len(steps) /\ steps[i + 1] = "wait"
       /\ steps[i] = "clear" /\ i > 1 => steps[i - 1] = "revoke"

Told == At("clear") => creds \in {0} \cup revoked \cup dropped

WhoKnown == who \in [Slots -> Known]

IInv == WhoKnown /\ Chained(todo) /\ Told

\* A step further along the list.
LEMMA ThenChained ==
  ASSUME Chained(todo), todo # <<>>, Then
  PROVE  /\ Chained(todo')
         /\ todo' # <<>> /\ Head(todo') = "clear" => Head(todo) = "revoke"
<1>1. todo \in Seq(Steps) /\ Len(todo) \in Nat /\ Len(todo) >= 1
  BY DEF Chained
<1>2. /\ todo' \in Seq(Steps) /\ Len(todo') = Len(todo) - 1
      /\ \A i \in 1 .. Len(todo') : todo'[i] = todo[i + 1] /\ i + 1 \in 1 .. Len(todo)
  BY <1>1 DEF Then
<1>3. ASSUME NEW i \in 1 .. Len(todo')
      PROVE  /\ todo'[i] = "ask" => i + 1 <= Len(todo') /\ todo'[i + 1] = "kill"
             /\ todo'[i] = "kill" => i + 1 <= Len(todo') /\ todo'[i + 1] = "wait"
             /\ todo'[i] = "clear" /\ i > 1 => todo'[i - 1] = "revoke"
  <2> DEFINE j == i + 1
  <2>1. j \in 1 .. Len(todo) /\ todo'[i] = todo[j] /\ i \in Nat
    BY <1>2
  <2>2. /\ todo[j] = "ask" => j + 1 <= Len(todo) /\ todo[j + 1] = "kill"
        /\ todo[j] = "kill" => j + 1 <= Len(todo) /\ todo[j + 1] = "wait"
        /\ todo[j] = "clear" /\ j > 1 => todo[j - 1] = "revoke"
    BY <2>1 DEF Chained
  <2>3. j + 1 <= Len(todo) => i + 1 \in 1 .. Len(todo') /\ todo'[i + 1] = todo[j + 1]
    BY <1>1, <1>2, <2>1
  <2>4. i > 1 => i - 1 \in 1 .. Len(todo') /\ todo'[i - 1] = todo[j - 1] /\ j > 1
    BY <1>1, <1>2, <2>1
  <2> HIDE DEF j
  <2>5. QED
    BY <1>1, <1>2, <2>1, <2>2, <2>3, <2>4
<1>4. ASSUME todo' # <<>>, Head(todo') = "clear"
      PROVE  Head(todo) = "revoke"
  <2>1. 1 \in 1 .. Len(todo') /\ todo'[1] = "clear"
    BY <1>1, <1>2, <1>4
  <2>2. todo[2] = "clear" /\ 2 \in 1 .. Len(todo)
    BY <1>2, <2>1
  <2>3. todo[1] = "revoke"
    BY <2>2 DEF Chained
  <2>4. QED
    BY <1>1, <2>3
<1>5. QED
  BY <1>2, <1>3, <1>4 DEF Chained

\* Two or three steps of stop() left out.
LEMMA SkipChained ==
  ASSUME Chained(todo), todo # <<>>, NEW n \in {2, 3}, Skip(n),
         n = 2 => Head(todo) = "kill", n = 3 => Head(todo) = "ask"
  PROVE  /\ Chained(todo')
         /\ ~(todo' # <<>> /\ Head(todo') = "clear")
<1>1. todo \in Seq(Steps) /\ Len(todo) \in Nat /\ Len(todo) >= 1 /\ 1 \in 1 .. Len(todo)
      /\ Head(todo) = todo[1]
  BY DEF Chained
<1>2. n <= Len(todo) /\ todo[n] = "wait" /\ n \in 1 .. Len(todo)
  <2>1. CASE n = 2
    BY <1>1, <2>1 DEF Chained
  <2>2. CASE n = 3
    <3>1. 2 <= Len(todo) /\ todo[2] = "kill" /\ 2 \in 1 .. Len(todo)
      BY <1>1, <2>2 DEF Chained
    <3>2. 3 <= Len(todo) /\ todo[3] = "wait"
      BY <1>1, <3>1 DEF Chained
    <3>3. QED
      BY <1>1, <2>2, <3>2
  <2>3. QED
    BY <2>1, <2>2
<1>3. /\ todo' \in Seq(Steps) /\ Len(todo') = Len(todo) - n
      /\ \A i \in 1 .. Len(todo') : todo'[i] = todo[i + n] /\ i + n \in 1 .. Len(todo)
  BY <1>1, <1>2 DEF Skip
<1>4. ASSUME NEW i \in 1 .. Len(todo')
      PROVE  /\ todo'[i] = "ask" => i + 1 <= Len(todo') /\ todo'[i + 1] = "kill"
             /\ todo'[i] = "kill" => i + 1 <= Len(todo') /\ todo'[i + 1] = "wait"
             /\ todo'[i] = "clear" /\ i > 1 => todo'[i - 1] = "revoke"
  <2> DEFINE j == i + n
  <2>1. j \in 1 .. Len(todo) /\ todo'[i] = todo[j] /\ i \in Nat
    BY <1>3
  <2>2. /\ todo[j] = "ask" => j + 1 <= Len(todo) /\ todo[j + 1] = "kill"
        /\ todo[j] = "kill" => j + 1 <= Len(todo) /\ todo[j + 1] = "wait"
        /\ todo[j] = "clear" /\ j > 1 => todo[j - 1] = "revoke"
    BY <2>1 DEF Chained
  <2>3. j + 1 <= Len(todo) => i + 1 \in 1 .. Len(todo') /\ todo'[i + 1] = todo[j + 1]
    BY <1>1, <1>3, <2>1
  <2>4. i > 1 => i - 1 \in 1 .. Len(todo') /\ todo'[i - 1] = todo[j - 1] /\ j > 1
    BY <1>1, <1>3, <2>1
  <2>5. j + 1 <= Len(todo) <=> i + 1 <= Len(todo')
    BY <1>1, <1>3, <2>1
  <2> HIDE DEF j
  <2>6. QED
    BY <2>1, <2>2, <2>3, <2>4, <2>5
<1>5. ASSUME todo' # <<>>, Head(todo') = "clear"
      PROVE  FALSE
  <2>1. 1 \in 1 .. Len(todo') /\ todo'[1] = "clear"
    BY <1>1, <1>2, <1>3, <1>5
  <2>2. todo[1 + n] = "clear" /\ 1 + n \in 1 .. Len(todo) /\ 1 + n > 1
    BY <1>3, <2>1
  <2>3. todo[(1 + n) - 1] = "revoke"
    BY <2>2 DEF Chained
  <2>4. (1 + n) - 1 = n
    OBVIOUS
  <2>5. QED
    BY <1>2, <2>3, <2>4
<1>6. QED
  BY <1>3, <1>4, <1>5 DEF Chained

\* No step is left.
LEMMA QuitChained ==
  ASSUME todo' = <<>>
  PROVE  Chained(todo') /\ ~At("clear")'
BY DEF Chained, At

\* Two lists, one after the other.
LEMMA JoinChained ==
  ASSUME NEW s, NEW t, Chained(s), Chained(t), Len(t) >= 1, t[1] # "clear"
  PROVE  Chained(s \o t)
<1> DEFINE u == s \o t
<1>1. /\ s \in Seq(Steps) /\ t \in Seq(Steps) /\ Len(s) \in Nat /\ Len(t) \in Nat
      /\ u \in Seq(Steps) /\ Len(u) = Len(s) + Len(t)
      /\ \A i \in 1 .. Len(s) : u[i] = s[i]
      /\ \A i \in 1 .. Len(t) : u[Len(s) + i] = t[i]
  BY DEF Chained
<1> HIDE DEF u
<1>2. ASSUME NEW i \in 1 .. Len(u)
      PROVE  /\ u[i] = "ask" => i + 1 <= Len(u) /\ u[i + 1] = "kill"
             /\ u[i] = "kill" => i + 1 <= Len(u) /\ u[i + 1] = "wait"
             /\ u[i] = "clear" /\ i > 1 => u[i - 1] = "revoke"
  <2>1. CASE i <= Len(s)
    <3>1. i \in 1 .. Len(s) /\ u[i] = s[i]
      BY <1>1, <2>1
    <3>2. /\ s[i] = "ask" => i + 1 <= Len(s) /\ s[i + 1] = "kill"
          /\ s[i] = "kill" => i + 1 <= Len(s) /\ s[i + 1] = "wait"
          /\ s[i] = "clear" /\ i > 1 => s[i - 1] = "revoke"
      BY <3>1 DEF Chained
    <3>3. /\ i + 1 <= Len(s) => i + 1 <= Len(u) /\ u[i + 1] = s[i + 1]
          /\ i > 1 => u[i - 1] = s[i - 1]
      <4>1. i + 1 <= Len(s) => i + 1 \in 1 .. Len(s)
        BY <1>1, <3>1
      <4>2. i > 1 => i - 1 \in 1 .. Len(s)
        BY <1>1, <3>1
      <4>3. i + 1 <= Len(s) => u[i + 1] = s[i + 1] /\ i + 1 <= Len(u)
        BY <1>1, <3>1, <4>1
      <4>4. i > 1 => u[i - 1] = s[i - 1]
        BY <1>1, <4>2
      <4>5. QED
        BY <4>3, <4>4
    <3>4. QED
      BY <3>1, <3>2, <3>3
  <2>2. CASE i > Len(s)
    <3> DEFINE j == i - Len(s)
    <3>1. j \in 1 .. Len(t) /\ i = Len(s) + j /\ u[i] = t[j]
      BY <1>1, <2>2
    <3>2. /\ t[j] = "ask" => j + 1 <= Len(t) /\ t[j + 1] = "kill"
          /\ t[j] = "kill" => j + 1 <= Len(t) /\ t[j + 1] = "wait"
          /\ t[j] = "clear" /\ j > 1 => t[j - 1] = "revoke"
      BY <3>1 DEF Chained
    <3> HIDE DEF j
    <3>3. j + 1 <= Len(t) => i + 1 <= Len(u) /\ u[i + 1] = t[j + 1]
      <4>1. j + 1 <= Len(t) => j + 1 \in 1 .. Len(t) /\ Len(s) + (j + 1) = i + 1
        BY <1>1, <3>1
      <4>2. QED
        BY <1>1, <3>1, <4>1
    <3>4. j > 1 => i > 1 /\ u[i - 1] = t[j - 1]
      <4>1. j > 1 => j - 1 \in 1 .. Len(t) /\ Len(s) + (j - 1) = i - 1
        BY <1>1, <3>1
      <4>2. QED
        BY <1>1, <3>1, <4>1
    <3>5. j = 1 => t[j] # "clear"
      OBVIOUS
    <3>6. QED
      BY <1>1, <3>1, <3>2, <3>3, <3>4, <3>5
  <2>3. QED
    BY <1>1, <2>1, <2>2
<1>3. QED
  BY <1>1, <1>2 DEF Chained, u

\* Every command is chained, and none begins with the removal.
LEMMA ProgramsChained ==
  ASSUME todo' \in Programs
  PROVE  Chained(todo') /\ ~At("clear")'
<1> DEFINE Begins(s) == Chained(s) /\ Len(s) >= 1 /\ s[1] # "clear"
<1>1. Begins(Start) /\ Begins(Stop)
  <2>1. Start \in Seq(Steps) /\ Stop \in Seq(Steps)
    BY DEF Start, Stop, Steps
  <2>2. Len(Start) = 3 /\ Start[1] = "look" /\ Start[2] = "spawn" /\ Start[3] = "await"
    BY DEF Start
  <2>3. Len(Stop) = 3 /\ Stop[1] = "ask" /\ Stop[2] = "kill" /\ Stop[3] = "wait"
    BY DEF Stop
  <2>4. Begins(Start)
    BY <2>1, <2>2 DEF Chained
  <2>5. Begins(Stop)
    BY <2>1, <2>3 DEF Chained
  <2>6. QED
    BY <2>4, <2>5
<1>2. Forget = <<>> \/ Begins(Forget)
  <2>1. CASE creds = 0
    BY <2>1 DEF Forget
  <2>2. CASE creds # 0
    <3>1. Forget \in Seq(Steps) /\ Len(Forget) = 2
          /\ Forget[1] = "revoke" /\ Forget[2] = "clear"
      BY <2>2 DEF Forget, Steps
    <3>2. QED
      BY <3>1 DEF Chained
  <2>3. QED
    BY <2>1, <2>2
<1>3. /\ Begins(<<"install">>) /\ Begins(<<"remove">>) /\ Begins(<<"again">>)
      /\ Begins(<<"page", "sign in", "still">>)
  <2>1. ASSUME NEW x \in {"install", "remove", "again"}
        PROVE  Begins(<<x>>)
    <3> DEFINE l == <<x>>
    <3>1. x \in Steps /\ x \notin {"ask", "kill", "clear"}
      BY DEF Steps
    <3>2. l \in Seq(Steps)
      BY <3>1
    <3>3. Len(l) = 1 /\ l[1] = x
      OBVIOUS
    <3> HIDE DEF l
    <3>4. ASSUME NEW i \in 1 .. Len(l)
          PROVE  l[i] \notin {"ask", "kill", "clear"}
      BY <3>1, <3>3
    <3>5. Chained(l)
      BY <3>2, <3>4 DEF Chained
    <3>6. Begins(l)
      BY <3>1, <3>3, <3>5
    <3>7. QED
      BY <3>6 DEF l
  <2> DEFINE l == <<"page", "sign in", "still">>
  <2>2. l \in Seq(Steps)
    BY DEF Steps
  <2>3. Len(l) = 3
    OBVIOUS
  <2>4. l[1] = "page" /\ l[2] = "sign in" /\ l[3] = "still"
    OBVIOUS
  <2> HIDE DEF l
  <2>5. ASSUME NEW i \in 1 .. Len(l)
        PROVE  l[i] \notin {"ask", "kill", "clear"}
    <3>1. i = 1 \/ i = 2 \/ i = 3
      BY <2>3
    <3>2. QED
      BY <2>4, <3>1
  <2>6. Chained(l)
    BY <2>2, <2>5 DEF Chained
  <2>7. l[1] # "clear"
    BY <2>4
  <2>8. Begins(<<"page", "sign in", "still">>)
    <3>1. Len(l) >= 1
      BY <2>3
    <3>2. QED
      BY <2>6, <2>7, <3>1 DEF l
  <2>9. QED
    BY <2>1, <2>8
<1>4. ASSUME NEW s, NEW t, Begins(s), Begins(t)
      PROVE  Begins(s \o t)
  <2>1. Chained(s \o t)
    BY <1>4, JoinChained
  <2>2. Len(s \o t) >= 1 /\ (s \o t)[1] = s[1]
    BY <1>4 DEF Chained
  <2>3. QED
    BY <1>4, <2>1, <2>2
<1>5. Begins(Stop \o Forget)
  <2>1. CASE Begins(Forget)
    BY <1>1, <1>4, <2>1
  <2>2. CASE Forget = <<>>
    <3>1. Stop \in Seq(Steps)
      BY <1>1 DEF Chained
    <3>2. Stop \o Forget = Stop
      BY <2>2, <3>1, ConcatEmptySeq
    <3>3. QED
      BY <1>1, <3>2
  <2>3. QED
    BY <1>2, <2>1, <2>2
<1> HIDE DEF Begins
<1>6. Begins(todo')
  <2>1. Begins(<<"install">> \o Start)
    BY <1>1, <1>3, <1>4
  <2>2. Begins(Stop \o Start)
    BY <1>1, <1>4
  <2>3. Begins(<<"page", "sign in", "still">> \o Stop \o Start)
    BY <1>1, <1>3, <1>4
  <2>4. Begins(Stop \o Forget \o <<"remove">>)
    BY <1>3, <1>4, <1>5
  <2>5. Begins(Stop \o Forget \o <<"again">> \o Start)
    BY <1>1, <1>3, <1>4, <1>5
  <2>6. QED
    BY <2>1, <2>2, <2>3, <2>4, <2>5 DEF Programs
<1>7. QED
  BY <1>6 DEF Begins, At, Chained

\* A step that leaves the logins alone and follows the list, or ends it.
LEMMA QuietStep ==
  ASSUME IInv, UNCHANGED <<who, accounts>>,
         \/ todo' = todo
         \/ todo' = <<>>
         \/ todo # <<>> /\ Then /\ ~At("revoke")
  PROVE  IInv'
<1>1. WhoKnown'
  BY DEF IInv, WhoKnown, Known, accounts
<1>2. CASE todo' = todo
  BY <1>1, <1>2 DEF IInv, Chained, Told, At, accounts
<1>3. CASE todo' = <<>>
  BY <1>1, <1>3, QuitChained DEF IInv, Told
<1>4. CASE todo # <<>> /\ Then /\ ~At("revoke")
  BY <1>1, <1>4, ThenChained DEF IInv, Told, At
<1>5. QED
  BY <1>2, <1>3, <1>4

LEMMA AskKeeps ==
  ASSUME IInv, Ask
  PROVE  IInv'
<1>1. CASE Answers
  BY <1>1, QuietStep DEF Ask, At, daemons
<1>2. CASE ~Answers
  <2>1. WhoKnown'
    BY DEF Ask, daemons, accounts, IInv, WhoKnown, Known
  <2>2. Chained(todo') /\ ~At("clear")'
    BY <1>2, SkipChained DEF Ask, At, IInv
  <2>3. QED
    BY <2>1, <2>2 DEF IInv, Told
<1>3. QED
  BY <1>1, <1>2

LEMMA KillKeeps ==
  ASSUME IInv, Kill
  PROVE  IInv'
<1> DEFINE pid == IF Answers THEN socket ELSE pidfile
<1>1. CASE pid # None
  BY <1>1, QuietStep DEF Kill, At, Signal
<1>2. CASE pid = None
  <2>1. Skip(2) /\ todo # <<>> /\ Head(todo) = "kill" /\ UNCHANGED <<who, accounts>>
    BY <1>2 DEF Kill, At, daemons
  <2>2. WhoKnown'
    BY <2>1 DEF accounts, IInv, WhoKnown, Known
  <2>3. Chained(todo') /\ ~At("clear")'
    BY <2>1, SkipChained DEF At, IInv
  <2>4. QED
    BY <2>2, <2>3 DEF IInv, Told
<1>3. QED
  BY <1>1, <1>2

\* The login a new one replaces is dropped.
LEMMA SignInKeeps ==
  ASSUME IInv, SignIn
  PROVE  IInv'
<1>1. WhoKnown'
  BY DEF SignIn, daemons, IInv, WhoKnown, Known
<1>2. CASE At("sign in") /\ Then
  BY <1>1, <1>2, ThenChained DEF At, IInv, Told
<1>3. CASE UNCHANGED <<creds, todo>>
  BY <1>1, <1>3 DEF SignIn, IInv, Chained, Told, At
<1>4. QED
  BY <1>2, <1>3 DEF SignIn

LEMMA RevokeKeeps ==
  ASSUME IInv, Revoke
  PROVE  IInv'
<1>1. WhoKnown'
  BY DEF Revoke, daemons, IInv, WhoKnown, Known
<1>2. creds' \in {0} \cup revoked' \cup dropped'
  BY DEF Revoke
<1>3. Chained(todo')
  BY ThenChained DEF Revoke, At, IInv
<1>4. QED
  BY <1>1, <1>2, <1>3 DEF IInv, Told

LEMMA ClearKeeps ==
  ASSUME IInv, Clear
  PROVE  IInv'
<1>1. creds \in {0} \cup revoked \cup dropped
  BY DEF Clear, IInv, Told
<1>2. WhoKnown'
  BY <1>1 DEF Clear, daemons, IInv, WhoKnown, Known
<1>3. Chained(todo')
  BY ThenChained DEF Clear, At, IInv
<1>4. QED
  BY <1>2, <1>3 DEF Clear, IInv, Told

\* The processes: only one that boots reads the login.
LEMMA ProcessKeeps ==
  ASSUME IInv, NEW p \in Slots, UNCHANGED <<todo, accounts>>,
         Spawn(p) \/ Run(p) \/ Signal(p) \/ UNCHANGED who
  PROVE  IInv'
<1>1. CASE UNCHANGED who
  BY <1>1, QuietStep
<1>2. CASE Boot(p)
  <2>1. WhoKnown'
    BY <1>2 DEF Boot, IInv, WhoKnown, Known, accounts
  <2>2. QED
    BY <2>1 DEF IInv, Chained, Told, At, accounts
<1>3. QED
  BY <1>1, <1>2 DEF Spawn, Run, Signal, Probe, Replace, Bind, Close, Exit

LEMMA CommandKeeps ==
  ASSUME IInv, Command
  PROVE  IInv'
<1>1. WhoKnown'
  BY DEF Command, daemons, accounts, IInv, WhoKnown, Known
<1>2. Chained(todo') /\ ~At("clear")'
  BY ProgramsChained DEF Command
<1>3. QED
  BY <1>1, <1>2 DEF IInv, Told

LEMMA StepKeeps ==
  ASSUME IInv, Step
  PROVE  IInv'
<1>1. CASE Look \/ Await \/ Again \/ Still
  BY <1>1, QuietStep DEF Look, Await, Again, Still, At, Quit, GoOn, daemons
<1>2. ASSUME NEW p \in Slots, SpawnChild(p)
      PROVE  IInv'
  BY <1>2, QuietStep DEF SpawnChild, Spawn, At
<1>3. CASE Wait \/ Install \/ Remove
  BY <1>3, QuietStep DEF Wait, Install, Remove, At, Quit, daemons
<1>4. CASE OpenPage \/ GiveUp
  BY <1>4, QuietStep DEF OpenPage, GiveUp, At, Quit, GoOn, daemons
<1>5. CASE Leave
  BY <1>5, QuietStep DEF Leave, Quit, daemons
<1>6. QED
  BY <1>1, <1>2, <1>3, <1>4, <1>5, AskKeeps, KillKeeps, SignInKeeps, RevokeKeeps, ClearKeeps
  DEF Step, Request

LEMMA NextKeeps ==
  ASSUME IInv, [Next]_vars
  PROVE  IInv'
<1>1. CASE Interrupt
  BY <1>1, QuietStep DEF Interrupt, Quit, daemons
<1>2. CASE Edit \/ UNCHANGED vars
  BY <1>2, QuietStep DEF Edit, vars, daemons, cliVars
<1>3. ASSUME NEW p \in Slots, SessionStart(p) \/ ReadSettings(p) \/ WriteSettings(p) \/ RunOn(p)
      PROVE  IInv'
  BY <1>3, ProcessKeeps DEF SessionStart, ReadSettings, WriteSettings, RunOn, cliVars, daemons
<1>4. ASSUME NEW p \in Slots, Crash(p) \/ Terminate(p), UNCHANGED <<cliVars, accounts>>
      PROVE  IInv'
  BY <1>4, ProcessKeeps DEF Crash, Terminate, Move, cliVars
<1>5. QED
  BY <1>1, <1>2, <1>3, <1>4, CommandKeeps, StepKeeps DEF Next

\* No daemon reports under a login that was given up while the server knows,
\* whatever command was interrupted, whichever process was revived, crashed
\* or signalled (login.ts cmdLogout and forgetLogin, daemon-control.ts).
THEOREM GivenUpLoginsAreSilent == Spec => []LogoutSilences
<1>1. Init => IInv
  <2> SUFFICES ASSUME Init
               PROVE  IInv
    OBVIOUS
  <2>1. who \in [Slots -> Known]
    BY DEF Init, DaemonsInit, Known
  <2>2. todo = <<>>
    BY DEF Init
  <2>3. QED
    BY <2>1, <2>2 DEF IInv, WhoKnown, Chained, Told, At
<1>2. IInv /\ [Next]_vars => IInv'
  BY NextKeeps
<1>3. IInv => LogoutSilences
  BY DEF IInv, WhoKnown, LogoutSilences, Known, Listening, Serving
<1>4. QED
  BY <1>1, <1>2, <1>3, PTL DEF Spec
=============================================================================
