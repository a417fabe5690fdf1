-------------------------- MODULE PtyClientProofs --------------------------
(***************************************************************************)
(* Proofs about the terminal stream, for every number of sockets, bytes,   *)
(* processes and failures, and every size of the ring, the send buffer and *)
(* the backlog.                                                            *)
(*                                                                         *)
(* DialInv says when a grant request may be in flight; the one socket and  *)
(* the quiet of a suspended terminal follow from it alone.  StreamInv      *)
(* follows the bytes: what is on its way to the browser is a run of frames *)
(* that begins where the client's offset is and ends where the server is.  *)
(* Both hold until a mount may have overtaken a grant request (Unraced);   *)
(* from then on two sockets may deliver, and no theorem says anything.     *)
(***************************************************************************)
EXTENDS PtyClient, SequenceTheorems, FiniteSetTheorems, WellFoundedInduction, TLAPS

-----------------------------------------------------------------------------
(***************************************************************************)
(* Dialling.                                                               *)
(***************************************************************************)
DialTypes ==
  /\ mounted \in BOOLEAN /\ opens \in 0..MaxOpens
  /\ active \in BOOLEAN /\ suspended \in BOOLEAN /\ exited \in BOOLEAN
  /\ refused \in BOOLEAN /\ timer \in BOOLEAN /\ connecting \in BOOLEAN
  /\ generation \in Generations /\ requests \in [Generations -> Nat]
  /\ current \in {0} \cup Sockets
  /\ browser \in [Sockets -> {"none", "up", "closing"}]

\* A session that is wanted has at most one request, of its own generation, and
\* none while it holds a socket.
OneRequest ==
  /\ mounted => \A g \in Generations : g # generation => requests[g] = 0
  /\ active /\ requests[generation] # 0 => requests[generation] = 1 /\ connecting /\ current = 0

\* Who is mounted, and which socket is up.
Holds ==
  /\ active => mounted
  /\ suspended => current = 0
  /\ ~mounted => current = 0
  /\ generation = 2 * opens - (IF mounted THEN 1 ELSE 0)
  /\ \A s \in Sockets : browser[s] = "up" <=> s = current

DialInv == DialTypes /\ OneRequest /\ Holds

\* No mount can have overtaken a grant request: the terminal was mounted at most once,
\* or is mounted again only in the quiet.
Unraced == QuietRemount \/ opens <= 1

\* Before the first mount nothing is wanted, and nothing was asked for.
Fresh ==
  /\ opens \in Nat
  /\ opens = 0 => ~mounted /\ ~active /\ \A g \in Generations : requests[g] = 0

dialVars == <<mounted, opens, active, suspended, exited, dialling, browser>>

\* The smallest of the free sockets is one of them.
LEMMA MinIs ==
  ASSUME NEW S \in SUBSET Nat, S # {}
  PROVE  Min(S) \in S /\ \A y \in S : Min(S) <= y
<1> DEFINE R == OpToRel(<, Nat)
<1>1. PICK x \in S : \A y \in S : ~(<<y, x>> \in R)
  <2>1. IsWellFoundedOn(R, Nat) BY NatLessThanWellFounded
  <2> HIDE DEF R
  <2> QED BY <2>1, WFMin
<1>2. \A y \in S : x <= y
  <2> SUFFICES ASSUME NEW y \in S, ~(x <= y) PROVE FALSE OBVIOUS
  <2>1. y < x OBVIOUS
  <2>2. <<y, x>> \in R BY <2>1 DEF OpToRel
  <2> QED BY <1>1, <2>2
<1> QED BY <1>2 DEF Min

LEMMA MaxIs ==
  ASSUME NEW a \in Int, NEW b \in Int
  PROVE  Max({a, b}) = IF a >= b THEN a ELSE b
<1> DEFINE m == IF a >= b THEN a ELSE b
<1>1. m \in {a, b} /\ \A y \in {a, b} : m >= y OBVIOUS
<1>2. \A x \in {a, b} : (\A y \in {a, b} : x >= y) => x = m OBVIOUS
<1> QED BY <1>1, <1>2 DEF Max

\* Ensure, and EnsureAgain where the caller has seen that nothing is connecting,
\* ask at most once for the generation that is current.
LEMMA EnsureTypes ==
  ASSUME DialTypes, NEW gen \in Generations, NEW r \in BOOLEAN, NEW c \in BOOLEAN, NEW cur,
         Ensure(gen, r, c, cur)
  PROVE  /\ connecting' \in BOOLEAN /\ requests' \in [Generations -> Nat]
         /\ \A g \in Generations : g # gen => requests'[g] = requests[g]
         /\ \/ requests'[gen] = requests[gen] /\ connecting' = c
            \/ cur = 0 /\ ~c /\ connecting' = TRUE /\ requests'[gen] = requests[gen] + 1
<1>1. CASE cur # 0 \/ r \/ c
  <2>1. connecting' = c /\ requests' = requests BY <1>1 DEF Ensure
  <2>2. requests \in [Generations -> Nat] BY DEF DialTypes
  <2> QED BY <2>1, <2>2
<1>2. CASE ~(cur # 0 \/ r \/ c)
  <2>1. connecting' = TRUE /\ requests' = [requests EXCEPT ![gen] = @ + 1] /\ cur = 0 /\ ~c
    BY <1>2 DEF Ensure
  <2>2. requests \in [Generations -> Nat] BY DEF DialTypes
  <2>3. /\ requests' \in [Generations -> Nat]
        /\ \A g \in Generations : g # gen => requests'[g] = requests[g]
        /\ requests'[gen] = requests[gen] + 1
    BY <2>1, <2>2
  <2>4. connecting' \in BOOLEAN BY <2>1
  <2> QED BY <2>1, <2>3, <2>4
<1> QED BY <1>1, <1>2

\* A step that may dial for the session as it is, and changes nothing else of it.
LEMMA DialsKeeps ==
  ASSUME DialInv, Ensure(generation, refused', connecting, current), refused' \in BOOLEAN,
         timer' \in BOOLEAN, suspended' \in BOOLEAN, suspended' => suspended,
         UNCHANGED <<mounted, opens, active, exited, generation, current, browser>>
  PROVE  DialInv'
<1>0. DialTypes /\ OneRequest /\ Holds BY DEF DialInv
<1>1. generation \in Generations /\ connecting \in BOOLEAN BY <1>0 DEF DialTypes
<1>2. /\ connecting' \in BOOLEAN /\ requests' \in [Generations -> Nat]
      /\ \A g \in Generations : g # generation => requests'[g] = requests[g]
      /\ \/ requests'[generation] = requests[generation] /\ connecting' = connecting
         \/ current = 0 /\ ~connecting /\ connecting' = TRUE /\ requests'[generation] = requests[generation] + 1
  BY <1>0, <1>1, EnsureTypes
<1>3. DialTypes' BY <1>0, <1>2 DEF DialTypes
<1>4. OneRequest' BY <1>0, <1>1, <1>2 DEF OneRequest, DialTypes, Holds
<1>5. Holds' BY <1>0 DEF Holds, DialTypes
<1> QED BY <1>3, <1>4, <1>5 DEF DialInv

\* The same when nothing is asked.
LEMMA RestsKeeps ==
  ASSUME DialInv, UNCHANGED <<connecting, requests>>, refused' \in BOOLEAN,
         timer' \in BOOLEAN, suspended' \in BOOLEAN, suspended' => suspended,
         exited' \in BOOLEAN, active' \in BOOLEAN, active' => active,
         UNCHANGED <<mounted, opens, generation, current, browser>>
  PROVE  DialInv'
<1>0. DialTypes /\ OneRequest /\ Holds BY DEF DialInv
<1>3. DialTypes' BY <1>0 DEF DialTypes
<1>4. OneRequest' BY <1>0 DEF OneRequest, DialTypes
<1>5. Holds' BY <1>0 DEF Holds
<1> QED BY <1>3, <1>4, <1>5 DEF DialInv

\* One answer less in flight.
LEMMA AnsweredIs ==
  ASSUME DialInv, NEW g \in Generations, Answered(g)
  PROVE  /\ requests[g] # 0 /\ requests' \in [Generations -> Nat]
         /\ \A h \in Generations : requests'[h] = IF h = g THEN requests[g] - 1 ELSE requests[h]
BY DEF DialInv, DialTypes, Answered

LEMMA AnswerKeeps ==
  ASSUME DialInv, NEW g \in Generations, Answered(g), connecting' = FALSE,
         refused' \in BOOLEAN, timer' \in BOOLEAN,
         UNCHANGED <<session, generation, current, browser>>
  PROVE  DialInv'
<1>0. DialTypes /\ OneRequest /\ Holds BY DEF DialInv
<1>1. /\ requests[g] # 0 /\ requests' \in [Generations -> Nat]
      /\ \A h \in Generations : requests'[h] = IF h = g THEN requests[g] - 1 ELSE requests[h]
  BY AnsweredIs
<1>3. DialTypes' BY <1>0, <1>1 DEF DialTypes, session
<1>4. OneRequest' BY <1>0, <1>1 DEF OneRequest, DialTypes, Holds, session
<1>5. Holds' BY <1>0 DEF Holds, session
<1> QED BY <1>3, <1>4, <1>5 DEF DialInv

\* _openSocket: the request was the only one, and the session held no socket.
LEMMA OpensIs ==
  ASSUME DialInv, NEW g \in Generations, Answered(g), Wanted(g), OpenSocket
  PROVE  \E s \in Sockets :
           /\ current = 0 /\ current' = s /\ browser[s] = "none" /\ requests'[g] = 0
           /\ browser' = [browser EXCEPT ![s] = "up"] /\ srv' = [srv EXCEPT ![s] = Asked(received)]
<1> DEFINE s == Min(Free)
<1>1. Free \in SUBSET Nat /\ Free # {} BY DEF Free, OpenSocket, Sockets
<1>2. s \in Free BY <1>1, MinIs
<1>3. current' = s /\ browser' = [browser EXCEPT ![s] = "up"] /\ srv' = [srv EXCEPT ![s] = Asked(received)]
  BY DEF OpenSocket
<1>4. s \in Sockets /\ browser[s] = "none" BY <1>2 DEF Free
<1>5. requests[g] # 0 /\ requests'[g] = requests[g] - 1 BY AnsweredIs
<1>6. requests[g] = 1 /\ current = 0 BY <1>5 DEF Wanted, DialInv, OneRequest
<1>7. requests'[g] = 0 BY <1>5, <1>6
<1> HIDE DEF s
<1> QED BY <1>3, <1>4, <1>6, <1>7

LEMMA GrantedKeeps == ASSUME DialInv, NEW g \in Generations, Granted(g) PROVE DialInv'
<1>0. DialTypes /\ OneRequest /\ Holds BY DEF DialInv
<1>1. Answered(g) /\ connecting' = FALSE /\ UNCHANGED <<session, refused, timer, generation>> BY DEF Granted
<1>2. CASE ~Wanted(g)
  <2>1. UNCHANGED <<current, browser>> BY <1>2 DEF Granted
  <2>2. refused' \in BOOLEAN /\ timer' \in BOOLEAN BY <1>0, <1>1 DEF DialTypes
  <2> QED BY <1>1, <2>1, <2>2, AnswerKeeps
<1>3. CASE Wanted(g)
  <2>0. OpenSocket BY <1>3 DEF Granted
  <2>1. PICK s \in Sockets :
           /\ current = 0 /\ current' = s /\ browser[s] = "none" /\ requests'[g] = 0
           /\ browser' = [browser EXCEPT ![s] = "up"]
    BY <1>1, <1>3, <2>0, OpensIs
  <2>2. /\ requests' \in [Generations -> Nat]
        /\ \A h \in Generations : requests'[h] = IF h = g THEN requests[g] - 1 ELSE requests[h]
    BY <1>1, AnsweredIs
  <2>3. active /\ ~suspended /\ g = generation BY <1>3 DEF Wanted
  <2>4. DialTypes' BY <1>0, <1>1, <2>1, <2>2 DEF DialTypes, session
  <2>5. OneRequest' BY <1>0, <1>1, <2>1, <2>2, <2>3 DEF OneRequest, session
  <2>6. Holds'
    <3>1. \A r \in Sockets : browser'[r] = "up" <=> r = current'
      <4>1. \A r \in Sockets : browser'[r] = IF r = s THEN "up" ELSE browser[r]
        BY <1>0, <2>1 DEF DialTypes
      <4>2. \A r \in Sockets : browser[r] # "up" BY <1>0, <2>1 DEF Holds, Sockets
      <4> QED BY <2>1, <4>1, <4>2
    <3> QED BY <1>0, <1>1, <2>3, <3>1 DEF Holds, session
  <2> QED BY <2>4, <2>5, <2>6 DEF DialInv
<1> QED BY <1>2, <1>3

\* ws.close() on the socket the session holds: none is up.
LEMMA HangupIs ==
  ASSUME DialInv, Hangup(current), current' = 0
  PROVE  /\ browser' \in [Sockets -> {"none", "up", "closing"}]
         /\ \A s \in Sockets : browser'[s] = IF s = current THEN "closing" ELSE browser[s]
         /\ \A s \in Sockets : browser'[s] = "up" <=> s = current'
<1>1. /\ browser' \in [Sockets -> {"none", "up", "closing"}]
      /\ \A s \in Sockets : browser'[s] = IF s = current THEN "closing" ELSE browser[s]
  BY DEF Hangup, DialInv, DialTypes, Sockets
<1>2. \A s \in Sockets : browser[s] = "up" => s = current BY DEF DialInv, Holds
<1>3. \A s \in Sockets : s # 0 BY DEF Sockets
<1> QED BY <1>1, <1>2, <1>3

LEMMA MountKeeps == ASSUME Unraced', Fresh, DialInv, OpenSession PROVE DialInv'
<1>0. DialTypes /\ OneRequest /\ Holds BY DEF DialInv
<1> DEFINE gen == generation + 1
<1>1. current = 0 /\ current' = current /\ opens < MaxOpens /\ generation = 2 * opens /\ ~mounted
  <2>1. ~mounted /\ current' = current /\ opens < MaxOpens BY DEF OpenSession
  <2>2. opens \in Int /\ generation = 2 * opens - (IF mounted THEN 1 ELSE 0) BY <1>0 DEF Holds, DialTypes
  <2>3. current = 0 BY <1>0, <2>1 DEF Holds
  <2>4. generation = 2 * opens - 0 BY <2>1, <2>2
  <2> QED BY <2>1, <2>2, <2>3, <2>4
<1>2. MaxOpens \in Nat BY ClientAssumption
<1>3. gen \in Generations /\ opens' \in 0..MaxOpens BY <1>0, <1>1, <1>2 DEF Generations, DialTypes, OpenSession
<1>4. Ensure(gen, FALSE, FALSE, current) BY DEF OpenSession
<1>5. /\ connecting' \in BOOLEAN /\ requests' \in [Generations -> Nat]
      /\ \A g \in Generations : g # gen => requests'[g] = requests[g]
      /\ \/ requests'[gen] = requests[gen] /\ connecting' = FALSE
         \/ connecting' = TRUE /\ requests'[gen] = requests[gen] + 1
  BY <1>0, <1>3, <1>4, EnsureTypes
<1>6. \A g \in Generations : requests[g] = 0
  <2>1. CASE QuietRemount BY <2>1 DEF OpenSession
  <2>2. CASE ~QuietRemount
    <3>1. opens' = opens + 1 /\ opens' <= 1 BY <2>2 DEF Unraced, OpenSession
    <3>2. opens = 0 BY <3>1 DEF Fresh
    <3> QED BY <3>2 DEF Fresh
  <2> QED BY <2>1, <2>2
<1>7. /\ mounted' = TRUE /\ opens' = opens + 1 /\ generation' = gen
      /\ active' = TRUE /\ suspended' = FALSE /\ exited' = FALSE /\ refused' = FALSE
      /\ UNCHANGED <<browser, timer, current>>
  BY DEF OpenSession
<1>8. DialTypes'
  <2>1. gen = generation' /\ current' = 0 /\ opens' \in 0..MaxOpens /\ generation' \in Generations
    BY <1>1, <1>3, <1>7
  <2> QED BY <1>0, <1>5, <1>7, <2>1 DEF DialTypes
<1>9. OneRequest'
  <2>1. \A g \in Generations : g # generation' => requests'[g] = 0 BY <1>5, <1>6, <1>7
  <2>2. requests'[generation'] # 0 => requests'[generation'] = 1 /\ connecting'
    BY <1>3, <1>5, <1>6, <1>7
  <2> QED BY <1>1, <2>1, <2>2 DEF OneRequest
<1>10. Holds'
  <2>1. generation' = 2 * opens' - 1 /\ opens \in Int BY <1>0, <1>1, <1>7 DEF DialTypes
  <2> QED BY <1>0, <1>1, <1>7, <2>1 DEF Holds
<1> QED BY <1>8, <1>9, <1>10 DEF DialInv

LEMMA UnmountKeeps == ASSUME DialInv, CloseSession PROVE DialInv'
<1>0. DialTypes /\ OneRequest /\ Holds BY DEF DialInv
<1>1. Hangup(current) /\ current' = 0 BY DEF CloseSession
<1>2. /\ browser' \in [Sockets -> {"none", "up", "closing"}]
      /\ \A s \in Sockets : browser'[s] = "up" <=> s = current'
  BY <1>1, HangupIs
<1>3. /\ mounted' = FALSE /\ active' = FALSE /\ suspended' = FALSE /\ exited' = FALSE
      /\ refused' = FALSE /\ timer' = FALSE /\ connecting' = FALSE
      /\ generation' = generation + 1 /\ UNCHANGED <<opens, requests>> /\ mounted
  BY DEF CloseSession
<1>4. MaxOpens \in Nat /\ opens \in 0..MaxOpens /\ generation = 2 * opens - 1
  BY <1>0, <1>3, ClientAssumption DEF DialTypes, Holds
<1>5. generation' = 2 * opens /\ generation' \in Generations BY <1>3, <1>4 DEF Generations
<1>6. DialTypes' BY <1>0, <1>1, <1>2, <1>3, <1>5 DEF DialTypes
<1>7. OneRequest' BY <1>3 DEF OneRequest
<1>8. Holds' BY <1>1, <1>2, <1>3, <1>5 DEF Holds
<1> QED BY <1>6, <1>7, <1>8 DEF DialInv

LEMMA SuspendKeeps == ASSUME DialInv, Suspend PROVE DialInv'
<1>0. DialTypes /\ OneRequest /\ Holds BY DEF DialInv
<1>1. Hangup(current) /\ current' = 0 BY DEF Suspend
<1>2. /\ browser' \in [Sockets -> {"none", "up", "closing"}]
      /\ \A s \in Sockets : browser'[s] = "up" <=> s = current'
  BY <1>1, HangupIs
<1>3. /\ mounted /\ active /\ suspended' = TRUE /\ timer' = FALSE
      /\ UNCHANGED <<mounted, opens, active, exited, refused, connecting, generation, requests>>
  BY DEF Suspend
<1>6. DialTypes' BY <1>0, <1>1, <1>2, <1>3 DEF DialTypes
<1>7. OneRequest' BY <1>0, <1>1, <1>3 DEF OneRequest
<1>8. Holds' BY <1>0, <1>1, <1>2, <1>3 DEF Holds
<1> QED BY <1>6, <1>7, <1>8 DEF DialInv

LEMMA ReceiveDials == ASSUME DialInv, NEW s \in Sockets, Receive(s) PROVE DialInv'
<1>0. DialTypes BY DEF DialInv
<1>1. UNCHANGED <<browser, mounted, opens, suspended, dialling>> BY DEF Receive
<1>2. \/ UNCHANGED <<active, exited>>
      \/ exited' = TRUE /\ active' = FALSE
  BY DEF Receive
<1>3. active' \in BOOLEAN /\ (active' => active) /\ exited' \in BOOLEAN
  <2>1. CASE UNCHANGED <<active, exited>> BY <1>0, <2>1 DEF DialTypes
  <2>2. CASE exited' = TRUE /\ active' = FALSE BY <2>2
  <2> QED BY <1>2, <2>1, <2>2
<1>4. /\ refused' \in BOOLEAN /\ timer' \in BOOLEAN /\ suspended' \in BOOLEAN
      /\ UNCHANGED <<connecting, requests, generation, current, suspended>>
  BY <1>0, <1>1 DEF dialling, DialTypes
<1> QED BY <1>1, <1>3, <1>4, RestsKeeps

LEMMA OnCloseDials == ASSUME DialInv, NEW s \in Sockets, OnClose(s) PROVE DialInv'
<1>0. DialTypes /\ OneRequest /\ Holds BY DEF DialInv
<1>1. /\ browser' = [browser EXCEPT ![s] = "none"] /\ current' = IF current = s THEN 0 ELSE current
      /\ UNCHANGED <<mounted, opens, generation, requests>>
  BY DEF OnClose
<1>2. /\ \A r \in Sockets : browser'[r] = IF r = s THEN "none" ELSE browser[r]
      /\ browser' \in [Sockets -> {"none", "up", "closing"}]
  BY <1>0, <1>1 DEF DialTypes
<1>3. \A r \in Sockets : r # 0 BY DEF Sockets
<1>4. \/ /\ timer' = FALSE /\ UNCHANGED <<active, suspended, exited, refused, connecting>>
      \/ /\ active' = FALSE /\ suspended' = FALSE /\ exited' = FALSE
         /\ refused' = FALSE /\ timer' = FALSE /\ connecting' = FALSE
      \/ /\ exited' = FALSE /\ timer' = active /\ UNCHANGED <<active, suspended, refused, connecting>>
  BY DEF OnClose, TearDown, Dropped
<1>5. DialTypes'
  <2>1. current' \in {0} \cup Sockets BY <1>0, <1>1 DEF DialTypes
  <2>2. /\ active' \in BOOLEAN /\ suspended' \in BOOLEAN /\ exited' \in BOOLEAN
        /\ refused' \in BOOLEAN /\ timer' \in BOOLEAN /\ connecting' \in BOOLEAN
    BY <1>0, <1>4 DEF DialTypes
  <2> QED BY <1>0, <1>1, <1>2, <2>1, <2>2 DEF DialTypes
<1>6. OneRequest'
  <2>1. CASE active'
    <3>1. active /\ connecting' = connecting BY <1>4, <2>1
    <3> QED BY <1>0, <1>1, <3>1 DEF OneRequest
  <2>2. CASE ~active'
    <3> QED BY <1>0, <1>1, <2>2 DEF OneRequest
  <2> QED BY <2>1, <2>2
<1>7. Holds'
  <2>1. (active' => active) /\ (suspended' => suspended) BY <1>4
  <2>2. \A r \in Sockets : browser'[r] = "up" <=> r = current' BY <1>0, <1>1, <1>2, <1>3 DEF Holds
  <2> QED BY <1>0, <1>1, <2>1, <2>2 DEF Holds
<1> QED BY <1>5, <1>6, <1>7 DEF DialInv

LEMMA HostDials == ASSUME DialInv, HostNext, UNCHANGED clientVars PROVE DialInv'
<1>1. browser' = browser
  BY DEF HostNext, Flush, Spawn, Exit, Crash, Produce, Refuse, Attach, SnapshotReady, SnapshotFails,
         Cut, SeesClose
<1> QED BY <1>1 DEF clientVars, session, dialling, DialInv, DialTypes, OneRequest, Holds

LEMMA DialStep == ASSUME Unraced', Fresh, DialInv, [Next]_vars PROVE DialInv'
<1>0. DialTypes BY DEF DialInv
<1>1. CASE UNCHANGED vars
  BY <1>1 DEF vars, clientVars, session, dialling, DialInv, DialTypes, OneRequest, Holds
<1>2. CASE HostNext /\ UNCHANGED clientVars BY <1>2, HostDials
<1>3. CASE Network BY <1>3, ReceiveDials, OnCloseDials DEF Network
<1>4. ASSUME NEW g \in Generations, Granted(g) PROVE DialInv' BY <1>4, GrantedKeeps
<1>5. ASSUME NEW g \in Generations, MintFails(g) PROVE DialInv'
  <2>1. /\ Answered(g) /\ connecting' = FALSE /\ UNCHANGED <<session, generation, current, browser>>
        /\ UNCHANGED refused /\ timer' = (timer \/ (active /\ ~suspended))
    BY <1>5 DEF MintFails
  <2>2. refused' \in BOOLEAN /\ timer' \in BOOLEAN BY <1>0, <2>1 DEF DialTypes
  <2> QED BY <2>1, <2>2, AnswerKeeps
<1>6. ASSUME NEW g \in Generations, MintRefused(g) PROVE DialInv'
  <2>1. /\ Answered(g) /\ connecting' = FALSE /\ UNCHANGED <<session, generation, current, browser>>
        /\ refused' = TRUE /\ timer' = FALSE
    BY <1>6 DEF MintRefused
  <2> QED BY <2>1, AnswerKeeps
<1>7. CASE ClearRefusal
  <2>1. refused' = FALSE /\ UNCHANGED <<mounted, opens, active, suspended, exited, timer, generation, current, browser>>
    BY <1>7 DEF ClearRefusal, session
  <2>2. timer' \in BOOLEAN /\ suspended' \in BOOLEAN /\ active' \in BOOLEAN /\ exited' \in BOOLEAN
    BY <1>0, <2>1 DEF DialTypes
  <2>3. \/ Ensure(generation, refused', connecting, current)
        \/ UNCHANGED <<connecting, requests>>
    BY <1>7 DEF ClearRefusal
  <2> QED BY <2>1, <2>2, <2>3, DialsKeeps, RestsKeeps
<1>8. CASE Reconnect
  <2>1. timer' = FALSE /\ UNCHANGED <<mounted, opens, active, suspended, exited, refused, generation, current, browser>>
    BY <1>8 DEF Reconnect, session
  <2>2. refused' \in BOOLEAN /\ suspended' \in BOOLEAN /\ active' \in BOOLEAN /\ exited' \in BOOLEAN
    BY <1>0, <2>1 DEF DialTypes
  <2>3. \/ Ensure(generation, refused', connecting, current)
        \/ UNCHANGED <<connecting, requests>>
    BY <1>8, <2>1 DEF Reconnect
  <2> QED BY <2>1, <2>2, <2>3, DialsKeeps, RestsKeeps
<1>9. CASE Wake
  <2>1. timer' = FALSE /\ UNCHANGED <<mounted, opens, active, suspended, exited, refused, generation, current, browser>>
    BY <1>9 DEF Wake, session
  <2>2. refused' \in BOOLEAN /\ suspended' \in BOOLEAN /\ active' \in BOOLEAN /\ exited' \in BOOLEAN
    BY <1>0, <2>1 DEF DialTypes
  <2>3. Ensure(generation, refused', connecting, current) BY <1>9, <2>1 DEF Wake
  <2> QED BY <2>1, <2>2, <2>3, DialsKeeps
<1>10. CASE Resume
  <2>1. suspended' = FALSE /\ UNCHANGED <<mounted, opens, active, exited, refused, timer, generation, current, browser>>
    BY <1>10 DEF Resume
  <2>2. refused' \in BOOLEAN /\ timer' \in BOOLEAN /\ active' \in BOOLEAN /\ exited' \in BOOLEAN
    BY <1>0, <2>1 DEF DialTypes
  <2>3. \/ Ensure(generation, refused', connecting, current)
        \/ UNCHANGED <<connecting, requests>>
    BY <1>10, <2>1 DEF Resume
  <2> QED BY <2>1, <2>2, <2>3, DialsKeeps, RestsKeeps
<1> QED
  BY <1>1, <1>2, <1>3, <1>4, <1>5, <1>6, <1>7, <1>8, <1>9, <1>10, MountKeeps, UnmountKeeps, SuspendKeeps
  DEF Next, Answer, User

LEMMA DialStarts == Init => DialInv
<1> SUFFICES ASSUME Init PROVE DialInv OBVIOUS
<1>1. MaxOpens \in Nat BY ClientAssumption
<1>2. 0 \in Generations /\ 0 \in 0..MaxOpens BY <1>1 DEF Generations
<1>3. \A s \in Sockets : s # 0 BY DEF Sockets
<1>4. DialTypes BY <1>2 DEF Init, HostInit, DialTypes
<1>5. OneRequest BY DEF Init, OneRequest
<1>6. Holds
  <2>1. ~mounted /\ ~active /\ ~suspended /\ current = 0 /\ generation = 0 /\ opens = 0 BY DEF Init
  <2>2. \A s \in Sockets : browser[s] = "none" BY DEF Init, HostInit
  <2>3. (IF mounted THEN 1 ELSE 0) = 0 BY <2>1
  <2>4. generation = 2 * opens - (IF mounted THEN 1 ELSE 0)
    <3>1. 2 * opens - 0 = 0 /\ generation = 0
      <4>1. opens = 0 /\ generation = 0 BY DEF Init
      <4> QED BY <4>1
    <3> QED BY <2>3, <3>1
  <2>5. \A s \in Sockets : browser[s] = "up" <=> s = current BY <1>3, <2>1, <2>2
  <2> QED BY <2>1, <2>4, <2>5 DEF Holds
<1> QED BY <1>4, <1>5, <1>6 DEF DialInv

LEMMA FreshStep == ASSUME Fresh, [Next]_vars PROVE Fresh' /\ opens <= opens'
<1>0. opens \in Nat BY DEF Fresh
<1>1. CASE OpenSession
  <2>1. opens' = opens + 1 BY <1>1 DEF OpenSession
  <2> QED BY <1>0, <2>1 DEF Fresh
<1>2. CASE ~OpenSession
  <2>1. opens' = opens
    BY <1>2 DEF Next, vars, clientVars, session, Network, Receive, OnClose, Answer, Granted,
               MintFails, MintRefused, Reconnect, User, CloseSession, Suspend, Resume, Wake,
               ClearRefusal
  <2>2. ASSUME opens = 0
        PROVE  ~mounted' /\ ~active' /\ \A g \in Generations : requests'[g] = 0
    <3>0. ~mounted /\ ~active /\ \A g \in Generations : requests[g] = 0 BY <2>2 DEF Fresh
    <3>1. \A g \in Generations : ~Answered(g) BY <3>0 DEF Answered
    <3>2. ~Answer BY <3>1 DEF Answer, Granted, MintFails, MintRefused
    <3>3. CASE Network
      <4>1. UNCHANGED <<mounted, requests>> BY <3>3 DEF Network, Receive, OnClose, dialling
      <4>2. ~active' BY <3>0, <3>3 DEF Network, Receive, OnClose, TearDown, Dropped
      <4> QED BY <3>0, <4>1, <4>2
    <3>4. CASE Reconnect
      BY <3>0, <3>4 DEF Reconnect, session
    <3>5. CASE User
      BY <1>2, <3>0, <3>5 DEF User, CloseSession, Suspend, Resume, Wake, ClearRefusal, session
    <3>6. CASE UNCHANGED clientVars
      BY <3>0, <3>6 DEF clientVars, session, dialling
    <3> QED BY <3>2, <3>3, <3>4, <3>5, <3>6 DEF Next, vars
  <2> QED BY <1>0, <2>1, <2>2 DEF Fresh
<1> QED BY <1>1, <1>2

LEMMA StaysUnraced == ASSUME Fresh, [Next]_vars PROVE Fresh' /\ (Unraced' => Unraced)
<1>1. Fresh' /\ opens <= opens' BY FreshStep
<1>2. opens \in Nat /\ opens' \in Nat BY <1>1 DEF Fresh
<1> QED BY <1>1, <1>2 DEF Unraced

\* However the terminal is dialled, closed, suspended and woken: as long as no mount can
\* have overtaken a request, the requests and the sockets are what DialInv says.
THEOREM DialInvariant == Spec => [](Fresh /\ (Unraced => DialInv))
<1>1. Init => Fresh BY DEF Init, Fresh
<1>2. Fresh /\ (Unraced => DialInv) /\ [Next]_vars => Fresh' /\ (Unraced' => DialInv')
  BY DialStep, StaysUnraced
<1> QED BY <1>1, <1>2, DialStarts, PTL DEF Spec

\* A terminal off screen has no stream, unless a mount overtook a request: no answer,
\* timer or close that was on its way to ptyTransport.ts opens one behind its back.
THEOREM SuspendedStaysQuiet == Spec => [](Unraced => SuspendedIsQuiet)
<1>1. DialInv => SuspendedIsQuiet
  <2>1. \A s \in Sockets : s # 0 BY DEF Sockets
  <2> QED BY <2>1 DEF DialInv, Holds, SuspendedIsQuiet
<1>2. Fresh /\ (Unraced => DialInv) => (Unraced => SuspendedIsQuiet) BY <1>1
<1> QED BY <1>2, DialInvariant, PTL

\* Two sockets of one session deliver only after a second mount, one that overtook a
\* grant request of ptyTransport.ts: nothing else opens a second one.
THEOREM SecondSocketNeedsRace == Spec => [](~OneSocket => opens >= 2 /\ ~QuietRemount)
<1>1. DialInv => OneSocket
  <2> SUFFICES ASSUME DialInv PROVE OneSocket OBVIOUS
  <2> DEFINE Up == {s \in Sockets : browser[s] = "up"}
  <2>1. Up \subseteq {current} BY DEF DialInv, Holds
  <2>2. IsFiniteSet({current}) /\ Cardinality({current}) = 1 BY FS_Singleton
  <2>3. Cardinality(Up) <= 1 BY <2>1, <2>2, FS_Subset
  <2> QED BY <2>3 DEF OneSocket
<1>2. Fresh /\ (Unraced => DialInv) => (~OneSocket => opens >= 2 /\ ~QuietRemount)
  BY <1>1 DEF Fresh, Unraced
<1> QED BY <1>2, DialInvariant, PTL

-----------------------------------------------------------------------------
(***************************************************************************)
(* Runs of frames.                                                         *)
(***************************************************************************)
\* A frame shows bytes that its process, one of the n spawned, has written (m).
Good(f, m, n) ==
  \/ /\ f.type = "attached" /\ f.epoch <= n
     /\ f.base <= f.next /\ f.next <= m[f.epoch]
     /\ (f.gap > 0 => f.replay) /\ (~f.replay => f.base = f.next)
  \/ f.type = "bytes" /\ f.epoch <= n /\ f.from < f.to /\ f.to <= m[f.epoch]
  \/ f.type \in {"exit", "close"}

\* After a settled frame the client is at its end; a handshake with a replay
\* waits for the replay.
Settled(f) == f.type = "bytes" \/ (f.type = "attached" /\ ~f.replay)
EndOf(f) == IF f.type = "bytes" THEN f.to ELSE f.next

\* What may come behind a frame, while e is the live process.
Continues(f, g, m, e) ==
  \/ /\ f.type = "attached" /\ f.replay
     /\ g.type = "bytes" /\ g.epoch = f.epoch /\ g.to = f.next
     /\ g.from = IF f.gap > 0 THEN 0 ELSE f.base
  \/ Settled(f) /\ g.type = "bytes" /\ g.epoch = f.epoch /\ g.from = EndOf(f)
  \/ Settled(f) /\ g.type = "exit" /\ EndOf(f) = m[f.epoch] /\ f.epoch # e
  \/ Settled(f) /\ g.type = "close"
  \/ f.type = "exit" /\ g.type = "close"

RunOf(w, m, e, n) ==
  /\ \A i \in 1..Len(w) : Good(w[i], m, n)
  /\ \A i \in 1..Len(w) : i < Len(w) => Continues(w[i], w[i + 1], m, e)

\* Processes write on and are spawned; only the live one writes.
Grows(m, e, n, m2, e2, n2) ==
  /\ n <= n2
  /\ \A p \in Epochs : p <= n => m[p] <= m2[p] /\ (p # e => m2[p] = m[p] /\ p # e2)

LEMMA FrameIs ==
  ASSUME NEW f \in Frames
  PROVE  /\ f.type \in {"attached", "bytes", "exit", "close"}
         /\ f.type = "attached" => /\ f.epoch \in Epochs /\ f.base \in Offsets /\ f.next \in Offsets
                                   /\ f.gap \in Offsets /\ f.replay \in BOOLEAN
         /\ f.type = "bytes" => f.epoch \in Epochs /\ f.from \in Offsets /\ f.to \in Offsets
BY DEF Frames, ExitFrame

LEMMA FramesAre ==
  /\ \A b, g, x \in Offsets, r \in BOOLEAN, e \in Epochs : Attached(b, g, x, r, e) \in Frames
  /\ \A a, b \in Offsets, e \in Epochs : Bytes(a, b, e) \in Frames
  /\ ExitFrame \in Frames
  /\ \A c \in {"drop", "end"} : Close(c) \in Frames /\ Close(c).type = "close"
BY DEF Frames, Attached, Bytes, ExitFrame, Close

LEMMA OffsetsAre ==
  /\ \A k \in Offsets : k \in Int /\ k >= 0 /\ k <= MaxBytes
  /\ \A k \in Int : k >= 0 /\ k <= MaxBytes => k \in Offsets
  /\ \A p \in Epochs : p \in Int /\ p > 0
  /\ \A s \in Sockets : s \in Int /\ s > 0
  /\ 0 \in Offsets /\ MaxBytes \in Int
BY HostAssumption DEF Offsets, Epochs, Sockets

LEMMA Between == \A a, b, c \in Int : a <= b /\ b <= c => a <= c
OBVIOUS

LEMMA GoodStays ==
  ASSUME NEW m \in [Epochs -> Offsets], NEW e, NEW n \in Nat,
         NEW m2 \in [Epochs -> Offsets], NEW e2, NEW n2 \in Nat,
         Grows(m, e, n, m2, e2, n2), NEW f \in Frames, Good(f, m, n)
  PROVE  Good(f, m2, n2)
<1>1. CASE f.type = "attached"
  <2>1. f.epoch \in Epochs /\ f.next \in Offsets /\ f.epoch <= n /\ f.next <= m[f.epoch]
    BY <1>1, FrameIs DEF Good
  <2>2. m[f.epoch] \in Offsets /\ m2[f.epoch] \in Offsets /\ m[f.epoch] <= m2[f.epoch] /\ n <= n2
    BY <2>1 DEF Grows
  <2>4. f.next \in Int /\ m[f.epoch] \in Int /\ m2[f.epoch] \in Int /\ f.epoch \in Int /\ n \in Int /\ n2 \in Int
    BY <2>1, <2>2, OffsetsAre
  <2>3. f.next <= m2[f.epoch] /\ f.epoch <= n2 BY <2>1, <2>2, <2>4, Between
  <2> QED BY <1>1, <2>3 DEF Good
<1>2. CASE f.type = "bytes"
  <2>1. f.epoch \in Epochs /\ f.to \in Offsets /\ f.epoch <= n /\ f.to <= m[f.epoch]
    BY <1>2, FrameIs DEF Good
  <2>2. m[f.epoch] \in Offsets /\ m2[f.epoch] \in Offsets /\ m[f.epoch] <= m2[f.epoch] /\ n <= n2
    BY <2>1 DEF Grows
  <2>4. f.to \in Int /\ m[f.epoch] \in Int /\ m2[f.epoch] \in Int /\ f.epoch \in Int /\ n \in Int /\ n2 \in Int
    BY <2>1, <2>2, OffsetsAre
  <2>3. f.to <= m2[f.epoch] /\ f.epoch <= n2 BY <2>1, <2>2, <2>4, Between
  <2> QED BY <1>2, <2>3 DEF Good
<1>3. CASE f.type \in {"exit", "close"} BY <1>3 DEF Good
<1> QED BY <1>1, <1>2, <1>3, FrameIs

LEMMA ContinuesStays ==
  ASSUME NEW m \in [Epochs -> Offsets], NEW e, NEW n \in Nat,
         NEW m2 \in [Epochs -> Offsets], NEW e2, NEW n2 \in Nat,
         Grows(m, e, n, m2, e2, n2), NEW f \in Frames, NEW g \in Frames, Good(f, m, n),
         Continues(f, g, m, e)
  PROVE  Continues(f, g, m2, e2)
<1>1. CASE Settled(f) /\ g.type = "exit" /\ EndOf(f) = m[f.epoch] /\ f.epoch # e
  <2>1. f.epoch \in Epochs /\ f.epoch <= n BY <1>1, FrameIs DEF Good, Settled
  <2>2. m2[f.epoch] = m[f.epoch] /\ f.epoch # e2 BY <1>1, <2>1 DEF Grows
  <2> QED BY <1>1, <2>2 DEF Continues
<1>2. CASE ~(Settled(f) /\ g.type = "exit" /\ EndOf(f) = m[f.epoch] /\ f.epoch # e)
  BY <1>2 DEF Continues
<1> QED BY <1>1, <1>2

LEMMA RunGrows ==
  ASSUME NEW m \in [Epochs -> Offsets], NEW e, NEW n \in Nat,
         NEW m2 \in [Epochs -> Offsets], NEW e2, NEW n2 \in Nat,
         Grows(m, e, n, m2, e2, n2), NEW w \in Seq(Frames), RunOf(w, m, e, n)
  PROVE  RunOf(w, m2, e2, n2)
<1>1. \A i \in 1..Len(w) : w[i] \in Frames BY ElementOfSeq
<1>2. \A i \in 1..Len(w) : Good(w[i], m, n) BY DEF RunOf
<1>3. \A i \in 1..Len(w) : Good(w[i], m2, n2) BY <1>1, <1>2, GoodStays
<1>4. ASSUME NEW i \in 1..Len(w), i < Len(w) PROVE Continues(w[i], w[i + 1], m2, e2)
  <2>1. Len(w) \in Nat BY LenProperties
  <2>2. i + 1 \in 1..Len(w) BY <1>4, <2>1
  <2>3. Continues(w[i], w[i + 1], m, e) BY <1>4 DEF RunOf
  <2> HIDE DEF Continues
  <2> QED BY <1>1, <1>2, <2>2, <2>3, ContinuesStays
<1> QED BY <1>3, <1>4 DEF RunOf

LEMMA NoRun == ASSUME NEW m, NEW e, NEW n PROVE RunOf(<<>>, m, e, n)
BY DEF RunOf

\* One frame more.
LEMMA RunAppends ==
  ASSUME NEW m, NEW e, NEW n, NEW w \in Seq(Frames), RunOf(w, m, e, n), NEW f \in Frames,
         Good(f, m, n), w # <<>> => Continues(w[Len(w)], f, m, e)
  PROVE  LET v == Append(w, f) IN
         /\ v \in Seq(Frames) /\ v # <<>> /\ RunOf(v, m, e, n)
         /\ v[Len(v)] = f /\ v[1] = IF w = <<>> THEN f ELSE w[1]
<1> DEFINE v == Append(w, f)
<1>0. Len(w) \in Nat /\ (w # <<>> => Len(w) > 0) /\ (w = <<>> => Len(w) = 0) BY LenProperties, EmptySeq
<1>1. /\ v \in Seq(Frames) /\ Len(v) = Len(w) + 1 /\ v[Len(w) + 1] = f
      /\ \A i \in 1..Len(w) : v[i] = w[i]
  BY <1>0
<1> HIDE DEF v
<1>2. v # <<>> BY <1>0, <1>1
<1>3. v[Len(v)] = f BY <1>1
<1>4. v[1] = IF w = <<>> THEN f ELSE w[1] BY <1>0, <1>1
<1>5. \A i \in 1..Len(v) : Good(v[i], m, n)
  <2> SUFFICES ASSUME NEW i \in 1..Len(v) PROVE Good(v[i], m, n) OBVIOUS
  <2>1. CASE i \in 1..Len(w) BY <1>1, <2>1 DEF RunOf
  <2>2. CASE i = Len(w) + 1 BY <1>1, <2>2
  <2> QED BY <1>0, <1>1, <2>1, <2>2
<1>6. \A i \in 1..Len(v) : i < Len(v) => Continues(v[i], v[i + 1], m, e)
  <2> SUFFICES ASSUME NEW i \in 1..Len(v), i < Len(v) PROVE Continues(v[i], v[i + 1], m, e) OBVIOUS
  <2>0. i \in 1..Len(w) /\ v[i] = w[i] BY <1>0, <1>1
  <2>1. CASE i < Len(w)
    <3>1. Continues(w[i], w[i + 1], m, e) BY <2>0, <2>1 DEF RunOf
    <3>2. v[i + 1] = w[i + 1] BY <1>0, <1>1, <2>0, <2>1
    <3> QED BY <2>0, <3>1, <3>2
  <2>2. CASE i = Len(w)
    <3>1. w # <<>> /\ v[i + 1] = f BY <1>0, <1>1, <2>0, <2>2
    <3> QED BY <2>0, <2>2, <3>1
  <2> QED BY <1>0, <2>0, <2>1, <2>2
<1>7. RunOf(v, m, e, n) BY <1>5, <1>6 DEF RunOf
<1> QED BY <1>1, <1>2, <1>3, <1>4, <1>7 DEF v

\* One frame less, at the front.
LEMMA RunTails ==
  ASSUME NEW m, NEW e, NEW n, NEW w \in Seq(Frames), w # <<>>, RunOf(w, m, e, n)
  PROVE  LET v == Tail(w) IN
         /\ v \in Seq(Frames) /\ RunOf(v, m, e, n) /\ w[1] \in Frames /\ Good(w[1], m, n)
         /\ Head(w) = w[1]
         /\ v # <<>> => /\ v[1] \in Frames /\ v[Len(v)] = w[Len(w)] /\ Continues(w[1], v[1], m, e)
         /\ v = <<>> => w[Len(w)] = w[1]
<1> DEFINE v == Tail(w)
<1>0. Len(w) \in Nat /\ Len(w) > 0 BY LenProperties, EmptySeq
<1>1. /\ v \in Seq(Frames) /\ Len(v) = Len(w) - 1 /\ \A i \in 1..Len(v) : v[i] = w[i + 1]
      /\ Head(w) = w[1]
  BY HeadTailProperties
<1> HIDE DEF v
<1>2. v = <<>> \/ Len(v) > 0
  <2>1. v # <<>> => Len(v) \in Nat \ {0} BY <1>1, EmptySeq
  <2> QED BY <2>1
<1>3. w[1] \in Frames BY <1>0, ElementOfSeq
<1>4. \A i \in 1..Len(v) : Good(v[i], m, n)
  <2> SUFFICES ASSUME NEW i \in 1..Len(v) PROVE Good(v[i], m, n) OBVIOUS
  <2>1. i + 1 \in 1..Len(w) /\ v[i] = w[i + 1] BY <1>0, <1>1
  <2> QED BY <2>1 DEF RunOf
<1>5. \A i \in 1..Len(v) : i < Len(v) => Continues(v[i], v[i + 1], m, e)
  <2> SUFFICES ASSUME NEW i \in 1..Len(v), i < Len(v) PROVE Continues(v[i], v[i + 1], m, e) OBVIOUS
  <2>1. i + 1 \in 1..Len(w) /\ i + 1 < Len(w) /\ v[i] = w[i + 1] BY <1>0, <1>1
  <2>2. v[i + 1] = w[(i + 1) + 1] BY <1>0, <1>1
  <2>3. Continues(w[i + 1], w[(i + 1) + 1], m, e) BY <2>1 DEF RunOf
  <2> QED BY <2>1, <2>2, <2>3
<1>6. Good(w[1], m, n) BY <1>0 DEF RunOf
<1>7. ASSUME v # <<>> PROVE v[1] \in Frames /\ v[Len(v)] = w[Len(w)] /\ Continues(w[1], v[1], m, e)
  <2>1. Len(v) > 0 BY <1>2, <1>7
  <2>2. 1 \in 1..Len(w) /\ 1 < Len(w) /\ v[1] = w[1 + 1] /\ v[Len(v)] = w[Len(w)] BY <1>0, <1>1, <2>1
  <2>3. Continues(w[1], w[1 + 1], m, e) BY <2>2 DEF RunOf
  <2>4. w[1 + 1] \in Frames BY <1>0, <2>2, ElementOfSeq
  <2> QED BY <2>2, <2>3, <2>4
<1>8. v = <<>> => w[Len(w)] = w[1]
  <2>1. v = <<>> => Len(v) = 0 BY EmptySeq
  <2>2. v = <<>> => Len(w) = 1 BY <1>0, <1>1, <2>1
  <2> QED BY <2>2
<1>9. RunOf(v, m, e, n) BY <1>4, <1>5 DEF RunOf
<1> QED BY <1>1, <1>3, <1>6, <1>7, <1>8, <1>9 DEF v

\* A run that begins with a close is one frame long: nothing comes behind a close.
LEMMA CloseIsLast ==
  ASSUME NEW m, NEW e, NEW n, NEW w \in Seq(Frames), w # <<>>, RunOf(w, m, e, n),
         w[1].type = "close"
  PROVE  Len(w) = 1
<1>0. Len(w) \in Nat /\ Len(w) > 0 BY LenProperties, EmptySeq
<1>1. ~(1 < Len(w))
  <2> SUFFICES ASSUME 1 < Len(w) PROVE FALSE OBVIOUS
  <2>1. 1 \in 1..Len(w) /\ 1 < Len(w) BY <1>0
  <2>2. Continues(w[1], w[1 + 1], m, e) BY <2>1 DEF RunOf
  <2> QED BY <2>2 DEF Continues, Settled
<1>2. \A k \in Nat : k > 0 /\ ~(1 < k) => k = 1 OBVIOUS
<1> QED BY <1>0, <1>1, <1>2

\* Appending one frame at a time.
LEMMA ConcatOne ==
  ASSUME NEW w \in Seq(Frames), NEW f \in Frames
  PROVE  w \o <<f>> = Append(w, f) /\ Append(w, f) \in Seq(Frames)
<1>0. Len(w) \in Nat BY LenProperties
<1>1. <<f>> \in Seq(Frames) /\ Len(<<f>>) = 1 /\ <<f>>[1] = f OBVIOUS
<1>2. /\ Append(w, f) \in Seq(Frames) /\ Len(Append(w, f)) = Len(w) + 1
      /\ \A i \in 1..(Len(w) + 1) : Append(w, f)[i] = IF i <= Len(w) THEN w[i] ELSE f
  BY <1>0
<1>3. /\ w \o <<f>> \in Seq(Frames) /\ Len(w \o <<f>>) = Len(w) + 1
      /\ \A i \in 1..(Len(w) + 1) : (w \o <<f>>)[i] = IF i <= Len(w) THEN w[i] ELSE f
  <2>1. /\ w \o <<f>> \in Seq(Frames) /\ Len(w \o <<f>>) = Len(w) + Len(<<f>>)
        /\ \A i \in 1..(Len(w) + Len(<<f>>)) :
             (w \o <<f>>)[i] = IF i <= Len(w) THEN w[i] ELSE <<f>>[i - Len(w)]
    BY <1>1, ConcatProperties
  <2> DEFINE v == w \o <<f>>
             u == <<f>>
  <2> HIDE DEF v, u
  <2>2. Len(u) = 1 /\ u[1] = f BY <1>1 DEF u
  <2>3. /\ Len(v) = Len(w) + 1 /\ v \in Seq(Frames)
        /\ \A i \in 1..(Len(w) + 1) : v[i] = IF i <= Len(w) THEN w[i] ELSE u[i - Len(w)]
    BY <2>1, <2>2 DEF v, u
  <2>4. \A i \in 1..(Len(w) + 1) : ~(i <= Len(w)) => i - Len(w) = 1 BY <1>0
  <2>5. \A i \in 1..(Len(w) + 1) : v[i] = IF i <= Len(w) THEN w[i] ELSE f BY <2>2, <2>3, <2>4
  <2> QED BY <2>3, <2>5 DEF v
<1> DEFINE a == Append(w, f)
           c == w \o <<f>>
<1> HIDE DEF a, c
<1>4. Len(a) = Len(c) /\ \A i \in 1..Len(a) : a[i] = c[i] BY <1>2, <1>3 DEF a, c
<1>5. a = c BY <1>2, <1>3, <1>4, SeqEqual DEF a, c
<1> QED BY <1>2, <1>5 DEF a, c

LEMMA ConcatIs ==
  ASSUME NEW w \in Seq(Frames)
  PROVE  /\ w \o <<>> = w
         /\ \A f \in Frames : w \o <<f>> = Append(w, f) /\ Append(w, f) \in Seq(Frames)
         /\ \A f, g \in Frames : /\ w \o (<<f>> \o <<g>>) = Append(Append(w, f), g)
                                 /\ w \o <<f, g>> = Append(Append(w, f), g)
         /\ \A f, g, h \in Frames : w \o (<<f, g>> \o <<h>>) = Append(Append(Append(w, f), g), h)
<1>1. w \o <<>> = w BY ConcatEmptySeq
<1>2. \A f \in Frames : <<f>> \in Seq(Frames) OBVIOUS
<1>3. ASSUME NEW f \in Frames, NEW g \in Frames
      PROVE  <<f>> \o <<g>> = <<f, g>> /\ <<f, g>> \in Seq(Frames)
             /\ w \o (<<f>> \o <<g>>) = Append(Append(w, f), g)
  <2>1. <<f>> \o <<g>> = Append(<<f>>, g) BY <1>2, ConcatOne
  <2>2. Append(<<f>>, g) = <<f, g>> /\ <<f, g>> \in Seq(Frames)
    <3> DEFINE u == <<f>>
               v == <<f, g>>
               a == Append(u, g)
    <3>1. v \in Seq(Frames) /\ Len(v) = 2 /\ v[1] = f /\ v[2] = g OBVIOUS
    <3>2. u \in Seq(Frames) /\ Len(u) = 1 /\ u[1] = f OBVIOUS
    <3> HIDE DEF u, v
    <3>3. /\ a \in Seq(Frames) /\ Len(a) = Len(u) + 1 /\ \A i \in 1..Len(u) : a[i] = u[i]
          /\ a[Len(u) + 1] = g
      <4>1. u \in Seq(Frames) BY <3>2
      <4> QED BY <4>1
    <3> HIDE DEF a
    <3>4. Len(a) = 2 /\ a[1] = f /\ a[2] = g BY <3>2, <3>3
    <3>5. Len(a) = Len(v) /\ \A i \in 1..Len(a) : a[i] = v[i] BY <3>1, <3>4
    <3>6. a = v BY <3>1, <3>3, <3>5, SeqEqual
    <3> QED BY <3>1, <3>6 DEF a, u, v
  <2>3. w \o (<<f>> \o <<g>>) = (w \o <<f>>) \o <<g>> BY <1>2, ConcatAssociative
  <2>4. w \o <<f>> = Append(w, f) /\ Append(w, f) \in Seq(Frames) BY ConcatOne
  <2>5. Append(w, f) \o <<g>> = Append(Append(w, f), g) BY <2>4, ConcatOne
  <2> QED BY <2>1, <2>2, <2>3, <2>4, <2>5
<1>4. ASSUME NEW f \in Frames, NEW g \in Frames, NEW h \in Frames
      PROVE  w \o (<<f, g>> \o <<h>>) = Append(Append(Append(w, f), g), h)
  <2> DEFINE v == Append(Append(w, f), g)
  <2>1. <<f, g>> \in Seq(Frames) /\ w \o <<f, g>> = v BY <1>3
  <2>2. w \o (<<f, g>> \o <<h>>) = (w \o <<f, g>>) \o <<h>> BY <1>2, <2>1, ConcatAssociative
  <2>3. Append(w, f) \in Seq(Frames) BY ConcatOne
  <2>4. v \in Seq(Frames) BY <2>3, ConcatOne
  <2> HIDE DEF v
  <2>5. v \o <<h>> = Append(v, h) BY <2>4, ConcatOne
  <2> QED BY <2>1, <2>2, <2>5 DEF v
<1>5. \A f \in Frames : w \o <<f>> = Append(w, f) /\ Append(w, f) \in Seq(Frames) BY ConcatOne
<1> QED BY <1>1, <1>3, <1>4, <1>5

-----------------------------------------------------------------------------
(***************************************************************************)
(* One socket.  w is its wire, v the server's end, b the browser's, c the  *)
(* viewer; m is what the processes wrote, e the live one, n how many there *)
(* were, and t what the sockets have been sent.                            *)
(***************************************************************************)
Viewer == [active |-> active, seen |-> seen, expected |-> expected,
           received |-> received, screen |-> screen]
Screens == [epoch : {0} \cup Epochs, from : Offsets, to : Offsets, exact : BOOLEAN]
Viewers == [active : BOOLEAN, seen : {0} \cup Epochs, expected : {Nothing} \cup Offsets,
            received : Offsets, screen : Screens]

\* The viewer has all that the process it saw last has written.
Finished(c, m, e) == c.expected = Nothing /\ c.received = m[c.seen] /\ c.seen # e

\* The frame that arrives next is the one the viewer is ready for.
Fits(f, c, m, e) ==
  /\ f.type = "attached" =>
       /\ c.seen <= f.epoch
       /\ c.active => f.gap > 0 \/ (c.seen # 0 /\ c.seen # f.epoch) \/ f.base = c.received
       /\ f.epoch = 1 /\ f.gap = 0 /\ c.screen = Blank => f.base = 0
  /\ f.type = "bytes" =>
       /\ f.epoch = 1 /\ c.screen = Blank => f.from = 0
       /\ c.seen = 0 => ~c.active /\ c.expected = Nothing /\ c.received <= f.from
       /\ c.seen # 0 => /\ c.seen = f.epoch
                        /\ c.expected = f.to \/ (c.expected = Nothing /\ c.received = f.from)
                        /\ c.active /\ c.screen # Blank => c.received = f.from
  /\ f.type = "exit" /\ c.seen # 0 => Finished(c, m, e)

\* Nothing is on its way: the viewer is where the server is.
Level(v, c, e, n, t) ==
  /\ v.at = "asked" => /\ c.active => v.offset = c.received
                       /\ n <= 1 /\ c.screen = Blank => v.offset = 0
  /\ v.at = "live" => /\ c.expected = Nothing
                      /\ e = 1 /\ c.screen = Blank => t = 0
                      /\ c.seen = 0 => ~c.active /\ c.received <= t
                      /\ c.seen # 0 => c.seen = e /\ c.received = t

\* The last frame is where the server is.
EndsAt(f, e, t) == Settled(f) /\ EndOf(f) = t /\ f.epoch = e

UpInv(w, v, c, m, e, n, t) ==
  /\ RunOf(w, m, e, n)
  /\ v.at \in {"asked", "snapshot"} => w = <<>>
  /\ v.at = "live" /\ w # <<>> => EndsAt(w[Len(w)], e, t)
  /\ v.at = "none" => w # <<>> /\ w[Len(w)].type = "close"
  /\ w = <<>> => Level(v, c, e, n, t)
  /\ w # <<>> => Fits(w[1], c, m, e)

SocketInv(w, v, b, c, m, e, n, t) ==
  /\ v.at \in {"live", "snapshot"} => e # 0
  /\ v.at = "snapshot" => v.gap > 0 /\ 0 < v.next /\ v.next <= t
  /\ b = "none" => v = Idle /\ w = <<>>
  /\ b = "closing" /\ w # <<>> => v = Idle /\ w[1].type = "close" /\ Len(w) = 1
  /\ b = "up" => UpInv(w, v, c, m, e, n, t)

LEMMA EndIs ==
  /\ Idle.at = "none" /\ Idle \in Ends /\ Live.at = "live" /\ Live \in Ends /\ Idle # Live
  /\ \A v \in Ends : /\ v.at \in {"none", "asked", "snapshot", "live"}
                     /\ v.at = "none" => v = Idle
                     /\ v.at = "live" => v = Live
                     /\ v.at = "asked" => v.offset \in Offsets
                     /\ v.at = "snapshot" => v.gap \in Offsets /\ v.next \in Offsets
BY DEF Ends, Idle, Live

LEMMA FitsStays ==
  ASSUME NEW m, NEW e, NEW n, NEW m2, NEW e2, NEW n2, Grows(m, e, n, m2, e2, n2),
         NEW c \in Viewers, c.seen <= n, NEW f, Fits(f, c, m, e)
  PROVE  Fits(f, c, m2, e2)
<1>1. CASE f.type = "exit" /\ c.seen # 0
  <2>1. Finished(c, m, e) BY <1>1 DEF Fits
  <2>2. c.seen \in Epochs BY <1>1 DEF Viewers
  <2>3. m2[c.seen] = m[c.seen] /\ c.seen # e2 BY <2>1, <2>2 DEF Finished, Grows
  <2>4. Finished(c, m2, e2) BY <2>1, <2>3 DEF Finished
  <2> QED BY <1>1, <2>4 DEF Fits
<1>2. CASE ~(f.type = "exit" /\ c.seen # 0) BY <1>2 DEF Fits
<1> QED BY <1>1, <1>2

\* A socket that nothing is sent to.
LEMMA SocketStays ==
  ASSUME NEW m \in [Epochs -> Offsets], NEW e, NEW n \in Nat, NEW t \in Int,
         NEW m2 \in [Epochs -> Offsets], NEW e2, NEW n2 \in Nat, NEW t2 \in Int,
         Grows(m, e, n, m2, e2, n2),
         NEW c \in Viewers, c.seen <= n,
         NEW w \in Seq(Frames), NEW v \in Ends, NEW b, SocketInv(w, v, b, c, m, e, n, t),
         v.at \in {"live", "snapshot"} => e2 = e,
         v.at = "live" => t2 = t, v.at = "snapshot" => t <= t2
  PROVE  SocketInv(w, v, b, c, m2, e2, n2, t2)
<1>1. v.at = "snapshot" => v.next <= t2
  <2> SUFFICES ASSUME v.at = "snapshot" PROVE v.next <= t2 OBVIOUS
  <2>1. v.next \in Int /\ v.next <= t /\ t <= t2 BY EndIs, OffsetsAre DEF SocketInv
  <2> QED BY <2>1
<1>2. ASSUME b = "up" PROVE UpInv(w, v, c, m2, e2, n2, t2)
  <2>0. UpInv(w, v, c, m, e, n, t) BY <1>2 DEF SocketInv
  <2>1. RunOf(w, m2, e2, n2) BY <2>0, RunGrows DEF UpInv
  <2>2. w # <<>> => Fits(w[1], c, m2, e2) BY <2>0, FitsStays DEF UpInv
  <2>3. w = <<>> => Level(v, c, e2, n2, t2)
    <3> SUFFICES ASSUME w = <<>> PROVE Level(v, c, e2, n2, t2) OBVIOUS
    <3>1. Level(v, c, e, n, t) BY <2>0 DEF UpInv
    <3>2. n2 <= 1 => n <= 1 BY DEF Grows
    <3> QED BY <3>1, <3>2 DEF Level
  <2>4. v.at = "live" => e2 = e /\ t2 = t OBVIOUS
  <2> QED BY <2>0, <2>1, <2>2, <2>3, <2>4 DEF UpInv
<1> QED BY <1>1, <1>2 DEF SocketInv

\* A socket that is closed by the server, or by the network.
LEMMA SocketCloses ==
  ASSUME NEW c, NEW m, NEW e, NEW n, NEW t, NEW b, b # "none", NEW code \in {"drop", "end"}
  PROVE  /\ <<Close(code)>> \in Seq(Frames) /\ Append(<<>>, Close(code)) = <<Close(code)>>
         /\ SocketInv(<<Close(code)>>, Idle, b, c, m, e, n, t)
<1> DEFINE f == Close(code)
           w == <<f>>
<1>1. f \in Frames /\ f.type = "close" BY FramesAre
<1>2. Good(f, m, n) BY <1>1 DEF Good
<1>3. Append(<<>>, f) = w OBVIOUS
<1> HIDE DEF f
<1>4. w \in Seq(Frames) /\ w # <<>> /\ Len(w) = 1 /\ w[1] = f /\ w[Len(w)] = f BY <1>1
<1> HIDE DEF w
<1>5. RunOf(w, m, e, n)
  <2>1. \A i \in 1..Len(w) : i = 1 BY <1>4
  <2> QED BY <1>2, <1>4, <2>1 DEF RunOf
<1>6. Fits(w[1], c, m, e) BY <1>1, <1>4 DEF Fits
<1>7. Idle.at = "none" BY EndIs
<1>8. UpInv(w, Idle, c, m, e, n, t) BY <1>1, <1>4, <1>5, <1>6, <1>7 DEF UpInv
<1>9. SocketInv(w, Idle, b, c, m, e, n, t) BY <1>1, <1>4, <1>7, <1>8 DEF SocketInv
<1> QED BY <1>3, <1>4, <1>9 DEF f, w

LEMMA BytesIs ==
  ASSUME NEW a \in Offsets, NEW z \in Offsets, NEW p \in Epochs
  PROVE  /\ Bytes(a, z, p) \in Frames /\ Bytes(a, z, p).type = "bytes" /\ Bytes(a, z, p).epoch = p
         /\ Bytes(a, z, p).from = a /\ Bytes(a, z, p).to = z
BY FramesAre DEF Bytes

LEMMA AttachedIs ==
  ASSUME NEW k \in Offsets, NEW g \in Offsets, NEW z \in Offsets, NEW r \in BOOLEAN, NEW p \in Epochs
  PROVE  LET f == Attached(k, g, z, r, p) IN
         /\ f \in Frames /\ f.type = "attached" /\ f.epoch = p
         /\ f.base = k /\ f.gap = g /\ f.next = z /\ f.replay = r
BY FramesAre DEF Attached

\* A live socket that the browser holds up is sent the bytes from t to t2.
LEMMA UpSends ==
  ASSUME NEW m \in [Epochs -> Offsets], NEW e \in Epochs, NEW n \in Nat, NEW t \in Offsets,
         NEW m2 \in [Epochs -> Offsets], NEW t2 \in Offsets,
         Grows(m, e, n, m2, e, n), e <= n, t <= t2, t2 <= m2[e],
         NEW c \in Viewers, c.seen <= n,
         NEW w \in Seq(Frames), NEW v, v.at = "live", UpInv(w, v, c, m, e, n, t)
  PROVE  LET w2 == w \o (IF t < t2 THEN <<Bytes(t, t2, e)>> ELSE <<>>) IN
         w2 \in Seq(Frames) /\ UpInv(w2, v, c, m2, e, n, t2)
<1>1. RunOf(w, m2, e, n) BY RunGrows DEF UpInv
<1>2. w # <<>> => Fits(w[1], c, m2, e) BY FitsStays DEF UpInv
<1>3. CASE ~(t < t2)
  <2>1. t2 = t BY <1>3, OffsetsAre
  <2>2. w \o <<>> = w BY ConcatIs
  <2>3. UpInv(w, v, c, m2, e, n, t2) BY <1>1, <1>2, <2>1 DEF UpInv
  <2> QED BY <1>3, <2>2, <2>3
<1>4. CASE t < t2
  <2> DEFINE f == Bytes(t, t2, e)
             w2 == Append(w, f)
  <2>1. f \in Frames /\ f.type = "bytes" /\ f.epoch = e /\ f.from = t /\ f.to = t2 BY BytesIs
  <2>2. w \o <<f>> = w2 BY <2>1, ConcatIs
  <2> HIDE DEF f
  <2>3. Good(f, m2, n) BY <1>4, <2>1 DEF Good
  <2>4. w # <<>> => Continues(w[Len(w)], f, m2, e) BY <2>1 DEF UpInv, EndsAt, Continues
  <2>5. /\ w2 \in Seq(Frames) /\ w2 # <<>> /\ RunOf(w2, m2, e, n)
        /\ w2[Len(w2)] = f /\ w2[1] = IF w = <<>> THEN f ELSE w[1]
    BY <1>1, <2>1, <2>3, <2>4, RunAppends
  <2> HIDE DEF w2
  <2>6. w = <<>> => Fits(f, c, m2, e)
    <3> SUFFICES ASSUME w = <<>> PROVE Fits(f, c, m2, e) OBVIOUS
    <3>1. Level(v, c, e, n, t) BY DEF UpInv
    <3>2. /\ c.expected = Nothing /\ (e = 1 /\ c.screen = Blank => t = 0)
          /\ (c.seen = 0 => ~c.active /\ c.received <= t) /\ (c.seen # 0 => c.seen = e /\ c.received = t)
      BY <3>1 DEF Level
    <3> QED BY <2>1, <3>2 DEF Fits
  <2>7. Fits(w2[1], c, m2, e) BY <1>2, <2>5, <2>6
  <2>8. EndsAt(w2[Len(w2)], e, t2) BY <2>1, <2>5 DEF EndsAt, Settled, EndOf
  <2>9. UpInv(w2, v, c, m2, e, n, t2) BY <2>5, <2>7, <2>8 DEF UpInv
  <2> QED BY <1>4, <2>2, <2>5, <2>9 DEF f
<1> QED BY <1>3, <1>4

LEMMA SocketSends ==
  ASSUME NEW m \in [Epochs -> Offsets], NEW e \in Epochs, NEW n \in Nat, NEW t \in Offsets,
         NEW m2 \in [Epochs -> Offsets], NEW t2 \in Offsets,
         Grows(m, e, n, m2, e, n), e <= n, t <= t2, t2 <= m2[e],
         NEW c \in Viewers, c.seen <= n,
         NEW w \in Seq(Frames), NEW v \in Ends, NEW b \in {"none", "up", "closing"},
         SocketInv(w, v, b, c, m, e, n, t), v.at = "live"
  PROVE  LET w2 == IF b = "closing" THEN w
                   ELSE w \o (IF t < t2 THEN <<Bytes(t, t2, e)>> ELSE <<>>) IN
         w2 \in Seq(Frames) /\ SocketInv(w2, v, b, c, m2, e, n, t2)
<1>0. v # Idle BY EndIs
<1>1. b # "none" BY <1>0 DEF SocketInv
<1>2. CASE b = "closing"
  <2>1. w = <<>> BY <1>0, <1>2 DEF SocketInv
  <2>2. e # 0 BY OffsetsAre
  <2> QED BY <1>2, <2>1, <2>2 DEF SocketInv
<1>3. CASE b = "up"
  <2> DEFINE w2 == w \o (IF t < t2 THEN <<Bytes(t, t2, e)>> ELSE <<>>)
  <2>1. UpInv(w, v, c, m, e, n, t) BY <1>3 DEF SocketInv
  <2>2. w2 \in Seq(Frames) /\ UpInv(w2, v, c, m2, e, n, t2) BY <2>1, UpSends
  <2> HIDE DEF w2
  <2>3. SocketInv(w2, v, b, c, m2, e, n, t2) BY <1>3, <2>2, OffsetsAre DEF SocketInv
  <2> QED BY <1>3, <2>2, <2>3 DEF w2
<1> QED BY <1>1, <1>2, <1>3

\* The process exits: the tail of its output, the exit frame, the close.
LEMMA SocketExits ==
  ASSUME NEW m \in [Epochs -> Offsets], NEW e \in Epochs, NEW n \in Nat, NEW t \in Offsets,
         e <= n, t <= m[e], NEW c \in Viewers, c.seen <= n,
         NEW w \in Seq(Frames), NEW v \in Ends,
         SocketInv(w, v, "up", c, m, e, n, t), v.at = "live", NEW t2
  PROVE  LET w2 == (w \o (IF t < m[e] THEN <<Bytes(t, m[e], e)>> ELSE <<>>))
                     \o <<ExitFrame, Close("drop")>> IN
         w2 \in Seq(Frames) /\ SocketInv(w2, Idle, "up", c, m, 0, n, t2)
<1> DEFINE z == m[e]
           w1 == w \o (IF t < z THEN <<Bytes(t, z, e)>> ELSE <<>>)
           x == ExitFrame
           f == Close("drop")
           wx == Append(w1, x)
           wf == Append(wx, f)
<1>0. z \in Offsets /\ z <= z BY OffsetsAre
<1>1. Grows(m, e, n, m, e, n)
  <2>1. \A p \in Epochs : m[p] <= m[p] BY OffsetsAre
  <2>2. n <= n OBVIOUS
  <2> QED BY <2>1, <2>2 DEF Grows
<1>2. Grows(m, e, n, m, 0, n)
  <2>1. \A p \in Epochs : m[p] <= m[p] /\ p # 0 BY OffsetsAre
  <2>2. n <= n OBVIOUS
  <2> QED BY <2>1, <2>2 DEF Grows
<1>3. UpInv(w, v, c, m, e, n, t) BY DEF SocketInv
<1>4. w1 \in Seq(Frames) /\ UpInv(w1, v, c, m, e, n, z) BY <1>0, <1>1, <1>3, UpSends
<1>5. x \in Frames /\ x.type = "exit" /\ f \in Frames /\ f.type = "close" BY FramesAre DEF ExitFrame
<1>6. w1 \o <<x, f>> = wf BY <1>4, <1>5, ConcatIs
<1>6a. z = m[e] OBVIOUS
<1> HIDE DEF w1, x, f, z
<1>7. RunOf(w1, m, 0, n) BY <1>2, <1>4, RunGrows DEF UpInv
<1>8. w1 # <<>> => Fits(w1[1], c, m, 0) BY <1>2, <1>4, FitsStays DEF UpInv
<1>9. w1 # <<>> => Continues(w1[Len(w1)], x, m, 0)
  <2> SUFFICES ASSUME w1 # <<>> PROVE Continues(w1[Len(w1)], x, m, 0) OBVIOUS
  <2>1. EndsAt(w1[Len(w1)], e, z) BY <1>4 DEF UpInv
  <2>2. e # 0 BY OffsetsAre
  <2> QED BY <1>5, <1>6a, <2>1, <2>2 DEF EndsAt, Continues
<1>10. w1 = <<>> => Fits(x, c, m, 0)
  <2> SUFFICES ASSUME w1 = <<>>, c.seen # 0 PROVE Finished(c, m, 0) BY <1>5 DEF Fits
  <2>1. Level(v, c, e, n, z) BY <1>4 DEF UpInv
  <2>2. c.expected = Nothing /\ c.seen = e /\ c.received = z BY <2>1 DEF Level
  <2> QED BY <1>6a, <2>2, OffsetsAre DEF Finished
<1>11. Good(x, m, n) /\ Good(f, m, n) BY <1>5 DEF Good
<1>12. /\ wx \in Seq(Frames) /\ wx # <<>> /\ RunOf(wx, m, 0, n)
       /\ wx[Len(wx)] = x /\ wx[1] = IF w1 = <<>> THEN x ELSE w1[1]
  BY <1>4, <1>5, <1>7, <1>9, <1>11, RunAppends
<1> HIDE DEF wx
<1>13. Continues(wx[Len(wx)], f, m, 0) BY <1>5, <1>12 DEF Continues
<1>14. /\ wf \in Seq(Frames) /\ wf # <<>> /\ RunOf(wf, m, 0, n)
       /\ wf[Len(wf)] = f /\ wf[1] = wx[1]
  BY <1>5, <1>11, <1>12, <1>13, RunAppends
<1> HIDE DEF wf
<1>15. Fits(wf[1], c, m, 0) BY <1>8, <1>10, <1>12, <1>14
<1>16. UpInv(wf, Idle, c, m, 0, n, t2) BY <1>5, <1>14, <1>15, EndIs DEF UpInv
<1>17. SocketInv(wf, Idle, "up", c, m, 0, n, t2) BY <1>16, EndIs DEF SocketInv
<1> QED BY <1>6, <1>14, <1>17 DEF w1, x, f, z

\* Where the viewer's offset and the bytes it has seen must be for the handshake.
Sound(c, m) ==
  c.active => /\ c.seen = 0 => c.received = 0
              /\ c.seen # 0 => c.received <= m[c.seen]

\* What a client is sent when it is taken up: the replay, or the whole screen.
Upon(b, w, fs) == IF b = "closing" THEN w ELSE w \o fs
ReplayFrames(k, z, e) ==
  <<Attached(k, 0, z, k < z, e)>> \o (IF k < z THEN <<Bytes(k, z, e)>> ELSE <<>>)
ScreenFrames(v, t, e) ==
  <<Attached(v.next, v.gap, v.next, TRUE, e), Bytes(0, v.next, e)>>
    \o (IF v.next < t THEN <<Bytes(v.next, t, e)>> ELSE <<>>)

\* An attach without a gap: the replay and the join to the fan-out.
LEMMA SocketAttaches ==
  ASSUME NEW m \in [Epochs -> Offsets], NEW e \in Epochs, NEW n \in Nat, e = n, NEW t,
         NEW c \in Viewers, c.seen <= n, Sound(c, m),
         NEW w \in Seq(Frames), NEW v \in Ends, NEW b \in {"none", "up", "closing"},
         SocketInv(w, v, b, c, m, e, n, t), v.at = "asked",
         NEW k \in Offsets, k <= m[e], v.offset <= m[e] => k = v.offset
  PROVE  LET w2 == Upon(b, w, ReplayFrames(k, m[e], e)) IN
         w2 \in Seq(Frames) /\ SocketInv(w2, Live, b, c, m, e, n, m[e])
<1> SUFFICES LET w2 == IF b = "closing" THEN w
                       ELSE w \o (<<Attached(k, 0, m[e], k < m[e], e)>>
                                    \o (IF k < m[e] THEN <<Bytes(k, m[e], e)>> ELSE <<>>)) IN
             w2 \in Seq(Frames) /\ SocketInv(w2, Live, b, c, m, e, n, m[e])
  BY DEF Upon, ReplayFrames
<1>0. v # Idle /\ e # 0 BY EndIs, OffsetsAre
<1>1. b # "none" BY <1>0 DEF SocketInv
<1>2. CASE b = "closing"
  <2>1. w = <<>> BY <1>0, <1>2 DEF SocketInv
  <2> QED BY <1>0, <1>2, <2>1, EndIs DEF SocketInv
<1>3. CASE b = "up"
  <2> DEFINE z == m[e]
             r == k < z
             f == Attached(k, 0, z, r, e)
             g == Bytes(k, z, e)
             w1 == Append(w, f)
             w2 == Append(w1, g)
  <2>0. UpInv(w, v, c, m, e, n, t) BY <1>3 DEF SocketInv
  <2>1. w = <<>> /\ Level(v, c, e, n, t) BY <2>0 DEF UpInv
  <2>2. z \in Offsets /\ r \in BOOLEAN /\ 0 \in Offsets BY OffsetsAre
  <2>6. z = m[e] /\ (r <=> k < z) /\ k <= z OBVIOUS
  <2>6a. ~r => k = z BY <2>2, <2>6, OffsetsAre
  <2> HIDE DEF z, r
  <2>3. /\ f \in Frames /\ f.type = "attached" /\ f.epoch = e
        /\ f.base = k /\ f.gap = 0 /\ f.next = z /\ f.replay = r
    BY <2>2, AttachedIs
  <2>4. g \in Frames /\ g.type = "bytes" /\ g.epoch = e /\ g.from = k /\ g.to = z
    BY <2>2, BytesIs
  <2>5. /\ w \o (<<f>> \o <<>>) = w1
        /\ w \o (<<f>> \o <<g>>) = w2
    <3>1. <<f>> \in Seq(Frames) BY <2>3
    <3>2. <<f>> \o <<>> = <<f>> BY <3>1, ConcatEmptySeq
    <3> QED BY <2>3, <2>4, <3>2, ConcatIs
  <2> HIDE DEF f, g
  <2>7. Good(f, m, n) BY <2>2, <2>3, <2>6, <2>6a, OffsetsAre DEF Good
  <2>8. /\ w1 \in Seq(Frames) /\ w1 # <<>> /\ RunOf(w1, m, e, n)
        /\ w1[Len(w1)] = f /\ w1[1] = f
    <3>1. RunOf(w, m, e, n) BY <2>0 DEF UpInv
    <3>2. w # <<>> => Continues(w[Len(w)], f, m, e) BY <2>1
    <3>3. f \in Frames /\ Good(f, m, n) BY <2>3, <2>7
    <3>4. /\ w1 \in Seq(Frames) /\ w1 # <<>> /\ RunOf(w1, m, e, n)
          /\ w1[Len(w1)] = f /\ w1[1] = IF w = <<>> THEN f ELSE w[1]
      BY <3>1, <3>2, <3>3, RunAppends
    <3> HIDE DEF w1
    <3> QED BY <2>1, <3>4
  <2>9. Fits(f, c, m, e)
    <3>1. c.seen <= e OBVIOUS
    <3>2. c.active => (c.seen # 0 /\ c.seen # e) \/ k = c.received
      <4> SUFFICES ASSUME c.active, ~(c.seen # 0 /\ c.seen # e) PROVE k = c.received OBVIOUS
      <4>1. v.offset = c.received BY <2>1 DEF Level
      <4>2. CASE c.seen = 0
        <5>1. c.received = 0 BY <4>2 DEF Sound
        <5>2. 0 <= z BY <2>2, OffsetsAre
        <5> QED BY <2>6, <4>1, <5>1, <5>2
      <4>3. CASE c.seen = e
        <5>1. c.received <= m[e] BY <1>0, <4>3 DEF Sound
        <5> QED BY <4>1, <5>1
      <4> QED BY <4>2, <4>3
    <3>3. e = 1 /\ c.screen = Blank => k = 0
      <4> SUFFICES ASSUME e = 1, c.screen = Blank PROVE k = 0 OBVIOUS
      <4>1. v.offset = 0 BY <2>1 DEF Level
      <4>2. 0 <= z BY <2>2, OffsetsAre
      <4> QED BY <2>6, <4>1, <4>2
    <3> QED BY <2>3, <3>1, <3>2, <3>3 DEF Fits
  <2>10. CASE ~r
    <3>1. EndsAt(w1[Len(w1)], e, z) BY <2>3, <2>8, <2>10 DEF EndsAt, Settled, EndOf
    <3>2. UpInv(w1, Live, c, m, e, n, z) BY <2>8, <2>9, <3>1, EndIs DEF UpInv
    <3>3. SocketInv(w1, Live, b, c, m, e, n, z) BY <1>0, <1>3, <3>2, EndIs DEF SocketInv
    <3> QED BY <1>3, <2>5, <2>6, <2>8, <2>10, <3>3 DEF f, g, z, r
  <2>11. CASE r
    <3> HIDE DEF w1
    <3>1. Good(g, m, n) BY <2>2, <2>4, <2>6, <2>11, OffsetsAre DEF Good
    <3>2. Continues(w1[Len(w1)], g, m, e)
      <4>1. f.replay BY <2>3, <2>11
      <4>2. g.from = IF f.gap > 0 THEN 0 ELSE f.base BY <2>3, <2>4
      <4>3. Continues(f, g, m, e) BY <2>3, <2>4, <4>1, <4>2 DEF Continues
      <4> QED BY <2>8, <4>3
    <3>3. /\ w2 \in Seq(Frames) /\ w2 # <<>> /\ RunOf(w2, m, e, n)
          /\ w2[Len(w2)] = g /\ w2[1] = f
      BY <2>4, <2>8, <3>1, <3>2, RunAppends
    <3> HIDE DEF w2
    <3>4. EndsAt(w2[Len(w2)], e, z) BY <2>4, <3>3 DEF EndsAt, Settled, EndOf
    <3>5. UpInv(w2, Live, c, m, e, n, z) BY <2>9, <3>3, <3>4, EndIs DEF UpInv
    <3>6. SocketInv(w2, Live, b, c, m, e, n, z) BY <1>0, <1>3, <3>5, EndIs DEF SocketInv
    <3> QED BY <1>3, <2>5, <2>6, <2>11, <3>3, <3>6 DEF f, g, z, r
  <2> QED BY <2>10, <2>11
<1> QED BY <1>1, <1>2, <1>3

\* An attach with one waits for the snapshot.
LEMMA SocketWaits ==
  ASSUME NEW m \in [Epochs -> Offsets], NEW e \in Epochs, NEW n, NEW t,
         NEW c, NEW w \in Seq(Frames), NEW v \in Ends, NEW b,
         SocketInv(w, v, b, c, m, e, n, t), v.at = "asked",
         NEW g \in Offsets, g > 0, m[e] > 0
  PROVE  LET v2 == [at |-> "snapshot", gap |-> g, next |-> m[e]] IN
         v2 \in Ends /\ SocketInv(w, v2, b, c, m, e, n, m[e])
<1> DEFINE z == m[e]
           v2 == [at |-> "snapshot", gap |-> g, next |-> z]
<1>1. z \in Offsets /\ z <= z /\ z > 0 /\ e # 0 BY OffsetsAre
<1>2. v2 \in Ends /\ v2.at = "snapshot" /\ v2.gap = g /\ v2.next = z BY <1>1 DEF Ends
<1> HIDE DEF v2, z
<1>3. v # Idle BY EndIs
<1>4. b # "none" /\ (b = "closing" => w = <<>>) BY <1>3 DEF SocketInv
<1>5. b = "up" => UpInv(w, v2, c, m, e, n, z)
  <2> SUFFICES ASSUME b = "up" PROVE UpInv(w, v2, c, m, e, n, z) OBVIOUS
  <2>1. UpInv(w, v, c, m, e, n, t) BY DEF SocketInv
  <2>2. w = <<>> /\ RunOf(w, m, e, n) BY <2>1 DEF UpInv
  <2>3. Level(v2, c, e, n, z) BY <1>2 DEF Level
  <2> QED BY <1>2, <2>2, <2>3 DEF UpInv
<1>6. SocketInv(w, v2, b, c, m, e, n, z) BY <1>1, <1>2, <1>4, <1>5 DEF SocketInv
<1> QED BY <1>2, <1>6 DEF v2, z

\* finishSnapshotAttach: the handshake, the whole screen, what was flushed since.
LEMMA SocketShows ==
  ASSUME NEW m \in [Epochs -> Offsets], NEW e \in Epochs, NEW n \in Nat, e = n,
         NEW t \in Offsets, t <= m[e], NEW c \in Viewers, c.seen <= n,
         NEW w \in Seq(Frames), NEW v \in Ends, NEW b \in {"none", "up", "closing"},
         SocketInv(w, v, b, c, m, e, n, t), v.at = "snapshot"
  PROVE  LET w2 == Upon(b, w, ScreenFrames(v, t, e)) IN
         w2 \in Seq(Frames) /\ SocketInv(w2, Live, b, c, m, e, n, t)
<1> SUFFICES LET w2 == IF b = "closing" THEN w
                       ELSE w \o (<<Attached(v.next, v.gap, v.next, TRUE, e), Bytes(0, v.next, e)>>
                                    \o (IF v.next < t THEN <<Bytes(v.next, t, e)>> ELSE <<>>)) IN
             w2 \in Seq(Frames) /\ SocketInv(w2, Live, b, c, m, e, n, t)
  BY DEF Upon, ScreenFrames
<1>0. v # Idle /\ e # 0 BY EndIs, OffsetsAre
<1>1. b # "none" BY <1>0 DEF SocketInv
<1>2. CASE b = "closing"
  <2>1. w = <<>> BY <1>0, <1>2 DEF SocketInv
  <2> QED BY <1>0, <1>2, <2>1, EndIs DEF SocketInv
<1>3. CASE b = "up"
  <2> DEFINE z == v.next
             r == TRUE
             f == Attached(z, v.gap, z, r, e)
             g == Bytes(0, z, e)
             h == Bytes(z, t, e)
             w1 == Append(w, f)
             w2 == Append(w1, g)
             w3 == Append(w2, h)
  <2>0. UpInv(w, v, c, m, e, n, t) BY <1>3 DEF SocketInv
  <2>1. w = <<>> BY <2>0 DEF UpInv
  <2>2. z \in Offsets /\ v.gap \in Offsets /\ 0 \in Offsets /\ v.gap > 0 /\ 0 < z /\ z <= t
    BY EndIs, OffsetsAre DEF SocketInv
  <2>3. /\ f \in Frames /\ f.type = "attached" /\ f.epoch = e
        /\ f.base = z /\ f.gap = v.gap /\ f.next = z /\ f.replay = r
    <3>1. r \in BOOLEAN OBVIOUS
    <3> HIDE DEF r, z
    <3> QED BY <2>2, <3>1, AttachedIs
  <2>4. g \in Frames /\ g.type = "bytes" /\ g.epoch = e /\ g.from = 0 /\ g.to = z
    BY <2>2, BytesIs
  <2>5. h \in Frames /\ h.type = "bytes" /\ h.epoch = e /\ h.from = z /\ h.to = t
    BY <2>2, BytesIs
  <2>6b. r OBVIOUS
  <2> HIDE DEF f, g, h, z, r
  <2>6. /\ w \o (<<f, g>> \o <<>>) = w2
        /\ w \o (<<f, g>> \o <<h>>) = w3
    <3>1. <<f, g>> \in Seq(Frames) BY <2>3, <2>4
    <3>2. <<f, g>> \o <<>> = <<f, g>> BY <3>1, ConcatEmptySeq
    <3>3. w \o <<f, g>> = w2 BY <2>3, <2>4, ConcatIs
    <3>4. w \o (<<f, g>> \o <<h>>) = w3 BY <2>3, <2>4, <2>5, ConcatIs
    <3> QED BY <3>2, <3>3, <3>4
  <2>7. z <= m[e] /\ z <= z
    <3>1. z \in Int /\ t \in Int /\ m[e] \in Int BY <2>2, OffsetsAre
    <3> QED BY <2>2, <3>1, Between
  <2>7a. f.replay BY <2>3, <2>6b
  <2>8. Good(f, m, n) /\ Good(g, m, n) BY <2>2, <2>3, <2>4, <2>7, <2>7a DEF Good
  <2>9. /\ w1 \in Seq(Frames) /\ w1 # <<>> /\ RunOf(w1, m, e, n)
        /\ w1[Len(w1)] = f /\ w1[1] = f
    <3>1. RunOf(w, m, e, n) BY <2>0 DEF UpInv
    <3>2. w # <<>> => Continues(w[Len(w)], f, m, e) BY <2>1
    <3>3. f \in Frames /\ Good(f, m, n) BY <2>3, <2>8
    <3>4. /\ w1 \in Seq(Frames) /\ w1 # <<>> /\ RunOf(w1, m, e, n)
          /\ w1[Len(w1)] = f /\ w1[1] = IF w = <<>> THEN f ELSE w[1]
      BY <3>1, <3>2, <3>3, RunAppends
    <3> HIDE DEF w1
    <3> QED BY <2>1, <3>4
  <2> HIDE DEF w1
  <2>10. Continues(w1[Len(w1)], g, m, e) 
    <3>1. g.from = IF f.gap > 0 THEN 0 ELSE f.base BY <2>2, <2>3, <2>4
    <3>2. Continues(f, g, m, e) BY <2>3, <2>4, <2>7a, <3>1 DEF Continues
    <3> QED BY <2>9, <3>2
  <2>11. /\ w2 \in Seq(Frames) /\ w2 # <<>> /\ RunOf(w2, m, e, n)
         /\ w2[Len(w2)] = g /\ w2[1] = f
    BY <2>4, <2>8, <2>9, <2>10, RunAppends
  <2> HIDE DEF w2
  <2>12. Fits(f, c, m, e) BY <2>2, <2>3 DEF Fits
  <2>13. CASE ~(z < t)
    <3>0. z = t BY <2>2, <2>13, OffsetsAre
    <3>1. EndsAt(w2[Len(w2)], e, t) BY <2>4, <2>11, <3>0 DEF EndsAt, Settled, EndOf
    <3>2. UpInv(w2, Live, c, m, e, n, t) BY <2>11, <2>12, <3>1, EndIs DEF UpInv
    <3>3. SocketInv(w2, Live, b, c, m, e, n, t) BY <1>0, <1>3, <3>2, EndIs DEF SocketInv
    <3> QED BY <1>3, <2>6, <2>11, <2>13, <3>3 DEF f, g, h, z, r
  <2>14. CASE z < t
    <3>1. Good(h, m, n) BY <2>5, <2>14 DEF Good
    <3>2. Continues(w2[Len(w2)], h, m, e) BY <2>4, <2>5, <2>11 DEF Continues, Settled, EndOf
    <3>3. /\ w3 \in Seq(Frames) /\ w3 # <<>> /\ RunOf(w3, m, e, n)
          /\ w3[Len(w3)] = h /\ w3[1] = f
      BY <2>5, <2>11, <3>1, <3>2, RunAppends
    <3> HIDE DEF w3
    <3>4. EndsAt(w3[Len(w3)], e, t) BY <2>5, <3>3 DEF EndsAt, Settled, EndOf
    <3>5. UpInv(w3, Live, c, m, e, n, t) BY <2>12, <3>3, <3>4, EndIs DEF UpInv
    <3>6. SocketInv(w3, Live, b, c, m, e, n, t) BY <1>0, <1>3, <3>5, EndIs DEF SocketInv
    <3> QED BY <1>3, <2>6, <2>14, <3>3, <3>6 DEF f, g, h, z, r
  <2> QED BY <2>13, <2>14
<1> QED BY <1>1, <1>2, <1>3

-----------------------------------------------------------------------------
(***************************************************************************)
(* The viewer takes a frame.                                               *)
(***************************************************************************)
ResetsFor(f, c) == f.gap > 0 \/ (c.seen # 0 /\ c.seen # f.epoch)

Painted(sc, b) ==
  IF sc = Blank THEN [epoch |-> b.epoch, from |-> b.from, to |-> b.to, exact |-> TRUE]
  ELSE IF b.epoch = sc.epoch /\ b.from = sc.to THEN [sc EXCEPT !.to = b.to]
  ELSE [sc EXCEPT !.exact = FALSE]

TakesAttached(f, c, d) ==
  /\ f.type = "attached" /\ d.active = c.active /\ d.seen = f.epoch
  /\ d.screen = IF ResetsFor(f, c) THEN Blank ELSE c.screen
  /\ f.replay => d.expected = f.next /\ d.received = IF ResetsFor(f, c) THEN 0 ELSE c.received
  /\ ~f.replay => d.expected = Nothing /\ d.received = f.next

TakesBytes(f, c, d) ==
  /\ f.type = "bytes" /\ d.active = c.active /\ d.seen = c.seen
  /\ d.screen = Painted(c.screen, f) /\ d.expected = Nothing
  /\ d.received = IF c.expected # Nothing THEN c.expected ELSE c.received + (f.to - f.from)

TakesExit(f, c, d) ==
  /\ f.type = "exit" /\ d.active = FALSE /\ d.seen = c.seen /\ d.screen = c.screen
  /\ d.expected = c.expected /\ d.received = c.received

\* What is known of the viewer itself: of a session that is wanted, the offset is
\* the end of the screen.
ViewerInv(c, m, n) ==
  /\ c \in Viewers /\ c.seen <= n
  /\ c.screen.epoch = 0 => c.screen = Blank
  /\ c.screen.epoch = 1 => c.screen.from = 0
  /\ c.active => /\ c.screen.exact
                 /\ c.screen # Blank => c.screen.to = c.received /\ c.screen.epoch = c.seen
                 /\ c.seen = 0 => c.received = 0 /\ c.screen = Blank
                 /\ c.seen # 0 => c.received <= m[c.seen]
                 /\ c.seen <= 1 /\ c.screen = Blank => c.received = 0

LEMMA ViewerIs ==
  ASSUME NEW c \in Viewers
  PROVE  /\ c.active \in BOOLEAN /\ c.seen \in Int /\ c.seen >= 0 /\ (c.seen # 0 => c.seen \in Epochs)
         /\ c.received \in Offsets /\ c.received \in Int /\ c.received >= 0
         /\ c.expected \in {Nothing} \cup Offsets
         /\ c.screen \in Screens
<1>1. c.seen \in {0} \cup Epochs /\ c.received \in Offsets /\ c.active \in BOOLEAN
      /\ c.expected \in {Nothing} \cup Offsets
      /\ c.screen \in Screens
  BY DEF Viewers
<1> QED BY <1>1, OffsetsAre

LEMMA BlankIs ==
  /\ Blank \in Screens
  /\ Blank.epoch = 0 /\ Blank.from = 0 /\ Blank.to = 0 /\ Blank.exact = TRUE
BY OffsetsAre DEF Blank, Screens

LEMMA PaintedIs ==
  ASSUME NEW sc \in Screens,
         NEW f \in Frames, f.type = "bytes", sc.epoch = 0 => sc = Blank
  PROVE  LET p == Painted(sc, f) IN
         /\ p \in Screens
         /\ p.epoch # 0 /\ p # Blank
         /\ sc = Blank => p.epoch = f.epoch /\ p.from = f.from /\ p.to = f.to /\ p.exact = TRUE
         /\ sc # Blank => p.epoch = sc.epoch /\ p.from = sc.from
         /\ sc # Blank /\ f.epoch = sc.epoch /\ f.from = sc.to => p.to = f.to /\ p.exact = sc.exact
<1> DEFINE p == Painted(sc, f)
<1>0. f.epoch \in Epochs /\ f.from \in Offsets /\ f.to \in Offsets /\ f.epoch # 0 BY FrameIs, OffsetsAre
<1>1. CASE sc = Blank
  <2>1. p = [epoch |-> f.epoch, from |-> f.from, to |-> f.to, exact |-> TRUE] BY <1>1 DEF Painted
  <2> HIDE DEF p
  <2>2. p \in Screens /\ p.epoch = f.epoch /\ p.from = f.from /\ p.to = f.to /\ p.exact = TRUE BY <1>0, <2>1 DEF Screens
  <2>3. p.epoch # 0 /\ p # Blank BY <1>0, <2>2, BlankIs
  <2> QED BY <1>1, <2>2, <2>3 DEF p
<1>2. CASE sc # Blank /\ f.epoch = sc.epoch /\ f.from = sc.to
  <2>1. p = [sc EXCEPT !.to = f.to] BY <1>2 DEF Painted
  <2> HIDE DEF p
  <2>2. p \in Screens /\ p.epoch = sc.epoch /\ p.from = sc.from /\ p.to = f.to /\ p.exact = sc.exact BY <1>0, <2>1 DEF Screens
  <2>3. p.epoch # 0 /\ p # Blank BY <1>2, <2>2, BlankIs
  <2> QED BY <1>2, <2>2, <2>3 DEF p
<1>3. CASE sc # Blank /\ ~(f.epoch = sc.epoch /\ f.from = sc.to)
  <2>1. p = [sc EXCEPT !.exact = FALSE] BY <1>3 DEF Painted
  <2> HIDE DEF p
  <2>2. p \in Screens /\ p.epoch = sc.epoch /\ p.from = sc.from BY <2>1 DEF Screens
  <2>3. p.epoch # 0 /\ p # Blank BY <1>3, <2>2, BlankIs
  <2> QED BY <1>3, <2>2, <2>3 DEF p
<1> QED BY <1>1, <1>2, <1>3

\* The offset after bytes.
LEMMA BytesMove ==
  ASSUME NEW m \in [Epochs -> Offsets], NEW e, NEW n, NEW c \in Viewers, NEW d,
         NEW f \in Frames, Good(f, m, n), Fits(f, c, m, e), TakesBytes(f, c, d)
  PROVE  /\ d.received \in Offsets /\ d.expected = Nothing
         /\ c.seen # 0 => d.received = f.to /\ c.seen = f.epoch
         /\ c.seen = 0 => d.received <= f.to /\ ~c.active
<1>0. f.type = "bytes" BY DEF TakesBytes
<1>1. /\ f.from \in Int /\ f.to \in Int /\ f.from < f.to /\ f.to \in Offsets /\ 0 <= f.from
      /\ c.received \in Int /\ c.received >= 0
  BY <1>0, FrameIs, ViewerIs, OffsetsAre DEF Good
<1>2. /\ c.seen = 0 => ~c.active /\ c.expected = Nothing /\ c.received <= f.from
      /\ c.seen # 0 => c.seen = f.epoch /\ (c.expected = f.to \/ (c.expected = Nothing /\ c.received = f.from))
  BY <1>0 DEF Fits
<1>3. d.expected = Nothing /\ d.received = IF c.expected # Nothing THEN c.expected ELSE c.received + (f.to - f.from)
  BY DEF TakesBytes
<1>4. CASE c.seen # 0
  <2>1. CASE c.expected # Nothing
    <3>1. d.received = f.to BY <1>2, <1>3, <1>4, <2>1
    <3> QED BY <1>1, <1>2, <1>3, <1>4, <3>1
  <2>2. CASE c.expected = Nothing
    <3>1. f.to # Nothing BY <1>1 DEF Nothing
    <3>2. c.received = f.from BY <1>2, <1>4, <2>2, <3>1
    <3>3. d.received = f.from + (f.to - f.from) BY <1>3, <2>2, <3>2
    <3>4. d.received = f.to BY <1>1, <3>3
    <3> QED BY <1>1, <1>2, <1>3, <1>4, <3>4
  <2> QED BY <2>1, <2>2
<1>5. CASE c.seen = 0
  <2>1. d.received = c.received + (f.to - f.from) /\ c.received <= f.from BY <1>2, <1>3, <1>5
  <2>2. d.received \in Int /\ d.received >= 0 /\ d.received <= f.to BY <1>1, <2>1
  <2>3. f.to <= MaxBytes /\ MaxBytes \in Int BY <1>1, OffsetsAre
  <2>4. d.received \in Offsets BY <1>1, <2>2, <2>3, OffsetsAre
  <2> QED BY <1>2, <1>3, <1>5, <2>2, <2>4
<1> QED BY <1>4, <1>5

\* The handshake: what it resets, and what it never does.
LEMMA AttachedMoves ==
  ASSUME NEW m \in [Epochs -> Offsets], NEW e, NEW n, NEW c \in Viewers, NEW d,
         NEW f \in Frames, Good(f, m, n), Fits(f, c, m, e), TakesAttached(f, c, d)
  PROVE  /\ f.epoch \in Epochs /\ f.epoch # 0 /\ d.seen = f.epoch
         /\ f.epoch = 1 /\ d.screen = Blank => f.gap > 0 \/ f.base = 0
         /\ ~f.replay => f.base = f.next /\ ~(f.gap > 0)
         /\ c.active /\ d.screen # Blank => f.base = c.received /\ ~ResetsFor(f, c)
<1>0. f.type = "attached" BY DEF TakesAttached
<1>1. f.epoch \in Epochs /\ f.epoch # 0 /\ f.epoch \in Int /\ c.seen \in Int /\ c.seen >= 0
  BY <1>0, FrameIs, ViewerIs, OffsetsAre
<1>2. /\ c.seen <= f.epoch
      /\ c.active => ResetsFor(f, c) \/ f.base = c.received
      /\ f.epoch = 1 /\ f.gap = 0 /\ c.screen = Blank => f.base = 0
  BY <1>0 DEF Fits, ResetsFor
<1>3. (~f.replay => f.base = f.next /\ ~(f.gap > 0)) BY <1>0 DEF Good
<1>4. f.epoch = 1 /\ d.screen = Blank => f.gap > 0 \/ f.base = 0
  <2> SUFFICES ASSUME f.epoch = 1, d.screen = Blank, ~(f.gap > 0) PROVE f.base = 0 OBVIOUS
  <2>1. c.seen = 0 \/ c.seen = f.epoch BY <1>1, <1>2
  <2>2. ~ResetsFor(f, c) BY <2>1 DEF ResetsFor
  <2>3. c.screen = Blank BY <2>2 DEF TakesAttached
  <2>4. f.gap = 0 BY <1>0, FrameIs, OffsetsAre
  <2> QED BY <1>2, <2>3, <2>4
<1>5. c.active /\ d.screen # Blank => f.base = c.received /\ ~ResetsFor(f, c)
  <2>1. d.screen # Blank => ~ResetsFor(f, c) BY DEF TakesAttached
  <2> QED BY <1>2, <2>1
<1>6. d.seen = f.epoch BY DEF TakesAttached
<1> QED BY <1>1, <1>3, <1>4, <1>5, <1>6

\* The next frame fits when this one is taken.
LEMMA FitsNext ==
  ASSUME NEW m \in [Epochs -> Offsets], NEW e, NEW n, NEW c \in Viewers, NEW d \in Viewers,
         NEW f \in Frames, NEW g \in Frames, Good(f, m, n), Good(g, m, n), Fits(f, c, m, e),
         c.screen.epoch = 0 => c.screen = Blank,
         TakesAttached(f, c, d) \/ TakesBytes(f, c, d) \/ TakesExit(f, c, d),
         Continues(f, g, m, e)
  PROVE  Fits(g, d, m, e)
<1>1. CASE TakesAttached(f, c, d)
  <2>0. f.type = "attached" BY <1>1 DEF TakesAttached
  <2>1. /\ f.epoch \in Epochs /\ f.epoch # 0 /\ d.seen = f.epoch
        /\ f.epoch = 1 /\ d.screen = Blank => f.gap > 0 \/ f.base = 0
        /\ ~f.replay => f.base = f.next /\ ~(f.gap > 0)
        /\ c.active /\ d.screen # Blank => f.base = c.received /\ ~ResetsFor(f, c)
    BY <1>1, AttachedMoves
  <2>2. d.active = c.active BY <1>1 DEF TakesAttached
  <2>3. CASE f.replay
    <3>1. g.type = "bytes" /\ g.epoch = f.epoch /\ g.to = f.next /\ g.from = IF f.gap > 0 THEN 0 ELSE f.base
      BY <2>0, <2>3 DEF Continues, Settled
    <3>2. d.expected = g.to BY <1>1, <2>3, <3>1 DEF TakesAttached
    <3>3. g.epoch = 1 /\ d.screen = Blank => g.from = 0 BY <2>1, <3>1
    <3>4. d.active /\ d.screen # Blank => d.received = g.from
      <4> SUFFICES ASSUME d.active, d.screen # Blank PROVE d.received = g.from OBVIOUS
      <4>1. f.base = c.received /\ ~ResetsFor(f, c) BY <2>1, <2>2
      <4>2. d.received = c.received BY <1>1, <2>3, <4>1 DEF TakesAttached
      <4>3. g.from = f.base BY <3>1, <4>1 DEF ResetsFor
      <4> QED BY <4>1, <4>2, <4>3
    <3> QED BY <2>1, <3>1, <3>2, <3>3, <3>4 DEF Fits
  <2>4. CASE ~f.replay
    <3>1. d.expected = Nothing /\ d.received = f.next BY <1>1, <2>4 DEF TakesAttached
    <3>2. EndOf(f) = f.next BY <2>0 DEF EndOf
    <3>3. \/ g.type = "bytes" /\ g.epoch = f.epoch /\ g.from = f.next
          \/ g.type = "exit" /\ f.next = m[f.epoch] /\ f.epoch # e
          \/ g.type = "close"
      BY <2>0, <2>4, <3>2 DEF Continues, Settled
    <3>4. CASE g.type = "bytes" /\ g.epoch = f.epoch /\ g.from = f.next
      <4>1. g.epoch = 1 /\ d.screen = Blank => g.from = 0 BY <2>1, <2>4, <3>4
      <4> QED BY <2>1, <3>1, <3>4, <4>1 DEF Fits
    <3>5. CASE g.type = "exit" /\ f.next = m[f.epoch] /\ f.epoch # e
      BY <2>1, <3>1, <3>5 DEF Fits, Finished
    <3>6. CASE g.type = "close" BY <3>6 DEF Fits
    <3> QED BY <3>3, <3>4, <3>5, <3>6
  <2> QED BY <2>3, <2>4
<1>2. CASE TakesBytes(f, c, d)
  <2>0. f.type = "bytes" /\ d.seen = c.seen /\ d.active = c.active BY <1>2 DEF TakesBytes
  <2>1. /\ d.received \in Offsets /\ d.expected = Nothing
        /\ c.seen # 0 => d.received = f.to /\ c.seen = f.epoch
        /\ c.seen = 0 => d.received <= f.to /\ ~c.active
    BY <1>2, BytesMove
  <2>2. d.screen # Blank
    <3>1. d.screen = Painted(c.screen, f) BY <1>2 DEF TakesBytes
    <3>2. c.screen \in Screens BY ViewerIs
    <3>3. Painted(c.screen, f) # Blank BY <2>0, <3>2, PaintedIs
    <3> QED BY <3>1, <3>3
  <2>3. EndOf(f) = f.to BY <2>0 DEF EndOf
  <2>4. \/ g.type = "bytes" /\ g.epoch = f.epoch /\ g.from = f.to
        \/ g.type = "exit" /\ f.to = m[f.epoch] /\ f.epoch # e
        \/ g.type = "close"
    BY <2>0, <2>3 DEF Continues
  <2>5. CASE g.type = "bytes" /\ g.epoch = f.epoch /\ g.from = f.to
    BY <2>0, <2>1, <2>2, <2>5 DEF Fits
  <2>6. CASE g.type = "exit" /\ f.to = m[f.epoch] /\ f.epoch # e
    BY <2>0, <2>1, <2>6 DEF Fits, Finished
  <2>7. CASE g.type = "close" BY <2>7 DEF Fits
  <2> QED BY <2>4, <2>5, <2>6, <2>7
<1>3. CASE TakesExit(f, c, d)
  <2>1. f.type = "exit" BY <1>3 DEF TakesExit
  <2>2. g.type = "close" BY <2>1 DEF Continues, Settled
  <2> QED BY <2>2 DEF Fits
<1> QED BY <1>1, <1>2, <1>3

\* When it was the last one on its way, the viewer is where the server is.
LEMMA LevelNext ==
  ASSUME NEW m \in [Epochs -> Offsets], NEW e, NEW n, NEW t, NEW c \in Viewers, NEW d \in Viewers,
         NEW f \in Frames, Good(f, m, n), Fits(f, c, m, e),
         c.screen.epoch = 0 => c.screen = Blank,
         TakesAttached(f, c, d) \/ TakesBytes(f, c, d),
         EndsAt(f, e, t), NEW v, v.at = "live"
  PROVE  Level(v, d, e, n, t)
<1>0. Settled(f) /\ EndOf(f) = t /\ f.epoch = e BY DEF EndsAt
<1>1. CASE TakesAttached(f, c, d)
  <2>0. f.type = "attached" BY <1>1 DEF TakesAttached
  <2>1. /\ f.epoch \in Epochs /\ f.epoch # 0 /\ d.seen = f.epoch
        /\ f.epoch = 1 /\ d.screen = Blank => f.gap > 0 \/ f.base = 0
        /\ ~f.replay => f.base = f.next /\ ~(f.gap > 0)
    BY <1>1, AttachedMoves
  <2>2. ~f.replay /\ f.next = t BY <1>0, <2>0 DEF Settled, EndOf
  <2>3. d.expected = Nothing /\ d.received = f.next BY <1>1, <2>2 DEF TakesAttached
  <2> QED BY <1>0, <2>1, <2>2, <2>3 DEF Level
<1>2. CASE TakesBytes(f, c, d)
  <2>0. f.type = "bytes" /\ d.seen = c.seen /\ d.active = c.active BY <1>2 DEF TakesBytes
  <2>1. /\ d.received \in Offsets /\ d.expected = Nothing
        /\ c.seen # 0 => d.received = f.to /\ c.seen = f.epoch
        /\ c.seen = 0 => d.received <= f.to /\ ~c.active
    BY <1>2, BytesMove
  <2>2. d.screen # Blank
    <3>1. d.screen = Painted(c.screen, f) BY <1>2 DEF TakesBytes
    <3>2. c.screen \in Screens BY ViewerIs
    <3>3. Painted(c.screen, f) # Blank BY <2>0, <3>2, PaintedIs
    <3> QED BY <3>1, <3>3
  <2>3. f.to = t BY <1>0, <2>0 DEF EndOf
  <2> QED BY <1>0, <2>0, <2>1, <2>2, <2>3 DEF Level
<1> QED BY <1>1, <1>2

LEMMA UpTakes ==
  ASSUME NEW m \in [Epochs -> Offsets], NEW e, NEW n, NEW t, NEW c \in Viewers, NEW d \in Viewers,
         c.screen.epoch = 0 => c.screen = Blank,
         NEW w \in Seq(Frames), NEW v \in Ends, UpInv(w, v, c, m, e, n, t), w # <<>>,
         w[1].type # "close",
         TakesAttached(w[1], c, d) \/ TakesBytes(w[1], c, d) \/ TakesExit(w[1], c, d)
  PROVE  Tail(w) \in Seq(Frames) /\ UpInv(Tail(w), v, d, m, e, n, t)
<1> DEFINE f == w[1]
           u == Tail(w)
           g == u[1]
<1>0. RunOf(w, m, e, n) /\ Fits(f, c, m, e) BY DEF UpInv
<1>1. /\ u \in Seq(Frames) /\ RunOf(u, m, e, n) /\ f \in Frames /\ Good(f, m, n)
      /\ u # <<>> => /\ g \in Frames /\ u[Len(u)] = w[Len(w)] /\ Continues(f, g, m, e)
      /\ u = <<>> => w[Len(w)] = f
  BY <1>0, RunTails
<1>2. v.at = "live" \/ v.at = "none"
  BY EndIs DEF UpInv
<1>3. /\ v.at = "live" => EndsAt(w[Len(w)], e, t)
      /\ v.at = "none" => w[Len(w)].type = "close"
  BY DEF UpInv
<1>3a. f.type # "close" OBVIOUS
<1>3b. TakesAttached(f, c, d) \/ TakesBytes(f, c, d) \/ TakesExit(f, c, d) OBVIOUS
<1> HIDE DEF u, f
<1>4. u = <<>> => Level(v, d, e, n, t)
  <2> SUFFICES ASSUME u = <<>> PROVE Level(v, d, e, n, t) OBVIOUS
  <2>1. v.at = "live" /\ EndsAt(f, e, t) BY <1>1, <1>2, <1>3, <1>3a
  <2>2. ~TakesExit(f, c, d) BY <2>1 DEF EndsAt, Settled, TakesExit
  <2> QED BY <1>0, <1>1, <1>3b, <2>1, <2>2, LevelNext
<1>5. u # <<>> => Fits(g, d, m, e)
  <2> SUFFICES ASSUME u # <<>> PROVE Fits(g, d, m, e) OBVIOUS
  <2>1. g \in Frames /\ Continues(f, g, m, e) BY <1>1
  <2>2. Good(g, m, n)
    <3>1. Len(u) \in Nat /\ Len(u) > 0 BY <1>1, LenProperties, EmptySeq
    <3>2. 1 \in 1..Len(u) BY <3>1
    <3> QED BY <1>1, <3>2 DEF RunOf
  <2> HIDE DEF g
  <2> QED BY <1>0, <1>1, <1>3b, <2>1, <2>2, FitsNext
<1>6. /\ v.at = "none" => u # <<>> /\ u[Len(u)].type = "close"
      /\ v.at = "live" /\ u # <<>> => EndsAt(u[Len(u)], e, t)
      /\ ~(v.at \in {"asked", "snapshot"})
  BY <1>1, <1>2, <1>3, <1>3a
<1>7. UpInv(u, v, d, m, e, n, t) BY <1>1, <1>4, <1>5, <1>6 DEF UpInv
<1> QED BY <1>1, <1>7 DEF u

\* The viewer stays in order.
LEMMA ViewerTakes ==
  ASSUME NEW m \in [Epochs -> Offsets], NEW e, NEW n \in Nat, NEW c, ViewerInv(c, m, n), NEW d,
         NEW f \in Frames, Good(f, m, n), Fits(f, c, m, e),
         d = [active |-> d.active, seen |-> d.seen, expected |-> d.expected,
              received |-> d.received, screen |-> d.screen],
         TakesAttached(f, c, d) \/ TakesBytes(f, c, d) \/ TakesExit(f, c, d)
  PROVE  ViewerInv(d, m, n)
<1>0. c \in Viewers /\ c.seen <= n /\ (c.screen.epoch = 0 => c.screen = Blank)
      /\ (c.screen.epoch = 1 => c.screen.from = 0)
  BY DEF ViewerInv
<1>v. ASSUME d.active \in BOOLEAN, d.seen \in {0} \cup Epochs, d.expected \in {Nothing} \cup Offsets,
             d.received \in Offsets,
             d.screen \in Screens
      PROVE  d \in Viewers
  BY <1>v DEF Viewers
<1>1. CASE TakesAttached(f, c, d)
  <2>0. f.type = "attached" BY <1>1 DEF TakesAttached
  <2>1. /\ f.epoch \in Epochs /\ f.epoch # 0 /\ d.seen = f.epoch
        /\ f.epoch = 1 /\ d.screen = Blank => f.gap > 0 \/ f.base = 0
        /\ ~f.replay => f.base = f.next /\ ~(f.gap > 0)
        /\ c.active /\ d.screen # Blank => f.base = c.received /\ ~ResetsFor(f, c)
    BY <1>0, <1>1, AttachedMoves
  <2>2. /\ f.next \in Offsets /\ f.next \in Int /\ f.next <= m[f.epoch] /\ f.epoch <= n /\ 0 \in Offsets
        /\ m[f.epoch] \in Int /\ 0 <= m[f.epoch]
    <3>1. f.next \in Offsets /\ f.next <= m[f.epoch] /\ f.epoch <= n BY <2>0, FrameIs DEF Good
    <3>2. m[f.epoch] \in Offsets BY <2>1
    <3> QED BY <3>1, <3>2, OffsetsAre
  <2>3. /\ d.active = c.active /\ d.screen = IF ResetsFor(f, c) THEN Blank ELSE c.screen
        /\ f.replay => d.expected = f.next /\ d.received = IF ResetsFor(f, c) THEN 0 ELSE c.received
        /\ ~f.replay => d.expected = Nothing /\ d.received = f.next
    BY <1>1 DEF TakesAttached
  <2>4. d \in Viewers
    <3>1. d.active \in BOOLEAN /\ d.seen \in {0} \cup Epochs BY <1>0, <2>1, <2>3, ViewerIs
    <3>2. d.expected \in {Nothing} \cup Offsets /\ d.received \in Offsets BY <1>0, <2>2, <2>3, ViewerIs
    <3>3. d.screen \in Screens
      BY <1>0, <2>3, ViewerIs, BlankIs
    <3> QED BY <1>v, <3>1, <3>2, <3>3
  <2>5. (d.screen.epoch = 0 => d.screen = Blank) /\ (d.screen.epoch = 1 => d.screen.from = 0)
    BY <1>0, <2>3, BlankIs
  <2>6. ASSUME c.active
        PROVE  /\ d.screen.exact
               /\ d.screen # Blank => d.screen.to = d.received /\ d.screen.epoch = d.seen
               /\ d.received <= m[d.seen]
               /\ d.seen <= 1 /\ d.screen = Blank => d.received = 0
    <3>1. /\ c.screen.exact
          /\ c.screen # Blank => c.screen.to = c.received /\ c.screen.epoch = c.seen
          /\ c.seen = 0 => c.received = 0 /\ c.screen = Blank
          /\ c.seen # 0 => c.received <= m[c.seen]
          /\ c.seen <= 1 /\ c.screen = Blank => c.received = 0
      BY <2>6 DEF ViewerInv
    <3>2. d.screen.exact BY <2>3, <3>1, BlankIs
    <3>3. d.screen # Blank => d.screen.to = d.received /\ d.screen.epoch = d.seen
      <4> SUFFICES ASSUME d.screen # Blank PROVE d.screen.to = d.received /\ d.screen.epoch = d.seen OBVIOUS
      <4>1. f.base = c.received /\ ~ResetsFor(f, c) BY <2>1, <2>6
      <4>2. d.screen = c.screen BY <2>3, <4>1
      <4>3. c.screen.to = c.received /\ c.screen.epoch = c.seen /\ c.seen # 0 BY <3>1, <4>2
      <4>4. c.seen = f.epoch BY <4>1, <4>3 DEF ResetsFor
      <4>5. d.received = c.received BY <2>1, <2>3, <4>1
      <4> QED BY <2>1, <4>2, <4>3, <4>4, <4>5
    <3>4. d.received <= m[d.seen]
      <4>1. CASE ~f.replay BY <2>1, <2>2, <2>3, <4>1
      <4>2. CASE f.replay /\ ResetsFor(f, c) BY <2>1, <2>2, <2>3, <4>2
      <4>3. CASE f.replay /\ ~ResetsFor(f, c)
        <5>1. d.received = c.received BY <2>3, <4>3
        <5>2. c.seen = 0 \/ c.seen = f.epoch BY <4>3 DEF ResetsFor
        <5> QED BY <2>1, <2>2, <3>1, <5>1, <5>2
      <4> QED BY <4>1, <4>2, <4>3
    <3>5. d.seen <= 1 /\ d.screen = Blank => d.received = 0
      <4> SUFFICES ASSUME d.seen <= 1, d.screen = Blank PROVE d.received = 0 OBVIOUS
      <4>1. f.epoch = 1 BY <2>1, OffsetsAre
      <4>2. f.gap > 0 \/ f.base = 0 BY <2>1, <4>1
      <4>3. CASE ~f.replay BY <2>1, <2>3, <4>2, <4>3
      <4>4. CASE f.replay /\ ResetsFor(f, c) BY <2>3, <4>4
      <4>5. CASE f.replay /\ ~ResetsFor(f, c)
        <5>1. d.received = c.received /\ c.screen = Blank BY <2>3, <4>5
        <5>2. c.seen = 0 \/ c.seen = 1 BY <4>1, <4>5 DEF ResetsFor
        <5> QED BY <3>1, <5>1, <5>2
      <4> QED BY <4>3, <4>4, <4>5
    <3> QED BY <3>2, <3>3, <3>4, <3>5
  <2>7. d.seen <= n /\ d.seen # 0 BY <2>1, <2>2
  <2> QED BY <2>3, <2>4, <2>5, <2>6, <2>7 DEF ViewerInv
<1>2. CASE TakesBytes(f, c, d)
  <2>0. f.type = "bytes" /\ d.seen = c.seen /\ d.active = c.active /\ d.screen = Painted(c.screen, f)
    BY <1>2 DEF TakesBytes
  <2>1. /\ d.received \in Offsets /\ d.expected = Nothing
        /\ c.seen # 0 => d.received = f.to /\ c.seen = f.epoch
        /\ c.seen = 0 => d.received <= f.to /\ ~c.active
    BY <1>0, <1>2, BytesMove
  <2> DEFINE sc == c.screen
             p == d.screen
  <2>2. /\ p \in Screens
        /\ p.epoch # 0 /\ p # Blank
        /\ sc = Blank => p.epoch = f.epoch /\ p.from = f.from /\ p.to = f.to /\ p.exact = TRUE
        /\ sc # Blank => p.epoch = sc.epoch /\ p.from = sc.from
        /\ sc # Blank /\ f.epoch = sc.epoch /\ f.from = sc.to => p.to = f.to /\ p.exact = sc.exact
    <3>1. sc \in Screens /\ (sc.epoch = 0 => sc = Blank) BY <1>0, ViewerIs
    <3>2. p = Painted(sc, f) BY <2>0
    <3> HIDE DEF sc, p
    <3> QED BY <2>0, <3>1, <3>2, PaintedIs
  <2>3. d \in Viewers
    <3>1. d.active \in BOOLEAN /\ d.seen \in {0} \cup Epochs BY <1>0, <2>0 DEF Viewers
    <3> QED BY <1>v, <2>1, <2>2, <3>1
  <2>4. f.epoch = 1 /\ sc = Blank => f.from = 0 BY <2>0 DEF Fits
  <2>5. p.epoch = 1 => p.from = 0 BY <1>0, <2>2, <2>4
  <2>6. ASSUME c.active
        PROVE  p.exact /\ p.to = d.received /\ p.epoch = d.seen /\ d.seen # 0 /\ d.received <= m[d.seen]
    <3>1. c.seen # 0 BY <2>1, <2>6
    <3>2. d.received = f.to /\ c.seen = f.epoch BY <2>1, <3>1
    <3>3. sc.exact /\ (sc # Blank => sc.to = c.received /\ sc.epoch = c.seen) BY <2>6 DEF ViewerInv
    <3>4. sc # Blank => c.received = f.from BY <2>0, <2>6, <3>1 DEF Fits
    <3>5. f.to <= m[f.epoch] BY <2>0 DEF Good
    <3>6. CASE sc = Blank BY <2>0, <2>2, <3>1, <3>2, <3>5, <3>6
    <3>7. CASE sc # Blank
      <4>1. f.epoch = sc.epoch /\ f.from = sc.to BY <3>2, <3>3, <3>4, <3>7
      <4>2. p.to = f.to /\ p.exact = sc.exact /\ p.epoch = sc.epoch BY <2>2, <3>7, <4>1
      <4> QED BY <2>0, <3>1, <3>2, <3>3, <3>5, <4>1, <4>2
    <3> QED BY <3>6, <3>7
  <2> QED BY <1>0, <2>0, <2>2, <2>3, <2>5, <2>6 DEF ViewerInv
<1>3. CASE TakesExit(f, c, d)
  <2>1. ~d.active /\ d.active \in BOOLEAN /\ d.seen = c.seen /\ d.screen = c.screen
        /\ d.expected = c.expected /\ d.received = c.received
    BY <1>3 DEF TakesExit
  <2>2. d \in Viewers
    <3>1. d.seen \in {0} \cup Epochs BY <1>0, <2>1 DEF Viewers
    <3> QED BY <1>0, <1>v, <2>1, <3>1, ViewerIs
  <2> QED BY <1>0, <2>1, <2>2 DEF ViewerInv
<1> QED BY <1>1, <1>2, <1>3

-----------------------------------------------------------------------------
(***************************************************************************)
(* The invariant of the stream, and the server's steps.                    *)
(***************************************************************************)
HostInv ==
  /\ epoch \in {0} \cup Epochs /\ spawns \in 0..MaxSpawns
  /\ made \in [Epochs -> Offsets]
  /\ chunks \in SUBSET Offsets /\ unsent \in Offsets /\ faults \in 0..MaxFaults
  /\ srv \in [Sockets -> Ends] /\ wire \in [Sockets -> Seq(Frames)]
  /\ epoch # 0 => /\ epoch = spawns /\ unsent <= made[epoch]
                  /\ \A k \in chunks : k <= made[epoch]

SentNow == IF epoch = 0 THEN 0 ELSE made[epoch] - unsent

SocketsInv == \A s \in Sockets :
  SocketInv(wire[s], srv[s], browser[s], Viewer, made, epoch, spawns, SentNow)

\* An exit has been shown: only the close of that socket is still to come.
ExitInv == exited =>
  /\ ~active /\ current # 0
  /\ wire[current] # <<>> /\ wire[current][1].type = "close"
  /\ seen # 0 => Finished(Viewer, made, epoch)

StreamInv == HostInv /\ SocketsInv /\ ViewerInv(Viewer, made, spawns) /\ ExitInv

LEMMA HostFacts ==
  ASSUME HostInv
  PROVE  /\ spawns \in Nat /\ made \in [Epochs -> Offsets] /\ SentNow \in Offsets /\ SentNow \in Int
         /\ epoch # 0 => /\ epoch \in Epochs /\ epoch = spawns /\ Total \in Offsets /\ Total \in Int
                         /\ SentNow = Sent /\ SentNow <= Total /\ unsent <= Total
         /\ \A s \in Sockets : srv[s] \in Ends /\ wire[s] \in Seq(Frames)
<1>1. spawns \in Nat BY HostAssumption DEF HostInv
<1>2. SentNow \in Offsets /\ SentNow \in Int /\ (epoch # 0 => SentNow <= Total /\ SentNow = Sent)
  <2>1. CASE epoch = 0 BY <2>1, OffsetsAre DEF SentNow
  <2>2. CASE epoch # 0
    <3>1. epoch \in Epochs /\ made[epoch] \in Offsets /\ unsent \in Offsets /\ unsent <= made[epoch]
      BY <2>2 DEF HostInv
    <3>2. made[epoch] \in Int /\ unsent \in Int /\ unsent >= 0 /\ made[epoch] <= MaxBytes /\ MaxBytes \in Int
      BY <3>1, OffsetsAre
    <3>3. SentNow = made[epoch] - unsent BY <2>2 DEF SentNow
    <3>4. SentNow \in Int /\ SentNow >= 0 /\ SentNow <= MaxBytes /\ SentNow <= made[epoch]
      BY <3>1, <3>2, <3>3
    <3> QED BY <3>3, <3>4, OffsetsAre DEF Total, Sent
  <2> QED BY <2>1, <2>2
<1>3. epoch # 0 => epoch \in Epochs /\ epoch = spawns /\ Total \in Offsets /\ Total \in Int /\ unsent <= Total
  BY OffsetsAre DEF HostInv, Total
<1> QED BY <1>1, <1>2, <1>3 DEF HostInv

LEMMA GrowsSame ==
  ASSUME NEW m \in [Epochs -> Offsets], NEW e, NEW n \in Nat PROVE Grows(m, e, n, m, e, n)
<1>1. \A p \in Epochs : m[p] <= m[p] BY OffsetsAre
<1>2. n <= n OBVIOUS
<1> QED BY <1>1, <1>2 DEF Grows

LEMMA ClosedIsNone ==
  ASSUME NEW m, NEW e, NEW n, NEW t, NEW c, NEW w \in Seq(Frames), NEW v \in Ends,
         UpInv(w, v, c, m, e, n, t), w # <<>>, w[1].type = "close"
  PROVE  v = Idle /\ Len(w) = 1
<1>1. RunOf(w, m, e, n) BY DEF UpInv
<1>2. Len(w) = 1 BY <1>1, CloseIsLast
<1>3. w[Len(w)].type = "close" BY <1>2
<1>4. ~EndsAt(w[Len(w)], e, t) BY <1>3 DEF EndsAt, Settled
<1>5. v.at = "none" BY <1>4, EndIs DEF UpInv
<1> QED BY <1>2, <1>5, EndIs

\* A step of the server leaves the viewer alone.
LEMMA HostKeeps ==
  ASSUME DialInv, StreamInv, UNCHANGED clientVars, browser' = browser, HostInv',
         Grows(made, epoch, spawns, made', epoch', spawns'),
         \A s \in Sockets : SocketInv(wire'[s], srv'[s], browser[s], Viewer, made', epoch', spawns', SentNow'),
         \A s \in Sockets : srv[s] = Idle => wire'[s] = wire[s] \/ wire'[s] = <<Close("drop")>>
  PROVE  StreamInv'
<1>0. HostInv /\ SocketsInv /\ ViewerInv(Viewer, made, spawns) /\ ExitInv BY DEF StreamInv
<1>1. Viewer' = Viewer /\ UNCHANGED <<active, exited, current, seen>>
  BY DEF Viewer, clientVars, session, dialling, resume
<1>2. SocketsInv'
  <2>1. \A s \in Sockets : SocketInv(wire'[s], srv'[s], browser'[s], Viewer', made', epoch', spawns', SentNow')
    BY <1>1
  <2> QED BY <2>1 DEF SocketsInv
<1> DEFINE c == Viewer
<1>3. c \in Viewers /\ c.seen <= spawns BY <1>0 DEF ViewerInv
<1>4. /\ c.seen <= spawns'
      /\ c.seen # 0 => /\ made[c.seen] <= made'[c.seen]
                       /\ made[c.seen] \in Int /\ made'[c.seen] \in Int /\ c.received \in Int
                       /\ c.seen # epoch => made'[c.seen] = made[c.seen] /\ c.seen # epoch'
  <2>1. spawns <= spawns' /\ spawns \in Int /\ spawns' \in Int BY <1>0, HostAssumption DEF Grows, HostInv
  <2>2. c.seen \in Int /\ (c.seen # 0 => c.seen \in Epochs) /\ c.received \in Int BY <1>3, ViewerIs
  <2>3. c.seen <= spawns' BY <1>3, <2>1, <2>2
  <2>4. c.seen # 0 => made[c.seen] \in Int /\ made'[c.seen] \in Int BY <1>0, <2>2, OffsetsAre DEF HostInv
  <2> HIDE DEF c
  <2> QED BY <1>3, <2>2, <2>3, <2>4 DEF Grows
<1>5. ViewerInv(c, made', spawns')
  <2> HIDE DEF c
  <2>1. c.active /\ c.seen # 0 => c.received <= made[c.seen] BY <1>0 DEF c, ViewerInv
  <2>2. c.active /\ c.seen # 0 => c.received <= made'[c.seen] BY <1>4, <2>1
  <2>3. ViewerInv(c, made, spawns) BY <1>0 DEF c
  <2> QED BY <1>4, <2>2, <2>3 DEF ViewerInv
<1>6. ExitInv'
  <2> SUFFICES ASSUME exited' PROVE ~active' /\ current' # 0 /\ wire'[current'] # <<>>
                                    /\ wire'[current'][1].type = "close"
                                    /\ (seen' # 0 => Finished(Viewer', made', epoch'))
    BY DEF ExitInv
  <2>1. /\ ~active /\ current # 0 /\ wire[current] # <<>> /\ wire[current][1].type = "close"
        /\ seen # 0 => Finished(c, made, epoch)
    BY <1>0, <1>1 DEF ExitInv
  <2>2. current \in Sockets /\ browser[current] = "up" BY <2>1 DEF DialInv, DialTypes, Holds
  <2>3. UpInv(wire[current], srv[current], c, made, epoch, spawns, SentNow)
    BY <1>0, <2>2 DEF SocketsInv, SocketInv
  <2>4. srv[current] = Idle BY <1>0, <2>1, <2>2, <2>3, ClosedIsNone DEF HostInv
  <2>5. wire'[current] = wire[current] \/ wire'[current] = <<Close("drop")>> BY <2>2, <2>4
  <2>6. <<Close("drop")>> # <<>> /\ <<Close("drop")>>[1].type = "close" BY DEF Close
  <2>7. wire'[current] # <<>> /\ wire'[current][1].type = "close" BY <2>1, <2>5, <2>6
  <2>8. seen # 0 => Finished(c, made', epoch')
    <3> SUFFICES ASSUME seen # 0 PROVE Finished(c, made', epoch') OBVIOUS
    <3>1. c.seen = seen BY DEF Viewer
    <3>2. c.expected = Nothing /\ c.received = made[c.seen] /\ c.seen # epoch BY <2>1 DEF Finished
    <3> HIDE DEF c
    <3>3. made'[c.seen] = made[c.seen] /\ c.seen # epoch' BY <1>4, <3>1, <3>2
    <3> QED BY <3>2, <3>3 DEF Finished
  <2> QED BY <1>1, <2>1, <2>7, <2>8
<1> QED BY <1>1, <1>2, <1>5, <1>6 DEF StreamInv

\* A socket in use, as the invariants give it.
LEMMA SocketIs ==
  ASSUME DialInv, StreamInv, NEW s \in Sockets
  PROVE  /\ SocketInv(wire[s], srv[s], browser[s], Viewer, made, epoch, spawns, SentNow)
         /\ srv[s] \in Ends /\ wire[s] \in Seq(Frames) /\ browser[s] \in {"none", "up", "closing"}
         /\ Viewer \in Viewers /\ Viewer.seen <= spawns
         /\ spawns \in Nat /\ made \in [Epochs -> Offsets] /\ SentNow \in Offsets /\ SentNow \in Int
BY HostFacts DEF StreamInv, SocketsInv, ViewerInv, DialInv, DialTypes

LEMMA Hangs ==
  ASSUME DialInv, StreamInv, NEW s \in Sockets, srv[s].at # "none", NEW code \in {"drop", "end"},
         NEW m2 \in [Epochs -> Offsets], NEW e2, NEW n2 \in Nat, NEW t2,
         Grows(made, epoch, spawns, m2, e2, n2)
  PROVE  /\ Hang(s, code) \in Seq(Frames)
         /\ SocketInv(Hang(s, code), Idle, browser[s], Viewer, m2, e2, n2, t2)
<1> DEFINE v == srv[s]
           w == wire[s]
           b == browser[s]
           c == Viewer
           u == IF b = "closing" THEN <<>> ELSE w
           w3 == Append(u, Close(code))
<1>1. /\ SocketInv(w, v, b, c, made, epoch, spawns, SentNow)
      /\ v \in Ends /\ w \in Seq(Frames) /\ b \in {"none", "up", "closing"}
      /\ c \in Viewers /\ c.seen <= spawns /\ spawns \in Nat /\ made \in [Epochs -> Offsets]
  BY SocketIs
<1>2. v.at # "none" /\ u = IF b = "closing" THEN <<>> ELSE w OBVIOUS
<1>3. Hang(s, code) = w3 BY DEF Hang
<1>4. b = browser[s] /\ c = Viewer OBVIOUS
<1> HIDE DEF v, w, b, c, u
<1> SUFFICES w3 \in Seq(Frames) /\ SocketInv(w3, Idle, b, c, m2, e2, n2, t2) BY <1>3, <1>4
<1>5. b # "none" BY <1>1, <1>2, EndIs DEF SocketInv
<1>6. CASE b = "closing"
  <2>1. u = <<>> BY <1>2, <1>6
  <2> QED BY <1>5, <2>1, SocketCloses
<1>7. CASE b = "up"
  <2> DEFINE f == Close(code)
             w2 == Append(w, f)
  <2>0. UpInv(w, v, c, made, epoch, spawns, SentNow) BY <1>1, <1>7 DEF SocketInv
  <2>1. f \in Frames /\ f.type = "close" BY FramesAre
  <2> HIDE DEF f
  <2>2. Good(f, m2, n2) BY <2>1 DEF Good
  <2>3. RunOf(w, m2, e2, n2) BY <2>0, <1>1, RunGrows DEF UpInv
  <2>4. w # <<>> => v.at = "live" BY <1>1, <1>2, <2>0, EndIs DEF UpInv
  <2>5. w # <<>> => Continues(w[Len(w)], f, m2, e2) BY <2>0, <2>1, <2>4 DEF UpInv, EndsAt, Continues
  <2>6. /\ w2 \in Seq(Frames) /\ w2 # <<>> /\ RunOf(w2, m2, e2, n2)
        /\ w2[Len(w2)] = f /\ w2[1] = IF w = <<>> THEN f ELSE w[1]
    BY <1>1, <2>1, <2>2, <2>3, <2>5, RunAppends
  <2> HIDE DEF w2
  <2>7. Fits(w2[1], c, m2, e2)
    <3>1. CASE w = <<>> BY <2>1, <2>6, <3>1 DEF Fits
    <3>2. CASE w # <<>>
      <4>1. Fits(w[1], c, m2, e2) BY <1>1, <2>0, <3>2, FitsStays DEF UpInv
      <4> QED BY <2>6, <3>2, <4>1
    <3> QED BY <3>1, <3>2
  <2>8. UpInv(w2, Idle, c, m2, e2, n2, t2) BY <2>1, <2>6, <2>7, EndIs DEF UpInv
  <2>9. SocketInv(w2, Idle, b, c, m2, e2, n2, t2) BY <1>7, <2>8, EndIs DEF SocketInv
  <2>10. u = w BY <1>2, <1>7
  <2> QED BY <2>6, <2>9, <2>10 DEF w2, f
<1> QED BY <1>1, <1>5, <1>6, <1>7

\* The flush, for one socket: m2 is what the processes have written then.
LEMMA Flushes ==
  ASSUME DialInv, StreamInv, epoch # 0, NEW m2 \in [Epochs -> Offsets],
         Grows(made, epoch, spawns, m2, epoch, spawns), NEW to \in Offsets, to = m2[epoch],
         SentNow <= to, NEW s \in Sockets
  PROVE  LET v2 == FlushedSrv(to)[s]
             w2 == FlushedWire(to)[s] IN
         /\ v2 \in Ends /\ w2 \in Seq(Frames)
         /\ SocketInv(w2, v2, browser[s], Viewer, m2, epoch, spawns, to)
         /\ srv[s] = Idle => w2 = wire[s]
<1> DEFINE v == srv[s]
           w == wire[s]
           b == browser[s]
           c == Viewer
           t == SentNow
           v2 == FlushedSrv(to)[s]
           w2 == FlushedWire(to)[s]
<1>0. HostInv /\ c \in Viewers /\ c.seen <= spawns /\ SocketInv(w, v, b, c, made, epoch, spawns, t)
  BY DEF StreamInv, ViewerInv, SocketsInv
<1>1. /\ spawns \in Nat /\ made \in [Epochs -> Offsets] /\ t \in Offsets /\ t \in Int
      /\ epoch \in Epochs /\ epoch = spawns /\ t = Sent /\ v \in Ends /\ w \in Seq(Frames)
      /\ b \in {"none", "up", "closing"} /\ to \in Int /\ epoch <= spawns
  <2>1. epoch \in Int BY <1>0, HostFacts, OffsetsAre
  <2> QED BY <1>0, <2>1, HostFacts, OffsetsAre DEF DialInv, DialTypes
<1>2. v2 = (IF Overflows(s, to) THEN Idle ELSE v)
      /\ w2 = (IF v.at = "live" THEN Put(s, BytesTo(to))
               ELSE IF Overflows(s, to) THEN Hang(s, "drop") ELSE w)
  BY DEF FlushedSrv, FlushedWire
<1>3. Overflows(s, to) => v.at = "snapshot" BY DEF Overflows
<1>i. v = Idle => v.at = "none" BY EndIs
<1>4. CASE v.at = "live"
  <2>1. v2 = v /\ w2 = IF b = "closing" THEN w ELSE w \o (IF t < to THEN <<Bytes(t, to, epoch)>> ELSE <<>>)
    BY <1>1, <1>2, <1>3, <1>4 DEF Put, BytesTo
  <2> HIDE DEF v2, w2, v, w, b, c, t
  <2>2. to <= m2[epoch] BY <1>1
  <2>3. w2 \in Seq(Frames) /\ SocketInv(w2, v, b, c, m2, epoch, spawns, to)
    BY <1>0, <1>1, <1>4, <2>1, <2>2, SocketSends DEF t
  <2> QED BY <1>i, <1>1, <1>4, <2>1, <2>3 DEF v2, w2, v, b, c
<1>5. CASE Overflows(s, to)
  <2>1. v2 = Idle /\ w2 = Hang(s, "drop") /\ srv[s].at # "none" BY <1>2, <1>3, <1>5
  <2>2. w2 \in Seq(Frames) /\ SocketInv(w2, Idle, b, c, m2, epoch, spawns, to)
    <3>1. /\ Hang(s, "drop") \in Seq(Frames)
          /\ SocketInv(Hang(s, "drop"), Idle, browser[s], Viewer, m2, epoch, spawns, to)
      BY <1>1, <2>1, Hangs
    <3> QED BY <2>1, <3>1
  <2> HIDE DEF v2, w2, v, w, b, c, t
  <2> QED BY <1>i, <2>1, <2>2, EndIs DEF v2, w2, v, b, c
<1>6. CASE v.at # "live" /\ ~Overflows(s, to)
  <2>1. v2 = v /\ w2 = w BY <1>2, <1>6
  <2> HIDE DEF v2, w2, v, w, b, c
  <2>2. SocketInv(w, v, b, c, m2, epoch, spawns, to) BY <1>0, <1>1, <1>6, SocketStays
  <2> QED BY <1>1, <2>1, <2>2 DEF v2, w2, v, w, b, c
<1> QED BY <1>4, <1>5, <1>6

LEMMA ServerBrowser ==
  ASSUME HostNext PROVE browser' = browser
BY DEF HostNext, Flush, Spawn, Exit, Crash, Produce, Refuse, Attach, SnapshotReady, SnapshotFails,
       Cut, SeesClose

-----------------------------------------------------------------------------
(***************************************************************************)
(* Each action of the server.                                              *)
(***************************************************************************)
LEMMA FaultIs == ASSUME HostInv, Fault PROVE faults' \in 0..MaxFaults
<1>1. faults \in 0..MaxFaults /\ MaxFaults \in Nat /\ faults < MaxFaults /\ faults' = faults + 1
  BY HostAssumption DEF HostInv, Fault
<1> QED BY <1>1

\* Where the ring begins, and where a client is taken up that it covers.
LEMMA StartIs ==
  ASSUME HostInv, epoch # 0
  PROVE  Start \in Offsets /\ Start \in Int /\ Start <= Total
<1>1. Total \in Offsets /\ Total \in Int BY HostFacts
<1>2. chunks \cup {Total} \in SUBSET Nat /\ chunks \cup {Total} # {} /\ chunks \cup {Total} \subseteq Offsets
  BY <1>1, OffsetsAre DEF HostInv
<1>3. Start \in chunks \cup {Total} /\ \A y \in chunks \cup {Total} : Start <= y BY <1>2, MinIs DEF Start
<1> QED BY <1>1, <1>2, <1>3, OffsetsAre

LEMMA BaseIs ==
  ASSUME HostInv, epoch # 0, NEW k \in Offsets, Gap(k) = 0
  PROVE  Base(k) \in Offsets /\ Base(k) <= Total /\ (k <= Total => Base(k) = k)
<1> DEFINE r == ReplayFrom(k)
<1>1. Total \in Int /\ Start \in Offsets /\ Start \in Int /\ Start <= Total /\ k \in Int BY StartIs, HostFacts, OffsetsAre
<1>2. r = IF k > Total THEN Start ELSE k BY DEF ReplayFrom
<1> HIDE DEF r
<1>3. r \in Offsets /\ r \in Int /\ r <= Total /\ (k <= Total => r = k) BY <1>1, <1>2
<1>4. ~(r < Start)
  <2>1. Gap(k) = IF r < Start THEN Start - r ELSE 0 BY DEF Gap, r
  <2> QED BY <1>1, <1>3, <2>1
<1>5. Base(k) = r
  <2>1. Base(k) = IF r >= Start THEN r ELSE Start BY <1>1, <1>3, MaxIs DEF Base, r
  <2> QED BY <1>1, <1>3, <1>4, <2>1
<1> QED BY <1>3, <1>5

LEMMA GapIs ==
  ASSUME HostInv, epoch # 0, NEW k \in Offsets, Gap(k) > 0
  PROVE  Gap(k) \in Offsets /\ Total > 0
<1> DEFINE r == ReplayFrom(k)
<1>1. Total \in Int /\ Total <= MaxBytes /\ MaxBytes \in Int /\ Start \in Int /\ Start <= Total
  BY StartIs, HostFacts, OffsetsAre
<1>2. r \in Int /\ r >= 0 /\ Start <= MaxBytes
  <2>1. r = IF k > Total THEN Start ELSE k BY DEF ReplayFrom
  <2> HIDE DEF r
  <2>2. r \in Offsets BY <2>1, StartIs
  <2> QED BY <2>2, StartIs, OffsetsAre
<1>3. Gap(k) = IF r < Start THEN Start - r ELSE 0 BY DEF Gap
<1> HIDE DEF r
<1>4. r < Start /\ Gap(k) = Start - r BY <1>3
<1>5. Gap(k) \in Int /\ Gap(k) >= 0 /\ Gap(k) <= MaxBytes /\ Total > 0 BY <1>1, <1>2, <1>4
<1> QED BY <1>5, OffsetsAre

LEMMA FlushStreams ==
  ASSUME DialInv, StreamInv, Flush, UNCHANGED clientVars PROVE StreamInv'
<1>0. HostInv BY DEF StreamInv
<1>1. /\ epoch # 0 /\ unsent' = 0 /\ srv' = FlushedSrv(Total) /\ wire' = FlushedWire(Total)
      /\ UNCHANGED <<epoch, spawns, made, chunks, browser, faults>>
  BY DEF Flush
<1>2. /\ spawns \in Nat /\ made \in [Epochs -> Offsets] /\ SentNow <= Total /\ Total \in Offsets
      /\ Total \in Int /\ Total = made[epoch]
  BY <1>0, <1>1, HostFacts DEF Total
<1>3. Grows(made, epoch, spawns, made, epoch, spawns) BY <1>2, GrowsSame
<1>4. SentNow' = Total
  <2>1. SentNow' = made[epoch] - 0 BY <1>1 DEF SentNow
  <2> QED BY <1>2, <2>1
<1>5. \A s \in Sockets : /\ srv'[s] \in Ends /\ wire'[s] \in Seq(Frames)
                         /\ SocketInv(wire'[s], srv'[s], browser[s], Viewer, made, epoch, spawns, Total)
                         /\ srv[s] = Idle => wire'[s] = wire[s]
  BY <1>1, <1>2, <1>3, Flushes
<1>6. srv' \in [Sockets -> Ends] /\ wire' \in [Sockets -> Seq(Frames)]
  BY <1>1, <1>5 DEF FlushedSrv, FlushedWire
<1>7. HostInv' BY <1>0, <1>1, <1>2, <1>6, OffsetsAre DEF HostInv
<1> QED BY <1>1, <1>3, <1>4, <1>5, <1>7, HostKeeps

LEMMA ProduceStreams ==
  ASSUME DialInv, StreamInv, NEW n \in ChunkSizes, Produce(n), UNCHANGED clientVars PROVE StreamInv'
<1> DEFINE z == made[epoch] + n
<1>0. HostInv BY DEF StreamInv
<1>1. /\ epoch # 0 /\ z <= IF epoch = 1 THEN MaxBytes ELSE LaterBytes
      /\ made' = [made EXCEPT ![epoch] = z] /\ chunks' = Retained(chunks, Total, z)
      /\ UNCHANGED <<epoch, spawns, browser, faults>>
  BY DEF Produce, Total
<1>2. /\ spawns \in Nat /\ made \in [Epochs -> Offsets] /\ SentNow <= Total /\ Total \in Offsets
      /\ Total \in Int /\ Total = made[epoch] /\ epoch \in Epochs /\ SentNow \in Int
      /\ unsent <= Total /\ unsent \in Int /\ unsent >= 0 /\ SentNow = Total - unsent
  BY <1>0, <1>1, HostFacts, OffsetsAre DEF Total, HostInv, Sent
<1>3. z \in Offsets /\ z \in Int /\ made[epoch] < z /\ n \in Int /\ n > 0 /\ z = Total + n
  <2>1. n \in Int /\ n > 0 /\ MaxBytes \in Int /\ LaterBytes \in Int /\ LaterBytes <= MaxBytes
    BY HostAssumption
  <2>2. made[epoch] \in Int /\ made[epoch] >= 0 /\ Total = made[epoch] BY <1>2, OffsetsAre
  <2>3. z \in Int /\ z >= 0 /\ z <= MaxBytes /\ made[epoch] < z /\ z = Total + n BY <1>1, <2>1, <2>2
  <2> QED BY <2>1, <2>3, OffsetsAre
<1> HIDE DEF z
<1>4. made' \in [Epochs -> Offsets] /\ made'[epoch] = z /\ \A p \in Epochs : p # epoch => made'[p] = made[p]
  BY <1>1, <1>2, <1>3
<1>5. Grows(made, epoch, spawns, made', epoch, spawns)
  <2>1. \A p \in Epochs : made[p] <= made'[p]
    <3> SUFFICES ASSUME NEW p \in Epochs PROVE made[p] <= made'[p] OBVIOUS
    <3>1. made[p] \in Int BY <1>2, OffsetsAre
    <3>2. CASE p = epoch
      <4>1. made[p] < z /\ made'[p] = z BY <1>3, <1>4, <3>2
      <4> QED BY <1>3, <3>1, <4>1
    <3>3. CASE p # epoch
      <4>1. made'[p] = made[p] BY <1>4, <3>3
      <4> QED BY <3>1, <4>1
    <3> QED BY <3>2, <3>3
  <2>2. spawns <= spawns BY <1>2
  <2> QED BY <1>4, <2>1, <2>2 DEF Grows
<1>6. chunks' \in SUBSET Offsets /\ \A k \in chunks' : k <= z
  <2>1. chunks' \subseteq chunks \cup {Total} BY <1>1 DEF Retained
  <2>2. \A k \in chunks \cup {Total} : k \in Offsets /\ k \in Int /\ k <= Total
    BY <1>0, <1>1, <1>2, OffsetsAre DEF HostInv
  <2>3. \A k \in Int : k <= Total => k <= z BY <1>2, <1>3
  <2> QED BY <2>1, <2>2, <2>3
<1>7. CASE unsent + n >= CoalesceBytes
  <2>1. unsent' = 0 /\ srv' = FlushedSrv(z) /\ wire' = FlushedWire(z) BY <1>3, <1>7 DEF Produce
  <2>2. SentNow' = z
    <3>1. SentNow' = made'[epoch] - 0 BY <1>1, <2>1 DEF SentNow
    <3> QED BY <1>3, <1>4, <3>1
  <2>3. SentNow <= z BY <1>2, <1>3
  <2>4. \A s \in Sockets : /\ srv'[s] \in Ends /\ wire'[s] \in Seq(Frames)
                           /\ SocketInv(wire'[s], srv'[s], browser[s], Viewer, made', epoch, spawns, z)
                           /\ srv[s] = Idle => wire'[s] = wire[s]
    <3> SUFFICES ASSUME NEW s \in Sockets
                 PROVE /\ srv'[s] \in Ends /\ wire'[s] \in Seq(Frames)
                       /\ SocketInv(wire'[s], srv'[s], browser[s], Viewer, made', epoch, spawns, z)
                       /\ srv[s] = Idle => wire'[s] = wire[s]
      OBVIOUS
    <3> DEFINE m2 == made'
    <3>1. m2 \in [Epochs -> Offsets] /\ Grows(made, epoch, spawns, m2, epoch, spawns) /\ z = m2[epoch]
      BY <1>4, <1>5
    <3> HIDE DEF m2
    <3>2. /\ FlushedSrv(z)[s] \in Ends /\ FlushedWire(z)[s] \in Seq(Frames)
          /\ SocketInv(FlushedWire(z)[s], FlushedSrv(z)[s], browser[s], Viewer, m2, epoch, spawns, z)
          /\ srv[s] = Idle => FlushedWire(z)[s] = wire[s]
      BY <1>1, <1>3, <2>3, <3>1, Flushes
    <3> QED BY <2>1, <3>2 DEF m2
  <2>5. srv' \in [Sockets -> Ends] /\ wire' \in [Sockets -> Seq(Frames)]
    BY <2>1, <2>4 DEF FlushedSrv, FlushedWire
  <2>6. 0 <= z /\ 0 \in Offsets BY <1>3, OffsetsAre
  <2>7. HostInv' BY <1>0, <1>1, <1>4, <1>6, <2>1, <2>5, <2>6 DEF HostInv
  <2> QED BY <1>1, <1>5, <2>2, <2>4, <2>7, HostKeeps
<1>8. CASE ~(unsent + n >= CoalesceBytes)
  <2>1. unsent' = unsent + n /\ srv' = srv /\ wire' = wire BY <1>8 DEF Produce
  <2>2. SentNow' = SentNow
    <3>1. SentNow' = made'[epoch] - (unsent + n) BY <1>1, <2>1 DEF SentNow
    <3> QED BY <1>2, <1>3, <1>4, <3>1
  <2>3. \A s \in Sockets : SocketInv(wire'[s], srv'[s], browser[s], Viewer, made', epoch, spawns, SentNow)
    <3> SUFFICES ASSUME NEW s \in Sockets
                 PROVE SocketInv(wire[s], srv[s], browser[s], Viewer, made', epoch, spawns, SentNow)
      BY <2>1
    <3> DEFINE m2 == made'
    <3>1. m2 \in [Epochs -> Offsets] /\ Grows(made, epoch, spawns, m2, epoch, spawns) BY <1>4, <1>5
    <3> HIDE DEF m2
    <3>2. SentNow <= SentNow BY <1>2
    <3>3. SocketInv(wire[s], srv[s], browser[s], Viewer, m2, epoch, spawns, SentNow)
      BY <1>2, <3>1, <3>2, SocketIs, SocketStays
    <3> QED BY <3>3 DEF m2
  <2>4. unsent' \in Offsets /\ unsent' <= z
    <3>1. unsent + n \in Int /\ unsent + n >= 0 /\ unsent + n <= z BY <1>2, <1>3
    <3>2. z <= MaxBytes /\ MaxBytes \in Int BY <1>3, OffsetsAre
    <3>3. unsent + n <= MaxBytes BY <1>3, <3>1, <3>2
    <3> QED BY <2>1, <3>1, <3>3, OffsetsAre
  <2>5. HostInv' BY <1>0, <1>1, <1>4, <1>6, <2>1, <2>4 DEF HostInv
  <2> QED BY <1>1, <1>5, <2>1, <2>2, <2>3, <2>5, HostKeeps
<1> QED BY <1>7, <1>8

LEMMA SpawnStreams ==
  ASSUME DialInv, StreamInv, Spawn, UNCHANGED clientVars PROVE StreamInv'
<1>0. HostInv BY DEF StreamInv
<1>1. /\ epoch = 0 /\ spawns < MaxSpawns /\ spawns' = spawns + 1 /\ epoch' = spawns + 1
      /\ chunks' = {} /\ unsent' = 0 /\ UNCHANGED <<made, srv, wire, browser, faults>>
  BY DEF Spawn
<1>2. /\ spawns \in Nat /\ made \in [Epochs -> Offsets] /\ SentNow = 0 /\ spawns' \in Nat
      /\ spawns <= spawns' /\ epoch' \in Epochs /\ spawns' \in 0..MaxSpawns
  <2>1. spawns \in 0..MaxSpawns /\ MaxSpawns \in Nat BY <1>0, HostAssumption DEF HostInv
  <2> QED BY <1>0, <1>1, <2>1 DEF HostInv, SentNow, Epochs
<1>3. made[epoch'] \in Offsets /\ made[epoch'] \in Int /\ made[epoch'] >= 0 BY <1>2, OffsetsAre
<1>4. SentNow' \in Int /\ 0 <= SentNow'
  <2>1. epoch' # 0 BY <1>2, OffsetsAre
  <2>2. SentNow' = made[epoch'] - 0 BY <1>1, <2>1 DEF SentNow
  <2> QED BY <1>3, <2>2
<1>5. Grows(made, epoch, spawns, made, epoch', spawns')
  <2>1. \A p \in Epochs : made[p] <= made[p] BY <1>2, OffsetsAre
  <2>2. \A p \in Epochs : p <= spawns => p # epoch' BY <1>1, <1>2, OffsetsAre
  <2> QED BY <1>2, <2>1, <2>2 DEF Grows
<1>6. \A s \in Sockets : SocketInv(wire[s], srv[s], browser[s], Viewer, made, epoch', spawns', SentNow')
  <2> SUFFICES ASSUME NEW s \in Sockets
               PROVE SocketInv(wire[s], srv[s], browser[s], Viewer, made, epoch', spawns', SentNow')
    OBVIOUS
  <2> DEFINE e2 == epoch'
             n2 == spawns'
             t2 == SentNow'
  <2>1. /\ SocketInv(wire[s], srv[s], browser[s], Viewer, made, epoch, spawns, SentNow)
        /\ srv[s] \in Ends /\ wire[s] \in Seq(Frames) /\ Viewer \in Viewers /\ Viewer.seen <= spawns
    BY SocketIs
  <2>2. ~(srv[s].at \in {"live", "snapshot"}) BY <1>1, <2>1 DEF SocketInv
  <2>3. n2 \in Nat /\ t2 \in Int /\ Grows(made, epoch, spawns, made, e2, n2) /\ SentNow \in Int
    BY <1>2, <1>4, <1>5
  <2> HIDE DEF e2, n2, t2
  <2>4. SocketInv(wire[s], srv[s], browser[s], Viewer, made, e2, n2, t2)
    BY <1>2, <2>1, <2>2, <2>3, SocketStays
  <2> QED BY <2>4 DEF e2, n2, t2
<1>7. HostInv' BY <1>0, <1>1, <1>2, <1>3, OffsetsAre DEF HostInv
<1> QED BY <1>1, <1>5, <1>6, <1>7, HostKeeps

\* The session is forgotten: nothing is written any more.
LEMMA ForgetGrows ==
  ASSUME HostInv PROVE Grows(made, epoch, spawns, made, 0, spawns) /\ spawns \in Nat
<1>1. spawns \in Nat /\ made \in [Epochs -> Offsets] BY HostFacts
<1>2. \A p \in Epochs : made[p] <= made[p] /\ p # 0 BY <1>1, OffsetsAre
<1>3. spawns <= spawns BY <1>1
<1> QED BY <1>1, <1>2, <1>3 DEF Grows

LEMMA ForgetStreams ==
  ASSUME DialInv, StreamInv, UNCHANGED clientVars, epoch' = 0, chunks' = {}, unsent' = 0,
         UNCHANGED <<spawns, made, browser>>, faults' \in 0..MaxFaults,
         NEW W, NEW V, wire' = [s \in Sockets |-> W[s]], srv' = [s \in Sockets |-> V[s]],
         \A s \in Sockets : /\ V[s] \in Ends /\ W[s] \in Seq(Frames)
                            /\ SocketInv(W[s], V[s], browser[s], Viewer, made, 0, spawns, 0)
                            /\ srv[s] = Idle => W[s] = wire[s]
  PROVE  StreamInv'
<1>0. HostInv BY DEF StreamInv
<1>1. SentNow' = 0 BY DEF SentNow
<1>2. Grows(made, epoch, spawns, made, 0, spawns) BY <1>0, ForgetGrows
<1>3. srv' \in [Sockets -> Ends] /\ wire' \in [Sockets -> Seq(Frames)] OBVIOUS
<1>4. HostInv' BY <1>0, <1>3, OffsetsAre DEF HostInv
<1>5. \A s \in Sockets : wire'[s] = W[s] /\ srv'[s] = V[s] OBVIOUS
<1>6. /\ \A s \in Sockets : SocketInv(wire'[s], srv'[s], browser[s], Viewer, made', epoch', spawns', SentNow')
      /\ \A s \in Sockets : srv[s] = Idle => wire'[s] = wire[s]
  BY <1>1, <1>5
<1> QED BY <1>2, <1>4, <1>6, HostKeeps

\* A socket of no fan-out that the end of the process leaves alone.
LEMMA ForgetStays ==
  ASSUME DialInv, StreamInv, NEW s \in Sockets, ~(srv[s].at \in {"live", "snapshot"})
  PROVE  SocketInv(wire[s], srv[s], browser[s], Viewer, made, 0, spawns, 0)
<1>0. HostInv BY DEF StreamInv
<1>1. /\ SocketInv(wire[s], srv[s], browser[s], Viewer, made, epoch, spawns, SentNow)
      /\ srv[s] \in Ends /\ wire[s] \in Seq(Frames) /\ Viewer \in Viewers /\ Viewer.seen <= spawns
      /\ spawns \in Nat /\ made \in [Epochs -> Offsets] /\ SentNow \in Int
  BY SocketIs
<1>2. Grows(made, epoch, spawns, made, 0, spawns) BY <1>0, ForgetGrows
<1>3. 0 \in Int OBVIOUS
<1> QED BY <1>1, <1>2, <1>3, SocketStays

LEMMA ExitStreams ==
  ASSUME DialInv, StreamInv, Exit, UNCHANGED clientVars PROVE StreamInv'
<1> DEFINE W == [s \in Sockets |-> IF Attending(s) THEN Farewell(s) ELSE wire[s]]
           V == [s \in Sockets |-> IF Attending(s) THEN Idle ELSE srv[s]]
<1>0. HostInv /\ faults \in 0..MaxFaults BY DEF StreamInv, HostInv
<1>1. /\ epoch # 0 /\ epoch' = 0 /\ chunks' = {} /\ unsent' = 0 /\ wire' = W /\ srv' = V
      /\ UNCHANGED <<spawns, made, browser, faults>>
  BY DEF Exit
<1>2. ASSUME NEW s \in Sockets
      PROVE  /\ V[s] \in Ends /\ W[s] \in Seq(Frames)
             /\ SocketInv(W[s], V[s], browser[s], Viewer, made, 0, spawns, 0)
             /\ srv[s] = Idle => W[s] = wire[s]
  <2>1. /\ SocketInv(wire[s], srv[s], browser[s], Viewer, made, epoch, spawns, SentNow)
        /\ srv[s] \in Ends /\ wire[s] \in Seq(Frames) /\ browser[s] \in {"none", "up", "closing"}
        /\ Viewer \in Viewers /\ Viewer.seen <= spawns
        /\ spawns \in Nat /\ made \in [Epochs -> Offsets] /\ SentNow \in Offsets
    BY SocketIs
  <2>2. CASE ~Attending(s)
    <3>1. V[s] = srv[s] /\ W[s] = wire[s] BY <2>2
    <3>2. SocketInv(wire[s], srv[s], browser[s], Viewer, made, 0, spawns, 0)
      BY <2>2, ForgetStays DEF Attending
    <3> QED BY <2>1, <3>1, <3>2
  <2>3. CASE Attending(s)
    <3>1. V[s] = Idle /\ W[s] = Farewell(s) /\ srv[s].at # "none" /\ srv[s] # Idle
      BY <2>3, EndIs DEF Attending
    <3>2. CASE srv[s].at = "live" /\ browser[s] # "closing"
      <4>1. browser[s] = "up" BY <2>1, <3>1, <3>2 DEF SocketInv
      <4>2. epoch \in Epochs /\ epoch <= spawns /\ SentNow <= made[epoch] /\ SentNow = Sent
        <5>1. epoch \in Epochs /\ epoch \in Int /\ epoch = spawns BY <1>0, <1>1, HostFacts, OffsetsAre
        <5> QED BY <1>0, <1>1, <5>1, HostFacts DEF Total
      <4>3. Farewell(s) = (wire[s] \o (IF SentNow < made[epoch] THEN <<Bytes(SentNow, made[epoch], epoch)>> ELSE <<>>))
                            \o <<ExitFrame, Close("drop")>>
        BY <3>2, <4>2 DEF Farewell, BytesTo, Total
      <4> DEFINE w == wire[s]
                 v == srv[s]
                 c == Viewer
                 t == SentNow
                 w2 == (w \o (IF t < made[epoch] THEN <<Bytes(t, made[epoch], epoch)>> ELSE <<>>))
                         \o <<ExitFrame, Close("drop")>>
                 t2 == 0
      <4>4. w2 \in Seq(Frames) /\ SocketInv(w2, Idle, "up", c, made, 0, spawns, t2)
        <5>1. /\ SocketInv(w, v, "up", c, made, epoch, spawns, t) /\ v \in Ends /\ v.at = "live"
              /\ w \in Seq(Frames) /\ c \in Viewers /\ c.seen <= spawns /\ t \in Offsets
              /\ t <= made[epoch]
          BY <2>1, <3>2, <4>1, <4>2
        <5> HIDE DEF w, v, c, t, t2
        <5> QED BY <2>1, <4>2, <5>1, SocketExits
      <4>5. Farewell(s) = w2 BY <4>3
      <4> HIDE DEF w2
      <4>6. /\ Farewell(s) \in Seq(Frames)
            /\ SocketInv(Farewell(s), Idle, "up", Viewer, made, 0, spawns, 0)
        BY <4>4, <4>5 DEF c, t2
      <4> QED BY <3>1, <4>1, <4>6, EndIs
    <3>3. CASE ~(srv[s].at = "live" /\ browser[s] # "closing")
      <4>1. Farewell(s) = Hang(s, "drop") BY <3>3 DEF Farewell
      <4>2. Grows(made, epoch, spawns, made, 0, spawns) BY <1>0, ForgetGrows
      <4>3. /\ Hang(s, "drop") \in Seq(Frames)
            /\ SocketInv(Hang(s, "drop"), Idle, browser[s], Viewer, made, 0, spawns, 0)
        BY <2>1, <3>1, <4>2, Hangs
      <4> QED BY <3>1, <4>1, <4>3, EndIs
    <3> QED BY <3>2, <3>3
  <2> QED BY <2>2, <2>3
<1>3. wire' = [s \in Sockets |-> W[s]] /\ srv' = [s \in Sockets |-> V[s]] BY <1>1
<1> HIDE DEF W, V
<1> QED BY <1>0, <1>1, <1>2, <1>3, ForgetStreams

LEMMA CrashStreams ==
  ASSUME DialInv, StreamInv, Crash, UNCHANGED clientVars PROVE StreamInv'
<1> DEFINE W == [s \in Sockets |-> IF srv[s].at # "none" THEN Hang(s, "drop") ELSE wire[s]]
           V == [s \in Sockets |-> Idle]
<1>0. HostInv BY DEF StreamInv
<1>1. /\ epoch' = 0 /\ chunks' = {} /\ unsent' = 0 /\ wire' = W /\ srv' = V
      /\ UNCHANGED <<spawns, made, browser>> /\ Fault
  BY DEF Crash
<1>2. ASSUME NEW s \in Sockets
      PROVE  /\ V[s] \in Ends /\ W[s] \in Seq(Frames)
             /\ SocketInv(W[s], V[s], browser[s], Viewer, made, 0, spawns, 0)
             /\ srv[s] = Idle => W[s] = wire[s]
  <2>1. V[s] = Idle /\ Idle \in Ends /\ Idle.at = "none" BY EndIs
  <2>2. CASE srv[s].at = "none"
    <3>1. srv[s] = Idle /\ W[s] = wire[s] /\ wire[s] \in Seq(Frames) BY <2>2, SocketIs, EndIs
    <3>2. SocketInv(wire[s], srv[s], browser[s], Viewer, made, 0, spawns, 0) BY <2>2, ForgetStays
    <3> QED BY <2>1, <3>1, <3>2
  <2>3. CASE srv[s].at # "none"
    <3>1. W[s] = Hang(s, "drop") /\ srv[s] # Idle BY <2>1, <2>3
    <3>2. Grows(made, epoch, spawns, made, 0, spawns) BY <1>0, ForgetGrows
    <3>3. /\ Hang(s, "drop") \in Seq(Frames)
          /\ SocketInv(Hang(s, "drop"), Idle, browser[s], Viewer, made, 0, spawns, 0)
      BY <2>3, <3>2, SocketIs, Hangs
    <3> QED BY <2>1, <3>1, <3>3
  <2> QED BY <2>2, <2>3
<1>3. wire' = [s \in Sockets |-> W[s]] /\ srv' = [s \in Sockets |-> V[s]] BY <1>1
<1>4. faults' \in 0..MaxFaults BY <1>0, <1>1, FaultIs
<1> HIDE DEF W, V
<1> QED BY <1>1, <1>2, <1>3, <1>4, ForgetStreams

\* The server's end of one socket moves.
LEMMA OneMoves ==
  ASSUME DialInv, StreamInv, UNCHANGED <<clientVars, epoch, spawns, made, chunks, unsent, browser>>,
         faults' \in 0..MaxFaults, NEW s \in Sockets, NEW v \in Ends, NEW w \in Seq(Frames),
         srv' = [srv EXCEPT ![s] = v], wire' = [wire EXCEPT ![s] = w],
         SocketInv(w, v, browser[s], Viewer, made, epoch, spawns, SentNow),
         srv[s] = Idle => w = <<Close("drop")>>
  PROVE  StreamInv'
<1>0. HostInv BY DEF StreamInv
<1>1. SentNow' = SentNow BY DEF SentNow
<1>2. Grows(made, epoch, spawns, made, epoch, spawns) BY <1>0, HostFacts, GrowsSame
<1>3. /\ srv' \in [Sockets -> Ends] /\ wire' \in [Sockets -> Seq(Frames)]
      /\ \A r \in Sockets : /\ srv'[r] = IF r = s THEN v ELSE srv[r]
                            /\ wire'[r] = IF r = s THEN w ELSE wire[r]
  BY <1>0 DEF HostInv
<1>4. HostInv' BY <1>0, <1>3 DEF HostInv
<1>5. \A r \in Sockets : SocketInv(wire[r], srv[r], browser[r], Viewer, made, epoch, spawns, SentNow)
  BY DEF StreamInv, SocketsInv
<1>6. \A r \in Sockets : SocketInv(wire'[r], srv'[r], browser[r], Viewer, made', epoch', spawns', SentNow')
  BY <1>1, <1>3, <1>5
<1>7. \A r \in Sockets : srv[r] = Idle => wire'[r] = wire[r] \/ wire'[r] = <<Close("drop")>> BY <1>3
<1> QED BY <1>2, <1>4, <1>6, <1>7, HostKeeps

LEMMA HangStreams ==
  ASSUME DialInv, StreamInv, UNCHANGED <<clientVars, epoch, spawns, made, chunks, unsent, browser>>,
         faults' \in 0..MaxFaults, NEW s \in Sockets, srv[s].at # "none", NEW code \in {"drop", "end"},
         srv' = [srv EXCEPT ![s] = Idle], wire' = [wire EXCEPT ![s] = Hang(s, code)]
  PROVE  StreamInv'
<1>0. HostInv BY DEF StreamInv
<1>1. Grows(made, epoch, spawns, made, epoch, spawns) BY <1>0, HostFacts, GrowsSame
<1>2. /\ Hang(s, code) \in Seq(Frames)
      /\ SocketInv(Hang(s, code), Idle, browser[s], Viewer, made, epoch, spawns, SentNow)
  BY <1>1, SocketIs, Hangs
<1>3. srv[s] # Idle /\ Idle \in Ends BY EndIs
<1> QED BY <1>2, <1>3, OneMoves

LEMMA RefuseStreams ==
  ASSUME DialInv, StreamInv, NEW s \in Sockets, Refuse(s), UNCHANGED clientVars PROVE StreamInv'
<1>0. HostInv /\ faults \in 0..MaxFaults BY DEF StreamInv, HostInv
<1>1. /\ srv[s].at # "none" /\ srv' = [srv EXCEPT ![s] = Idle] /\ wire' = [wire EXCEPT ![s] = Hang(s, "drop")]
      /\ UNCHANGED <<epoch, spawns, made, chunks, unsent, browser>>
      /\ IF epoch = 0 THEN UNCHANGED faults ELSE Fault
  BY DEF Refuse
<1>2. faults' \in 0..MaxFaults BY <1>0, <1>1, FaultIs
<1> QED BY <1>1, <1>2, HangStreams

LEMMA SnapshotFailsStreams ==
  ASSUME DialInv, StreamInv, NEW s \in Sockets, SnapshotFails(s), UNCHANGED clientVars PROVE StreamInv'
<1>0. HostInv BY DEF StreamInv
<1>1. /\ srv[s].at # "none" /\ srv' = [srv EXCEPT ![s] = Idle] /\ wire' = [wire EXCEPT ![s] = Hang(s, "end")]
      /\ UNCHANGED <<epoch, spawns, made, chunks, unsent, browser>> /\ Fault
  BY DEF SnapshotFails
<1>2. faults' \in 0..MaxFaults BY <1>0, <1>1, FaultIs
<1> QED BY <1>1, <1>2, HangStreams

LEMMA SeesCloseStreams ==
  ASSUME DialInv, StreamInv, NEW s \in Sockets, SeesClose(s), UNCHANGED clientVars PROVE StreamInv'
<1>0. faults \in 0..MaxFaults BY DEF StreamInv, HostInv
<1>1. /\ srv[s].at # "none" /\ srv' = [srv EXCEPT ![s] = Idle] /\ wire' = [wire EXCEPT ![s] = Hang(s, "drop")]
      /\ UNCHANGED <<epoch, spawns, made, chunks, unsent, browser, faults>>
  BY DEF SeesClose
<1> QED BY <1>0, <1>1, HangStreams

LEMMA CutStreams ==
  ASSUME DialInv, StreamInv, NEW s \in Sockets, Cut(s), UNCHANGED clientVars PROVE StreamInv'
<1>0. HostInv BY DEF StreamInv
<1>1. /\ browser[s] # "none" /\ srv' = [srv EXCEPT ![s] = Idle] /\ wire' = [wire EXCEPT ![s] = <<Close("drop")>>]
      /\ UNCHANGED <<epoch, spawns, made, chunks, unsent, browser>> /\ Fault
  BY DEF Cut
<1>2. faults' \in 0..MaxFaults BY <1>0, <1>1, FaultIs
<1>3. /\ <<Close("drop")>> \in Seq(Frames)
      /\ SocketInv(<<Close("drop")>>, Idle, browser[s], Viewer, made, epoch, spawns, SentNow)
  BY <1>1, SocketCloses
<1> QED BY <1>1, <1>2, <1>3, EndIs, OneMoves

LEMMA SnapshotReadyStreams ==
  ASSUME DialInv, StreamInv, NEW s \in Sockets, SnapshotReady(s), UNCHANGED clientVars PROVE StreamInv'
<1> DEFINE w == wire[s]
           v == srv[s]
           b == browser[s]
           c == Viewer
           t == SentNow
           w2 == Upon(b, w, ScreenFrames(v, t, epoch))
<1>0. HostInv /\ faults \in 0..MaxFaults BY DEF StreamInv, HostInv
<1>1. /\ srv[s].at = "snapshot" /\ srv' = [srv EXCEPT ![s] = Live]
      /\ UNCHANGED <<epoch, spawns, made, chunks, unsent, browser, faults>>
  BY DEF SnapshotReady
<1>2. /\ SocketInv(w, v, b, c, made, epoch, spawns, t) /\ v \in Ends /\ w \in Seq(Frames)
      /\ b \in {"none", "up", "closing"} /\ c \in Viewers /\ c.seen <= spawns
      /\ spawns \in Nat /\ made \in [Epochs -> Offsets] /\ t \in Offsets /\ v.at = "snapshot"
  BY <1>1, SocketIs
<1>3. epoch # 0 BY <1>2 DEF SocketInv
<1>4. epoch \in Epochs /\ epoch = spawns /\ t <= made[epoch] /\ t = Sent
  BY <1>0, <1>3, HostFacts DEF Total
<1>5. wire' = [wire EXCEPT ![s] = w2] BY <1>4 DEF SnapshotReady, Put, Upon, ScreenFrames
<1>6. w2 \in Seq(Frames) /\ SocketInv(w2, Live, b, c, made, epoch, spawns, t)
  <2> HIDE DEF w, v, b, c, t
  <2> QED BY <1>2, <1>4, SocketShows
<1>7. v # Idle /\ Live \in Ends BY <1>2, EndIs
<1> HIDE DEF w2
<1> QED BY <1>0, <1>1, <1>5, <1>6, <1>7, OneMoves

\* A client is taken up: what was buffered goes to the others first.
LEMMA AttachStreams ==
  ASSUME DialInv, StreamInv, NEW s \in Sockets, Attach(s), UNCHANGED clientVars PROVE StreamInv'
<1> DEFINE w == wire[s]
           v == srv[s]
           b == browser[s]
           c == Viewer
           t == SentNow
           k == srv[s].offset
           z == made[epoch]
<1>0. HostInv /\ faults \in 0..MaxFaults BY DEF StreamInv, HostInv
<1>1. /\ srv[s].at = "asked" /\ epoch # 0 /\ unsent' = 0
      /\ AttachDelta(s, k) \/ AttachPending(s, k)
      /\ UNCHANGED <<epoch, spawns, made, chunks, browser, faults>>
  BY DEF Attach
<1>2. /\ SocketInv(w, v, b, c, made, epoch, spawns, t) /\ v \in Ends /\ w \in Seq(Frames)
      /\ b \in {"none", "up", "closing"} /\ c \in Viewers /\ c.seen <= spawns
      /\ spawns \in Nat /\ made \in [Epochs -> Offsets] /\ t \in Offsets /\ v.at = "asked"
  BY <1>1, SocketIs
<1>3. epoch \in Epochs /\ epoch = spawns /\ t <= z /\ z = Total /\ Total \in Offsets /\ Total \in Int
  BY <1>0, <1>1, HostFacts DEF Total
<1>4. Grows(made, epoch, spawns, made, epoch, spawns) BY <1>2, GrowsSame
<1>5. SentNow' = Total
  <2>1. SentNow' = made[epoch] - 0 BY <1>1 DEF SentNow
  <2> QED BY <1>3, <2>1
<1>6. \A r \in Sockets :
        /\ FlushedSrv(Total)[r] \in Ends /\ FlushedWire(Total)[r] \in Seq(Frames)
        /\ SocketInv(FlushedWire(Total)[r], FlushedSrv(Total)[r], browser[r], Viewer, made, epoch, spawns, Total)
        /\ srv[r] = Idle => FlushedWire(Total)[r] = wire[r]
  BY <1>1, <1>2, <1>3, <1>4, Flushes
<1>7. k \in Offsets BY <1>2, EndIs
\* The two ways it goes.
<1>8. \E v2 \in Ends, w2 \in Seq(Frames) :
        /\ srv' = [FlushedSrv(Total) EXCEPT ![s] = v2]
        /\ wire' = [FlushedWire(Total) EXCEPT ![s] = w2]
        /\ SocketInv(w2, v2, browser[s], Viewer, made, epoch, spawns, Total)
  <2>1. CASE AttachDelta(s, k)
    <3> DEFINE a == Base(k)
               w2 == Upon(b, w, ReplayFrames(a, z, epoch))
    <3>1. Gap(k) = 0 /\ srv' = [FlushedSrv(Total) EXCEPT ![s] = Live] BY <2>1 DEF AttachDelta
    <3>2. wire' = [FlushedWire(Total) EXCEPT ![s] = w2] BY <1>3, <2>1 DEF AttachDelta, Put, Upon, ReplayFrames
    <3>3. a \in Offsets /\ a <= z /\ (k <= z => a = k) BY <1>0, <1>1, <1>3, <1>7, <3>1, BaseIs
    <3>4. Sound(c, made) BY DEF StreamInv, ViewerInv, Sound
    <3>5. a \in Offsets /\ a <= made[epoch] /\ (v.offset <= made[epoch] => a = v.offset) BY <3>3
    <3>6. w2 \in Seq(Frames) /\ SocketInv(w2, Live, b, c, made, epoch, spawns, z)
      <4> HIDE DEF w, v, b, c, t, k, a
      <4> QED BY <1>2, <1>3, <3>4, <3>5, SocketAttaches
    <3> HIDE DEF w2, z, k
    <3> QED BY <1>3, <3>1, <3>2, <3>6, EndIs
  <2>2. CASE AttachPending(s, k)
    <3> DEFINE g == Gap(k)
               v2 == [at |-> "snapshot", gap |-> g, next |-> z]
    <3>1. Gap(k) > 0 /\ srv' = [FlushedSrv(Total) EXCEPT ![s] = v2] /\ wire' = FlushedWire(Total)
      BY <2>2 DEF AttachPending, Pending
    <3>2. g \in Offsets /\ g > 0 /\ z > 0 BY <1>0, <1>1, <1>3, <1>7, <3>1, GapIs
    <3>3. v2 \in Ends /\ SocketInv(w, v2, b, c, made, epoch, spawns, z)
      <4> HIDE DEF w, v, b, c, t, k, g
      <4> QED BY <1>2, <1>3, <3>2, SocketWaits
    <3>4. FlushedWire(Total)[s] = w BY <1>1 DEF FlushedWire, Overflows
    <3>5. FlushedWire(Total) = [FlushedWire(Total) EXCEPT ![s] = w] BY <3>4 DEF FlushedWire
    <3> HIDE DEF v2, z, k
    <3> QED BY <1>2, <1>3, <3>1, <3>3, <3>5
  <2> QED BY <1>1, <2>1, <2>2
<1>9. PICK v2 \in Ends, w2 \in Seq(Frames) :
        /\ srv' = [FlushedSrv(Total) EXCEPT ![s] = v2]
        /\ wire' = [FlushedWire(Total) EXCEPT ![s] = w2]
        /\ SocketInv(w2, v2, browser[s], Viewer, made, epoch, spawns, Total)
  BY <1>8
<1>10. /\ srv' \in [Sockets -> Ends] /\ wire' \in [Sockets -> Seq(Frames)]
       /\ \A r \in Sockets : /\ srv'[r] = IF r = s THEN v2 ELSE FlushedSrv(Total)[r]
                             /\ wire'[r] = IF r = s THEN w2 ELSE FlushedWire(Total)[r]
  <2> DEFINE S == FlushedSrv(Total)
             W == FlushedWire(Total)
  <2>1. S \in [Sockets -> Ends] /\ W \in [Sockets -> Seq(Frames)]
    <3>1. S = [r \in Sockets |-> S[r]] /\ W = [r \in Sockets |-> W[r]] BY DEF FlushedSrv, FlushedWire
    <3> HIDE DEF S, W
    <3> QED BY <1>6, <3>1 DEF S, W
  <2>2. srv' = [S EXCEPT ![s] = v2] /\ wire' = [W EXCEPT ![s] = w2] BY <1>9
  <2> HIDE DEF S, W
  <2>3. /\ srv' \in [Sockets -> Ends] /\ wire' \in [Sockets -> Seq(Frames)]
        /\ \A r \in Sockets : /\ srv'[r] = IF r = s THEN v2 ELSE S[r]
                              /\ wire'[r] = IF r = s THEN w2 ELSE W[r]
    BY <2>1, <2>2
  <2> QED BY <2>3 DEF S, W
<1>11. \A r \in Sockets : SocketInv(wire'[r], srv'[r], browser[r], Viewer, made', epoch', spawns', SentNow')
  BY <1>1, <1>5, <1>6, <1>9, <1>10
<1>12. HostInv' BY <1>0, <1>1, <1>3, <1>10, OffsetsAre DEF HostInv, Total
<1>13. \A r \in Sockets : srv[r] = Idle => wire'[r] = wire[r] \/ wire'[r] = <<Close("drop")>>
  <2>1. srv[s] # Idle BY <1>1, EndIs
  <2> QED BY <1>6, <1>10, <2>1
<1>14. Grows(made, epoch, spawns, made', epoch', spawns') BY <1>1, <1>4
<1> QED BY <1>1, <1>11, <1>12, <1>13, <1>14, HostKeeps

LEMMA HostStreams ==
  ASSUME DialInv, StreamInv, HostNext, UNCHANGED clientVars PROVE StreamInv'
<1>1. ASSUME NEW s \in Sockets,
             Refuse(s) \/ Attach(s) \/ SnapshotReady(s) \/ SnapshotFails(s) \/ Cut(s) \/ SeesClose(s)
      PROVE  StreamInv'
  BY <1>1, RefuseStreams, AttachStreams, SnapshotReadyStreams, SnapshotFailsStreams, CutStreams, SeesCloseStreams
<1>2. ASSUME NEW n \in ChunkSizes, Produce(n) PROVE StreamInv' BY <1>2, ProduceStreams
<1> QED BY <1>1, <1>2, FlushStreams, SpawnStreams, ExitStreams, CrashStreams DEF HostNext

-----------------------------------------------------------------------------
(***************************************************************************)
(* Each action of the client.                                              *)
(***************************************************************************)
LEMMA HostRests ==
  ASSUME HostInv, UNCHANGED <<epoch, spawns, made, chunks, unsent>>, faults' \in 0..MaxFaults,
         srv' \in [Sockets -> Ends], wire' \in [Sockets -> Seq(Frames)]
  PROVE  HostInv' /\ SentNow' = SentNow
BY DEF HostInv, SentNow

\* What the stream does not depend on: timers, refusals, requests.
LEMMA QuietStreams ==
  ASSUME StreamInv, UNCHANGED <<hostVars, wire, browser, current, active, exited, resume>>,
         faults' \in 0..MaxFaults
  PROVE  StreamInv'
<1>0. HostInv /\ SocketsInv /\ ViewerInv(Viewer, made, spawns) /\ ExitInv BY DEF StreamInv
<1>1. UNCHANGED <<epoch, spawns, made, chunks, unsent, srv, wire, browser, current, active, exited,
                  received, seen, expected, screen>>
  BY DEF hostVars, resume
<1>2. srv' \in [Sockets -> Ends] /\ wire' \in [Sockets -> Seq(Frames)] BY <1>0, <1>1 DEF HostInv
<1>3. HostInv' /\ SentNow' = SentNow BY <1>0, <1>1, <1>2, HostRests
<1>4. Viewer' = Viewer BY <1>1 DEF Viewer
<1>5. SocketsInv' BY <1>0, <1>1, <1>3, <1>4 DEF SocketsInv
<1>6. ViewerInv(Viewer', made', spawns') BY <1>0, <1>1, <1>4
<1>7. ExitInv' BY <1>0, <1>1, <1>4 DEF ExitInv
<1> QED BY <1>3, <1>5, <1>6, <1>7 DEF StreamInv

\* Of a socket that is not up the viewer hears no more than the close.
LEMMA DownIs ==
  ASSUME NEW w, NEW v, NEW b, NEW c, NEW m, NEW e, NEW n, NEW t, SocketInv(w, v, b, c, m, e, n, t), b # "up"
  PROVE  \A d : SocketInv(w, v, b, d, m, e, n, t)
BY DEF SocketInv

\* ws.close(): only a close that is already on its way is still seen.
LEMMA HangsUp ==
  ASSUME NEW w \in Seq(Frames), NEW v \in Ends, NEW c, NEW m, NEW e, NEW n, NEW t,
         SocketInv(w, v, "up", c, m, e, n, t)
  PROVE  /\ ClosingPart(w) \in Seq(Frames)
         /\ \A d : SocketInv(ClosingPart(w), v, "closing", d, m, e, n, t)
<1> DEFINE u == ClosingPart(w)
           f == w[Len(w)]
<1>1. CASE ~(w # <<>> /\ f.type = "close")
  <2>1. u = <<>> BY <1>1 DEF ClosingPart
  <2> QED BY <2>1 DEF SocketInv
<1>2. CASE w # <<>> /\ f.type = "close"
  <2>1. u = <<f>> BY <1>2 DEF ClosingPart
  <2>2. f \in Frames
    <3>1. Len(w) \in Nat /\ Len(w) > 0 BY <1>2, LenProperties, EmptySeq
    <3> QED BY <3>1, ElementOfSeq
  <2>3. v = Idle
    <3>1. UpInv(w, v, c, m, e, n, t) BY DEF SocketInv
    <3>2. ~EndsAt(f, e, t) BY <1>2 DEF EndsAt, Settled
    <3>3. v.at = "none" BY <1>2, <3>1, <3>2, EndIs DEF UpInv
    <3> QED BY <3>3, EndIs
  <2> HIDE DEF u, f
  <2>4. u \in Seq(Frames) /\ Len(u) = 1 /\ u[1] = f BY <2>1, <2>2
  <2>5. \A d : SocketInv(u, v, "closing", d, m, e, n, t) BY <1>2, <2>3, <2>4, EndIs DEF SocketInv
  <2> QED BY <2>4, <2>5 DEF u
<1> QED BY <1>1, <1>2

\* _closeSocket: afterwards no socket is up.
LEMMA HangupStreams ==
  ASSUME DialInv, StreamInv, Hangup(current), current' = 0, UNCHANGED <<hostVars, faults>>
  PROVE  /\ HostInv'
         /\ \A d : \A s \in Sockets : SocketInv(wire'[s], srv'[s], browser'[s], d, made', epoch', spawns', SentNow')
<1>0. HostInv /\ faults \in 0..MaxFaults BY DEF StreamInv, HostInv
<1>1. UNCHANGED <<epoch, spawns, made, chunks, unsent, srv, faults>> BY DEF hostVars
<1>2. \A s \in Sockets : browser'[s] = IF s = current THEN "closing" ELSE browser[s] BY HangupIs
<1>3. wire' = IF current = 0 THEN wire ELSE [wire EXCEPT ![current] = ClosingPart(@)] BY DEF Hangup
<1>4. current \in {0} \cup Sockets /\ \A s \in Sockets : s # 0 /\ (browser[s] = "up" <=> s = current)
  BY OffsetsAre DEF DialInv, DialTypes, Holds
<1>5. wire \in [Sockets -> Seq(Frames)] BY <1>0 DEF HostInv
<1>6. \A s \in Sockets : wire'[s] = IF s = current THEN ClosingPart(wire[s]) ELSE wire[s]
  BY <1>3, <1>4, <1>5
<1>7. \A s \in Sockets : wire'[s] \in Seq(Frames)
  <2> SUFFICES ASSUME NEW s \in Sockets PROVE wire'[s] \in Seq(Frames) OBVIOUS
  <2>1. CASE s # current BY <1>5, <1>6, <2>1
  <2>2. CASE s = current
    <3>0. SocketInv(wire[s], srv[s], "up", Viewer, made, epoch, spawns, SentNow) /\ srv[s] \in Ends
      BY <1>4, <2>2, SocketIs
    <3>1. ClosingPart(wire[s]) \in Seq(Frames) BY <1>5, <3>0, HangsUp
    <3> QED BY <1>6, <2>2, <3>1
  <2> QED BY <2>1, <2>2
<1>8. wire' \in [Sockets -> Seq(Frames)] /\ srv' \in [Sockets -> Ends]
  <2>1. wire' = [s \in Sockets |-> wire'[s]] BY <1>3, <1>5
  <2> QED BY <1>0, <1>1, <1>7, <2>1 DEF HostInv
<1>9. HostInv' /\ SentNow' = SentNow BY <1>0, <1>1, <1>8, HostRests
<1>10. ASSUME NEW d, NEW s \in Sockets
       PROVE  SocketInv(wire'[s], srv'[s], browser'[s], d, made', epoch', spawns', SentNow')
  <2>1. SocketInv(wire[s], srv[s], browser[s], Viewer, made, epoch, spawns, SentNow) BY SocketIs
  <2>2. CASE s # current
    <3>1. browser[s] # "up" /\ browser'[s] = browser[s] /\ wire'[s] = wire[s] BY <1>2, <1>4, <1>6, <2>2
    <3>2. SocketInv(wire[s], srv[s], browser[s], d, made, epoch, spawns, SentNow) BY <2>1, <3>1, DownIs
    <3> QED BY <1>1, <1>9, <3>1, <3>2
  <2>3. CASE s = current
    <3>1. browser[s] = "up" /\ browser'[s] = "closing" /\ wire'[s] = ClosingPart(wire[s])
      BY <1>2, <1>4, <1>6, <2>3
    <3>2. SocketInv(ClosingPart(wire[s]), srv[s], "closing", d, made, epoch, spawns, SentNow)
      BY <2>1, <3>1, SocketIs, HangsUp
    <3> QED BY <1>1, <1>9, <3>1, <3>2
  <2> QED BY <2>2, <2>3
<1> QED BY <1>9, <1>10

\* A viewer that starts, or has ended.
LEMMA FreshViewer ==
  ASSUME NEW a \in BOOLEAN, NEW m, NEW n \in Nat
  PROVE  LET c == [active |-> a, seen |-> 0, expected |-> Nothing, received |-> 0, screen |-> Blank] IN
         ViewerInv(c, m, n)
<1> DEFINE c == [active |-> a, seen |-> 0, expected |-> Nothing, received |-> 0, screen |-> Blank]
<1>1. c \in Viewers BY BlankIs, OffsetsAre DEF Viewers
<1>2. c.active = a /\ c.seen = 0 /\ c.received = 0 /\ c.screen = Blank /\ c.expected = Nothing OBVIOUS
<1>3. 0 <= n OBVIOUS
<1> HIDE DEF c
<1>4. ViewerInv(c, m, n) BY <1>1, <1>2, <1>3, BlankIs DEF ViewerInv
<1> QED BY <1>4 DEF c

LEMMA OpenStreams == ASSUME DialInv, StreamInv, OpenSession PROVE StreamInv'
<1>0. HostInv /\ faults \in 0..MaxFaults /\ spawns \in Nat BY HostFacts DEF StreamInv, HostInv
<1>1. /\ UNCHANGED <<epoch, spawns, made, chunks, unsent, srv, wire, browser, faults, current>>
      /\ ~mounted /\ active' = TRUE /\ exited' = FALSE
      /\ received' = 0 /\ seen' = 0 /\ expected' = Nothing /\ screen' = Blank
  BY DEF OpenSession, hostVars
<1>2. \A s \in Sockets : browser[s] # "up"
  BY <1>1, OffsetsAre DEF DialInv, Holds
<1>3. srv' \in [Sockets -> Ends] /\ wire' \in [Sockets -> Seq(Frames)] BY <1>0, <1>1 DEF HostInv
<1>4. HostInv' /\ SentNow' = SentNow BY <1>0, <1>1, <1>3, HostRests
<1>5. SocketsInv'
  <2>1. \A s \in Sockets : SocketInv(wire[s], srv[s], browser[s], Viewer', made, epoch, spawns, SentNow)
    BY <1>2, SocketIs, DownIs
  <2> QED BY <1>1, <1>4, <2>1 DEF SocketsInv
<1>6. ViewerInv(Viewer', made', spawns')
  <2>1. Viewer' = [active |-> TRUE, seen |-> 0, expected |-> Nothing, received |-> 0, screen |-> Blank]
    BY <1>1 DEF Viewer
  <2> QED BY <1>0, <1>1, <2>1, FreshViewer
<1>7. ExitInv' BY <1>1 DEF ExitInv
<1> QED BY <1>4, <1>5, <1>6, <1>7 DEF StreamInv

LEMMA CloseStreams == ASSUME DialInv, StreamInv, CloseSession PROVE StreamInv'
<1>0. spawns \in Nat BY HostFacts DEF StreamInv
<1>1. /\ Hangup(current) /\ current' = 0 /\ UNCHANGED <<hostVars, faults, spawns>>
      /\ active' = FALSE /\ exited' = FALSE
      /\ received' = 0 /\ seen' = 0 /\ expected' = Nothing /\ screen' = Blank
  BY DEF CloseSession, hostVars
<1>2. /\ HostInv'
      /\ \A d : \A s \in Sockets : SocketInv(wire'[s], srv'[s], browser'[s], d, made', epoch', spawns', SentNow')
  BY <1>1, HangupStreams
<1>3. SocketsInv' BY <1>2 DEF SocketsInv
<1>4. ViewerInv(Viewer', made', spawns')
  <2>1. Viewer' = [active |-> FALSE, seen |-> 0, expected |-> Nothing, received |-> 0, screen |-> Blank]
    BY <1>1 DEF Viewer
  <2> QED BY <1>0, <1>1, <2>1, FreshViewer
<1>5. ExitInv' BY <1>1 DEF ExitInv
<1> QED BY <1>2, <1>3, <1>4, <1>5 DEF StreamInv

LEMMA SuspendStreams == ASSUME DialInv, StreamInv, Suspend PROVE StreamInv'
<1>0. ExitInv /\ ViewerInv(Viewer, made, spawns) BY DEF StreamInv
<1>1. /\ Hangup(current) /\ current' = 0 /\ UNCHANGED <<hostVars, faults, made, spawns>>
      /\ active /\ UNCHANGED <<active, exited, received, seen, expected, screen>>
  BY DEF Suspend, hostVars, resume
<1>2. /\ HostInv'
      /\ \A d : \A s \in Sockets : SocketInv(wire'[s], srv'[s], browser'[s], d, made', epoch', spawns', SentNow')
  BY <1>1, HangupStreams
<1>3. SocketsInv' BY <1>2 DEF SocketsInv
<1>4. Viewer' = Viewer BY <1>1 DEF Viewer
<1>5. ViewerInv(Viewer', made', spawns') BY <1>0, <1>1, <1>4
<1>6. ExitInv' BY <1>0, <1>1 DEF ExitInv
<1> QED BY <1>2, <1>3, <1>5, <1>6 DEF StreamInv

\* _openSocket: the offset that is asked with is where the screen ends.
LEMMA GrantStreams ==
  ASSUME DialInv, StreamInv, NEW g \in Generations, Granted(g) PROVE StreamInv'
<1>0. HostInv /\ SocketsInv /\ ViewerInv(Viewer, made, spawns) /\ ExitInv /\ faults \in 0..MaxFaults
  BY DEF StreamInv, HostInv
<1>1. /\ Answered(g)
      /\ UNCHANGED <<epoch, spawns, made, chunks, unsent, wire, faults, active, exited,
                     received, seen, expected, screen>>
  BY DEF Granted, session, resume
<1>2. CASE ~Wanted(g)
  <2>1. UNCHANGED <<current, browser, srv>> BY <1>2 DEF Granted
  <2>2. UNCHANGED <<hostVars, wire, browser, current, active, exited, resume>> BY <1>1, <2>1 DEF hostVars, resume
  <2>3. faults' \in 0..MaxFaults BY <1>0, <1>1
  <2> QED BY <2>2, <2>3, QuietStreams
<1>3. CASE Wanted(g)
  <2>0. OpenSocket /\ active BY <1>3 DEF Granted, Wanted
  <2>1. PICK s \in Sockets :
           /\ current = 0 /\ current' = s /\ browser[s] = "none"
           /\ browser' = [browser EXCEPT ![s] = "up"] /\ srv' = [srv EXCEPT ![s] = Asked(received)]
    BY <1>1, <1>3, <2>0, OpensIs
  <2>2. Viewer' = Viewer BY <1>1 DEF Viewer
  <2>3. /\ Viewer \in Viewers /\ Viewer.active /\ Viewer.received = received /\ Viewer.seen = seen
        /\ Viewer.screen = screen /\ received \in Offsets
    <3>1. Viewer \in Viewers BY <1>0 DEF ViewerInv
    <3>2. Viewer.active /\ Viewer.received = received /\ Viewer.seen = seen /\ Viewer.screen = screen
      BY <2>0 DEF Viewer
    <3> QED BY <3>1, <3>2, ViewerIs
  <2>4. Asked(received) \in Ends /\ Asked(received).at = "asked" /\ Asked(received).offset = received
    BY <2>3 DEF Asked, Ends
  <2>5. /\ srv' \in [Sockets -> Ends] /\ wire' \in [Sockets -> Seq(Frames)]
        /\ \A r \in Sockets : srv'[r] = IF r = s THEN Asked(received) ELSE srv[r]
    BY <1>0, <1>1, <2>1, <2>4 DEF HostInv
  <2>6. HostInv' /\ SentNow' = SentNow
    <3>1. faults' \in 0..MaxFaults BY <1>0, <1>1
    <3> QED BY <1>0, <1>1, <2>5, <3>1, HostRests
  <2>7. \A r \in Sockets : browser'[r] = IF r = s THEN "up" ELSE browser[r]
    BY <2>1 DEF DialInv, DialTypes
  <2>8. SocketInv(wire[s], Asked(received), "up", Viewer, made, epoch, spawns, SentNow)
    <3> DEFINE v == Asked(received)
               w == wire[s]
    <3>1. w = <<>> BY <2>1, SocketIs DEF SocketInv
    <3>2. spawns <= 1 /\ Viewer.screen = Blank => received = 0
      <4> SUFFICES ASSUME spawns <= 1, Viewer.screen = Blank PROVE received = 0 OBVIOUS
      <4>1. Viewer.seen <= spawns /\ Viewer.seen \in Int /\ spawns \in Int BY SocketIs, ViewerIs
      <4>2. Viewer.seen <= 1 BY <4>1
      <4> QED BY <1>0, <2>3, <4>2 DEF ViewerInv
    <3>3. v.at = "asked" /\ v.offset = received BY <2>4
    <3>4. RunOf(w, made, epoch, spawns) BY <3>1, NoRun
    <3> HIDE DEF v, w
    <3>5. Level(v, Viewer, epoch, spawns, SentNow) BY <2>3, <3>2, <3>3 DEF Level
    <3>6. UpInv(w, v, Viewer, made, epoch, spawns, SentNow) BY <3>1, <3>3, <3>4, <3>5 DEF UpInv
    <3>7. SocketInv(w, v, "up", Viewer, made, epoch, spawns, SentNow) BY <3>3, <3>6 DEF SocketInv
    <3> QED BY <3>7 DEF v, w
  <2>9. \A r \in Sockets : SocketInv(wire[r], srv'[r], browser'[r], Viewer, made, epoch, spawns, SentNow)
    <3>1. \A r \in Sockets : SocketInv(wire[r], srv[r], browser[r], Viewer, made, epoch, spawns, SentNow)
      BY <1>0 DEF SocketsInv
    <3> QED BY <2>5, <2>7, <2>8, <3>1
  <2>10. SocketsInv' BY <1>1, <2>2, <2>6, <2>9 DEF SocketsInv
  <2>11. ViewerInv(Viewer', made', spawns') BY <1>0, <1>1, <2>2
  <2>12. ExitInv' BY <1>0, <1>1, <2>0 DEF ExitInv
  <2> QED BY <2>6, <2>10, <2>11, <2>12 DEF StreamInv
<1> QED BY <1>2, <1>3

\* The handlers, in terms of the viewer.
LEMMA ReceiveIs ==
  ASSUME NEW s \in Sockets, Receive(s)
  PROVE  LET f == Head(wire[s]) IN
         /\ wire[s] # <<>> /\ f.type # "close" /\ wire' = [wire EXCEPT ![s] = Tail(wire[s])]
         /\ UNCHANGED <<epoch, spawns, made, chunks, unsent, srv, faults, browser, current>>
         /\ \/ TakesAttached(f, Viewer, Viewer') /\ exited' = exited
            \/ TakesBytes(f, Viewer, Viewer') /\ exited' = exited
            \/ TakesExit(f, Viewer, Viewer') /\ exited'
<1> DEFINE f == Head(wire[s])
           c == Viewer
           d == Viewer'
<1>1. /\ wire[s] # <<>> /\ f.type # "close" /\ wire' = [wire EXCEPT ![s] = Tail(wire[s])]
      /\ UNCHANGED <<epoch, spawns, made, chunks, unsent, srv, faults, browser, current>>
  BY DEF Receive, hostVars, dialling
<1>2. /\ c.active = active /\ c.seen = seen /\ c.expected = expected /\ c.received = received /\ c.screen = screen
      /\ d.active = active' /\ d.seen = seen' /\ d.expected = expected' /\ d.received = received' /\ d.screen = screen'
  BY DEF Viewer
<1>3. \/ f.type = "attached" /\ TakeAttached(f) /\ UNCHANGED <<active, exited>>
      \/ f.type = "bytes" /\ TakeBytes(f) /\ UNCHANGED <<active, exited>>
      \/ f.type = "exit" /\ exited' = TRUE /\ active' = FALSE /\ UNCHANGED resume
  BY DEF Receive
<1> HIDE DEF f, c, d
<1>4. Resets(f) <=> ResetsFor(f, c) BY <1>2 DEF Resets, ResetsFor
<1>5. Paint(f) = Painted(c.screen, f) BY <1>2 DEF Paint, Painted
<1>6. CASE f.type = "attached" /\ TakeAttached(f) /\ UNCHANGED <<active, exited>>
  <2>1. TakesAttached(f, c, d) BY <1>2, <1>4, <1>6 DEF TakeAttached, TakesAttached
  <2> QED BY <1>1, <1>6, <2>1 DEF f, c, d
<1>7. CASE f.type = "bytes" /\ TakeBytes(f) /\ UNCHANGED <<active, exited>>
  <2>1. TakesBytes(f, c, d) BY <1>2, <1>5, <1>7 DEF TakeBytes, TakesBytes
  <2> QED BY <1>1, <1>7, <2>1 DEF f, c, d
<1>8. CASE f.type = "exit" /\ exited' = TRUE /\ active' = FALSE /\ UNCHANGED resume
  <2>1. TakesExit(f, c, d) BY <1>2, <1>8 DEF TakesExit, resume
  <2> QED BY <1>1, <1>8, <2>1 DEF f, c, d
<1> QED BY <1>3, <1>6, <1>7, <1>8

LEMMA ReceiveStreams ==
  ASSUME DialInv, StreamInv, NEW s \in Sockets, Receive(s) PROVE StreamInv'
<1> DEFINE w == wire[s]
           f == w[1]
           v == srv[s]
           c == Viewer
           d == Viewer'
           t == SentNow
<1>0. HostInv /\ SocketsInv /\ ViewerInv(c, made, spawns) /\ ExitInv /\ faults \in 0..MaxFaults
  BY DEF StreamInv, HostInv
<1>1. SocketInv(w, v, browser[s], c, made, epoch, spawns, t) /\ v \in Ends /\ w \in Seq(Frames)
      /\ c \in Viewers /\ spawns \in Nat /\ made \in [Epochs -> Offsets]
      /\ browser[s] \in {"none", "up", "closing"}
  BY SocketIs
<1>2. /\ w # <<>> /\ Head(w).type # "close" /\ wire' = [wire EXCEPT ![s] = Tail(w)]
      /\ UNCHANGED <<epoch, spawns, made, chunks, unsent, srv, faults, browser, current>>
      /\ \/ TakesAttached(Head(w), c, d) /\ exited' = exited
         \/ TakesBytes(Head(w), c, d) /\ exited' = exited
         \/ TakesExit(Head(w), c, d) /\ exited'
  BY ReceiveIs
<1>3. Head(w) = f /\ f.type # "close" BY <1>2
<1>4. browser[s] = "up" BY <1>1, <1>2, <1>3 DEF SocketInv
<1>5. s = current /\ \A r \in Sockets : browser[r] = "up" => r = s BY <1>4 DEF DialInv, Holds
<1>6. UpInv(w, v, c, made, epoch, spawns, t) BY <1>1, <1>4 DEF SocketInv
<1>7. f \in Frames /\ Good(f, made, spawns) /\ Fits(f, c, made, epoch)
  BY <1>1, <1>2, <1>6, RunTails DEF UpInv
<1>8. TakesAttached(f, c, d) \/ TakesBytes(f, c, d) \/ TakesExit(f, c, d) BY <1>2, <1>3
<1>9. d = [active |-> d.active, seen |-> d.seen, expected |-> d.expected,
           received |-> d.received, screen |-> d.screen]
  BY DEF Viewer
<1>10. Viewer' = d /\ Viewer = c /\ SentNow = t OBVIOUS
<1>w. w = wire[s] /\ v = srv[s] OBVIOUS
<1>x. d.expected = expected' /\ d.received = received' /\ d.seen = seen' /\ d.active = active' /\ c.seen = seen
  BY DEF Viewer
<1> HIDE DEF d, c, v, t
<1>11. ViewerInv(d, made, spawns)
  <2> HIDE DEF f
  <2> QED BY <1>0, <1>1, <1>7, <1>8, <1>9, ViewerTakes
<1>12. Tail(w) \in Seq(Frames) /\ UpInv(Tail(w), v, d, made, epoch, spawns, t)
  <2>1. d \in Viewers /\ (c.screen.epoch = 0 => c.screen = Blank) BY <1>0, <1>11 DEF ViewerInv
  <2> HIDE DEF w
  <2> QED BY <1>1, <1>2, <1>3, <1>6, <1>8, <2>1, UpTakes
<1>13. /\ srv' \in [Sockets -> Ends] /\ wire' \in [Sockets -> Seq(Frames)]
       /\ \A r \in Sockets : wire'[r] = IF r = s THEN Tail(w) ELSE wire[r]
  BY <1>0, <1>2, <1>12 DEF HostInv
<1>14. HostInv' /\ SentNow' = t
  <2>1. faults' \in 0..MaxFaults BY <1>0, <1>2
  <2> QED BY <1>0, <1>2, <1>10, <1>13, <2>1, HostRests
<1>15. ASSUME NEW r \in Sockets
       PROVE SocketInv(wire'[r], srv[r], browser[r], d, made, epoch, spawns, t)
  <2>1. CASE r = s
    <3>1. SocketInv(Tail(w), v, "up", d, made, epoch, spawns, t) BY <1>1, <1>4, <1>12 DEF SocketInv
    <3> QED BY <1>4, <1>13, <1>w, <2>1, <3>1
  <2>2. CASE r # s
    <3>1. SocketInv(wire[r], srv[r], browser[r], c, made, epoch, spawns, t) BY <1>10, SocketIs
    <3>2. browser[r] # "up" BY <1>5, <2>2
    <3>3. SocketInv(wire[r], srv[r], browser[r], d, made, epoch, spawns, t) BY <3>1, <3>2, DownIs
    <3> QED BY <1>13, <2>2, <3>3
  <2> QED BY <2>1, <2>2
<1>16. SocketsInv' BY <1>2, <1>10, <1>14, <1>15 DEF SocketsInv
<1>17. ExitInv'
  <2> SUFFICES ASSUME exited' PROVE ExitInv' BY DEF ExitInv
  <2>1. TakesExit(f, c, d)
    <3>1. ~exited
      <4> SUFFICES ASSUME exited PROVE FALSE OBVIOUS
      <4>1. wire[current][1].type = "close" BY <1>0 DEF ExitInv
      <4> QED BY <1>3, <1>5, <4>1
    <3> QED BY <1>2, <1>3, <3>1
  <2>2. f.type = "exit" /\ ~d.active /\ d.seen = c.seen /\ d.expected = c.expected /\ d.received = c.received
    BY <2>1 DEF TakesExit
  <2>3. RunOf(w, made, epoch, spawns) BY <1>6 DEF UpInv
  <2>4. Tail(w) # <<>>
    <3> SUFFICES ASSUME Tail(w) = <<>> PROVE FALSE OBVIOUS
    <3>1. w[Len(w)] = f BY <1>1, <1>2, <2>3, RunTails
    <3>2. ~EndsAt(w[Len(w)], epoch, t) /\ w[Len(w)].type # "close" BY <2>2, <3>1 DEF EndsAt, Settled
    <3>3. v.at \in {"none", "asked", "snapshot", "live"} BY <1>1, EndIs
    <3> QED BY <1>2, <1>6, <3>2, <3>3 DEF UpInv
  <2>5. Tail(w)[1].type = "close"
    <3>1. Continues(f, Tail(w)[1], made, epoch) BY <1>1, <1>2, <2>3, <2>4, RunTails
    <3> QED BY <2>2, <3>1 DEF Continues, Settled
  <2>6. seen' # 0 => Finished(d, made, epoch)
    <3> SUFFICES ASSUME seen' # 0 PROVE Finished(d, made, epoch) OBVIOUS
    <3>1. c.seen # 0 BY <1>x, <2>2
    <3>2. Finished(c, made, epoch) BY <1>7, <2>2, <3>1 DEF Fits
    <3> QED BY <2>2, <3>2 DEF Finished
  <2>7. current' = s /\ s # 0 BY <1>2, <1>5, OffsetsAre
  <2>8. ~active' /\ wire'[current'] = Tail(w) /\ Finished(Viewer', made', epoch') = Finished(d, made, epoch)
    BY <1>2, <1>10, <1>13, <1>x, <2>2, <2>7
  <2> QED BY <2>4, <2>5, <2>6, <2>7, <2>8 DEF ExitInv
<1>18. ViewerInv(Viewer', made', spawns') BY <1>2, <1>10, <1>11
<1> QED BY <1>14, <1>16, <1>17, <1>18 DEF StreamInv

\* What is left of the viewer when the session is torn down: its screen.
Torn(c) == [active |-> FALSE, seen |-> 0, expected |-> Nothing, received |-> 0, screen |-> c.screen]

LEMMA TornIs ==
  ASSUME NEW c, NEW m, NEW n \in Nat, ViewerInv(c, m, n)
  PROVE  ViewerInv(Torn(c), m, n)
<1> DEFINE d == Torn(c)
<1>1. c.screen \in Screens BY ViewerIs DEF ViewerInv
<1>2. d \in Viewers BY <1>1, OffsetsAre DEF Torn, Viewers
<1>3. ~d.active /\ d.seen = 0 /\ d.screen = c.screen BY DEF Torn
<1>4. 0 <= n OBVIOUS
<1> HIDE DEF d
<1>5. ViewerInv(d, m, n) BY <1>2, <1>3, <1>4 DEF ViewerInv
<1> QED BY <1>5 DEF d

\* Whatever is still on its way to another socket, it fits the torn viewer.
LEMMA TornSocket ==
  ASSUME NEW c, NEW m, NEW e, NEW n, NEW t \in Offsets, NEW w \in Seq(Frames), NEW v, NEW b,
         SocketInv(w, v, b, c, m, e, n, t)
  PROVE  SocketInv(w, v, b, Torn(c), m, e, n, t)
<1> DEFINE d == Torn(c)
<1>1. /\ ~d.active /\ d.seen = 0 /\ d.screen = c.screen /\ d.expected = Nothing /\ d.received = 0 BY DEF Torn
<1>2. 0 <= t BY OffsetsAre
<1> HIDE DEF d
<1>3. ASSUME UpInv(w, v, c, m, e, n, t) PROVE UpInv(w, v, d, m, e, n, t)
  <2>1. w = <<>> => Level(v, d, e, n, t)
    <3>1. w = <<>> => Level(v, c, e, n, t) BY <1>3 DEF UpInv
    <3> QED BY <1>1, <1>2, <3>1 DEF Level
  <2>2. w # <<>> => Fits(w[1], d, m, e)
    <3> SUFFICES ASSUME w # <<>> PROVE Fits(w[1], d, m, e) OBVIOUS
    <3> DEFINE f == w[1]
    <3>1. Len(w) \in Nat /\ Len(w) > 0 BY LenProperties, EmptySeq
    <3>2. f \in Frames BY <3>1, ElementOfSeq
    <3>3. Fits(f, c, m, e) BY <1>3 DEF UpInv
    <3> HIDE DEF f
    <3>4. f.type = "attached" => 0 <= f.epoch BY <3>2, FrameIs, OffsetsAre
    <3>5. f.type = "bytes" => 0 <= f.from BY <3>2, FrameIs, OffsetsAre
    <3>6. Fits(f, d, m, e) BY <1>1, <3>3, <3>4, <3>5 DEF Fits
    <3> QED BY <3>6 DEF f
  <2> QED BY <1>3, <2>1, <2>2 DEF UpInv
<1>4. SocketInv(w, v, b, d, m, e, n, t) BY <1>3 DEF SocketInv
<1> QED BY <1>4 DEF d

LEMMA OnCloseIs ==
  ASSUME DialInv, StreamInv, NEW s \in Sockets, OnClose(s)
  PROVE  /\ wire[s] # <<>> /\ wire[s][1].type = "close"
         /\ browser' = [browser EXCEPT ![s] = "none"] /\ wire' = [wire EXCEPT ![s] = <<>>]
         /\ UNCHANGED <<epoch, spawns, made, chunks, unsent, srv, faults>>
         /\ ~exited' /\ (Viewer' = Viewer \/ Viewer' = Torn(Viewer))
<1>1. /\ wire[s] # <<>> /\ Head(wire[s]).type = "close"
      /\ browser' = [browser EXCEPT ![s] = "none"] /\ wire' = [wire EXCEPT ![s] = <<>>]
      /\ UNCHANGED <<epoch, spawns, made, chunks, unsent, srv, faults, screen>>
  BY DEF OnClose, hostVars
<1>2. \/ suspended /\ UNCHANGED <<active, exited, received, seen, expected>>
      \/ TearDown
      \/ Dropped
  BY DEF OnClose
<1>3. suspended => ~exited
  <2>1. suspended => current = 0 BY DEF DialInv, Holds
  <2>2. exited => current # 0 BY DEF StreamInv, ExitInv
  <2> QED BY <2>1, <2>2
<1>4. active \in BOOLEAN BY DEF DialInv, DialTypes
<1>5. ~exited' /\ (Viewer' = Viewer \/ Viewer' = Torn(Viewer))
  <2>1. CASE suspended /\ UNCHANGED <<active, exited, received, seen, expected>>
    BY <1>1, <1>3, <2>1 DEF Viewer
  <2>2. CASE TearDown BY <1>1, <2>2 DEF TearDown, Viewer, Torn
  <2>3. CASE Dropped
    <3>1. CASE active BY <1>1, <2>3, <3>1 DEF Dropped, Viewer
    <3>2. CASE ~active
      <4>1. active' = FALSE /\ received' = 0 /\ seen' = 0 /\ expected' = Nothing /\ exited' = FALSE
        BY <1>4, <2>3, <3>2 DEF Dropped
      <4> QED BY <1>1, <4>1 DEF Viewer, Torn
    <3> QED BY <3>1, <3>2
  <2> QED BY <1>2, <2>1, <2>2, <2>3
<1>6. wire[s][1].type = "close" BY <1>1
<1> QED BY <1>1, <1>5, <1>6

LEMMA OnCloseStreams ==
  ASSUME DialInv, StreamInv, NEW s \in Sockets, OnClose(s) PROVE StreamInv'
<1> DEFINE d == Viewer'
<1>0. HostInv /\ SocketsInv /\ ViewerInv(Viewer, made, spawns) /\ faults \in 0..MaxFaults
  BY DEF StreamInv, HostInv
<1>1. /\ wire[s] # <<>> /\ wire[s][1].type = "close"
      /\ browser' = [browser EXCEPT ![s] = "none"] /\ wire' = [wire EXCEPT ![s] = <<>>]
      /\ UNCHANGED <<epoch, spawns, made, chunks, unsent, srv, faults>>
      /\ ~exited' /\ (d = Viewer \/ d = Torn(Viewer))
  BY OnCloseIs
<1>2. /\ srv' \in [Sockets -> Ends] /\ wire' \in [Sockets -> Seq(Frames)]
      /\ \A r \in Sockets : /\ wire'[r] = IF r = s THEN <<>> ELSE wire[r]
                            /\ browser'[r] = IF r = s THEN "none" ELSE browser[r]
  BY <1>0, <1>1 DEF HostInv, DialInv, DialTypes
<1>3. HostInv' /\ SentNow' = SentNow
  <2>1. faults' \in 0..MaxFaults BY <1>0, <1>1
  <2> QED BY <1>0, <1>1, <1>2, <2>1, HostRests
<1>4. srv[s] = Idle
  <2>1. /\ SocketInv(wire[s], srv[s], browser[s], Viewer, made, epoch, spawns, SentNow)
        /\ srv[s] \in Ends /\ wire[s] \in Seq(Frames) /\ browser[s] \in {"none", "up", "closing"}
    BY SocketIs
  <2>2. CASE browser[s] = "up"
    <3>1. UpInv(wire[s], srv[s], Viewer, made, epoch, spawns, SentNow) BY <2>1, <2>2 DEF SocketInv
    <3> QED BY <1>1, <2>1, <3>1, ClosedIsNone
  <2> QED BY <1>1, <2>1, <2>2 DEF SocketInv
<1>5. ASSUME NEW r \in Sockets
      PROVE SocketInv(wire'[r], srv[r], browser'[r], d, made, epoch, spawns, SentNow)
  <2>1. CASE r = s
    <3>1. SocketInv(<<>>, Idle, "none", d, made, epoch, spawns, SentNow) BY EndIs DEF SocketInv
    <3> QED BY <1>2, <1>4, <2>1, <3>1
  <2>2. CASE r # s
    <3>1. /\ SocketInv(wire[r], srv[r], browser[r], Viewer, made, epoch, spawns, SentNow)
          /\ SentNow \in Offsets /\ wire[r] \in Seq(Frames)
      BY SocketIs
    <3>2. SocketInv(wire[r], srv[r], browser[r], Torn(Viewer), made, epoch, spawns, SentNow)
      BY <3>1, TornSocket
    <3> HIDE DEF d
    <3>3. SocketInv(wire[r], srv[r], browser[r], d, made, epoch, spawns, SentNow) BY <1>1, <3>1, <3>2
    <3> QED BY <1>2, <2>2, <3>3
  <2> QED BY <2>1, <2>2
<1>6. SocketsInv' BY <1>1, <1>3, <1>5 DEF SocketsInv
<1>7. ViewerInv(Viewer', made', spawns')
  <2>1. spawns \in Nat BY <1>0, HostFacts
  <2>2. ViewerInv(Torn(Viewer), made, spawns) BY <1>0, <2>1, TornIs
  <2>3. ViewerInv(d, made, spawns)
    <3> HIDE DEF d
    <3> QED BY <1>0, <1>1, <2>2
  <2> QED BY <1>1, <2>3
<1>8. ExitInv' BY <1>1 DEF ExitInv
<1> QED BY <1>3, <1>6, <1>7, <1>8 DEF StreamInv

-----------------------------------------------------------------------------
(***************************************************************************)
(* The theorems.                                                           *)
(***************************************************************************)
LEMMA StreamStarts == Init => StreamInv
<1> SUFFICES ASSUME Init PROVE StreamInv OBVIOUS
<1>1. /\ epoch = 0 /\ spawns = 0 /\ made = [e \in Epochs |-> 0] /\ chunks = {} /\ unsent = 0
      /\ srv = [s \in Sockets |-> Idle] /\ wire = [s \in Sockets |-> <<>>]
      /\ browser = [s \in Sockets |-> "none"] /\ faults = 0
      /\ active = FALSE /\ exited = FALSE /\ received = 0 /\ seen = 0 /\ expected = Nothing /\ screen = Blank
  BY DEF Init, HostInit
<1>2. 0 \in 0..MaxSpawns /\ 0 \in 0..MaxFaults /\ 0 \in Offsets BY HostAssumption, OffsetsAre
<1>3. <<>> \in Seq(Frames) OBVIOUS
<1>4. HostInv
  <2>1. srv \in [Sockets -> Ends] /\ wire \in [Sockets -> Seq(Frames)] BY <1>1, <1>3, EndIs
  <2>2. made \in [Epochs -> Offsets] BY <1>1, <1>2
  <2> QED BY <1>1, <1>2, <2>1, <2>2 DEF HostInv
<1>5. SocketsInv
  <2>1. \A s \in Sockets : wire[s] = <<>> /\ srv[s] = Idle /\ browser[s] = "none" BY <1>1
  <2>2. SocketInv(<<>>, Idle, "none", Viewer, made, epoch, spawns, SentNow) BY EndIs DEF SocketInv
  <2> QED BY <2>1, <2>2 DEF SocketsInv
<1>6. ViewerInv(Viewer, made, spawns)
  <2>1. Viewer = [active |-> FALSE, seen |-> 0, expected |-> Nothing, received |-> 0, screen |-> Blank]
    BY <1>1 DEF Viewer
  <2>2. spawns \in Nat BY <1>1
  <2> QED BY <2>1, <2>2, FreshViewer
<1>7. ExitInv BY <1>1 DEF ExitInv
<1> QED BY <1>4, <1>5, <1>6, <1>7 DEF StreamInv

LEMMA StreamStep == ASSUME DialInv, StreamInv, [Next]_vars PROVE StreamInv'
<1>0. faults \in 0..MaxFaults /\ HostInv BY DEF StreamInv, HostInv
<1>1. CASE UNCHANGED vars
  <2>1. UNCHANGED <<hostVars, wire, browser, current, active, exited, resume, faults>>
    BY <1>1 DEF vars, clientVars, session, dialling
  <2>2. faults' \in 0..MaxFaults BY <1>0, <2>1
  <2> QED BY <2>1, <2>2, QuietStreams
<1>2. CASE HostNext /\ UNCHANGED clientVars BY <1>2, HostStreams
<1>3. CASE Network BY <1>3, ReceiveStreams, OnCloseStreams DEF Network
<1>4. ASSUME NEW g \in Generations, Granted(g) PROVE StreamInv' BY <1>4, GrantStreams
<1>5. ASSUME NEW g \in Generations, MintFails(g) PROVE StreamInv'
  <2>1. UNCHANGED <<hostVars, wire, browser, current, active, exited, resume>> /\ Fault
    BY <1>5 DEF MintFails, session
  <2>2. faults' \in 0..MaxFaults BY <1>0, <2>1, FaultIs
  <2> QED BY <2>1, <2>2, QuietStreams
<1>6. ASSUME NEW g \in Generations, MintRefused(g) PROVE StreamInv'
  <2>1. UNCHANGED <<hostVars, wire, browser, current, active, exited, resume, faults>>
    BY <1>6 DEF MintRefused, session
  <2>2. faults' \in 0..MaxFaults BY <1>0, <2>1
  <2> QED BY <2>1, <2>2, QuietStreams
<1>7. CASE Reconnect \/ Wake \/ ClearRefusal
  <2>1. UNCHANGED <<hostVars, wire, browser, current, active, exited, resume, faults>>
    BY <1>7 DEF Reconnect, Wake, ClearRefusal, session
  <2>2. faults' \in 0..MaxFaults BY <1>0, <2>1
  <2> QED BY <2>1, <2>2, QuietStreams
<1>8. CASE Resume
  <2>1. UNCHANGED <<hostVars, wire, browser, current, active, exited, resume, faults>> BY <1>8 DEF Resume
  <2>2. faults' \in 0..MaxFaults BY <1>0, <2>1
  <2> QED BY <2>1, <2>2, QuietStreams
<1>9. CASE OpenSession BY <1>9, OpenStreams
<1>10. CASE CloseSession BY <1>10, CloseStreams
<1>11. CASE Suspend BY <1>11, SuspendStreams
<1> QED BY <1>1, <1>2, <1>3, <1>4, <1>5, <1>6, <1>7, <1>8, <1>9, <1>10, <1>11 DEF Next, Answer, User

\* The bytes on their way, the client's offset and its screen always agree.
THEOREM StreamInvariant == Spec => [](Fresh /\ (Unraced => DialInv /\ StreamInv))
<1>1. Init => Fresh BY DEF Init, Fresh
<1>2. Fresh /\ (Unraced => DialInv /\ StreamInv) /\ [Next]_vars
        => Fresh' /\ (Unraced' => DialInv' /\ StreamInv')
  <2> SUFFICES ASSUME Fresh, Unraced => DialInv /\ StreamInv, [Next]_vars
               PROVE  Fresh' /\ (Unraced' => DialInv' /\ StreamInv')
    OBVIOUS
  <2>1. Fresh' /\ (Unraced' => Unraced) BY StaysUnraced
  <2> QED BY <2>1, DialStep, StreamStep
<1> QED BY <1>1, <1>2, DialStarts, StreamStarts, PTL DEF Spec

\* Both halves keep their state in its types: no offset of ptyTransport.ts leaves
\* the stream, and no frame on its way is anything but a frame.
THEOREM TerminalTypeCorrect == Spec => [](Unraced => TypeOK)
<1>1. DialInv /\ StreamInv => TypeOK
  <2> SUFFICES ASSUME DialInv, StreamInv PROVE TypeOK OBVIOUS
  <2>1. HostTypeOK BY DEF StreamInv, HostInv, DialInv, DialTypes, HostTypeOK
  <2>2. Viewer \in Viewers BY DEF StreamInv, ViewerInv
  <2>3. received \in Offsets /\ seen \in {0} \cup Epochs /\ expected \in {Nothing} \cup Offsets /\ screen \in Screens
    BY <2>2 DEF Viewer, Viewers
  <2>4. ClientTypeOK BY <2>3 DEF DialInv, DialTypes, Screens, ClientTypeOK
  <2> QED BY <2>1, <2>4 DEF TypeOK
<1>2. Fresh /\ (Unraced => DialInv /\ StreamInv) => (Unraced => TypeOK) BY <1>1
<1> QED BY <1>2, StreamInvariant, PTL

\* The screen of a session that is wanted shows bytes in their order, none twice,
\* and the offset that the next connect of ptyTransport.ts asks with is their end.
THEOREM ScreenShowsStream == Spec => [](Unraced => ScreenIsStream)
<1>1. DialInv /\ StreamInv => ScreenIsStream
  <2> SUFFICES ASSUME DialInv, StreamInv PROVE ScreenIsStream OBVIOUS
  <2>1. ViewerInv(Viewer, made, spawns) BY DEF StreamInv
  <2> QED BY <2>1 DEF ViewerInv, Viewer, ScreenIsStream
<1>2. Fresh /\ (Unraced => DialInv /\ StreamInv) => (Unraced => ScreenIsStream) BY <1>1
<1> QED BY <1>2, StreamInvariant, PTL

\* The first process of a session is shown from its first byte, although the ring
\* of OutputBuffer evicts.
THEOREM FirstScreenIsWhole == Spec => [](Unraced => FirstIsWhole)
<1>1. DialInv /\ StreamInv => FirstIsWhole
  <2> SUFFICES ASSUME DialInv, StreamInv PROVE FirstIsWhole OBVIOUS
  <2>1. ViewerInv(Viewer, made, spawns) BY DEF StreamInv
  <2> QED BY <2>1 DEF ViewerInv, Viewer, FirstIsWhole
<1>2. Fresh /\ (Unraced => DialInv /\ StreamInv) => (Unraced => FirstIsWhole) BY <1>1
<1> QED BY <1>2, StreamInvariant, PTL

\* A session ends for its viewer only when it has all the process wrote: notifyExit
\* puts the exit frame behind the last byte, on every order of the two sides.
THEOREM ExitComesLast == Spec => [](Unraced => ExitIsLast)
<1>1. DialInv /\ StreamInv => ExitIsLast
  <2> SUFFICES ASSUME DialInv, StreamInv, exited, seen # 0 PROVE expected = Nothing /\ received = made[seen]
    BY DEF ExitIsLast
  <2>1. Finished(Viewer, made, epoch) BY DEF StreamInv, ExitInv
  <2> QED BY <2>1 DEF Finished, Viewer
<1>2. Fresh /\ (Unraced => DialInv /\ StreamInv) => (Unraced => ExitIsLast) BY <1>1
<1> QED BY <1>2, StreamInvariant, PTL
=============================================================================
