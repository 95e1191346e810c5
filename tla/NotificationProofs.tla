------------------------- MODULE NotificationProofs -------------------------
(***************************************************************************)
(* Theorems about Notifications, for every number of notifications, events *)
(* and sessions, every batch size and every number of retries.             *)
(***************************************************************************)
EXTENDS Notifications, TLAPS

Busy(s) == pass[s] # Idle

(* Where a pass stands: between two notifications it has none in hand, and *)
(* a request delivers none.                                                *)
Placed == \A s \in Session : Busy(s) =>
    /\ pass[s].step = "next" => pass[s].current = NoOne
    /\ pass[s].step # "next" => pass[s].current \in Notification \ pass[s].todo
    /\ pass[s].kind = "request" => pass[s].step = "next"

(* What is not queued yet is nobody's and was not sent.                    *)
AbsentUntouched == \A n \in Notification :
    queue[n].status = "absent" => ~Held(n) /\ sends[n] = 0

(* What was never in two hands is in one at most.                          *)
OneHolder == \A n \in Notification \ shared : \A s, t \in Session :
    Holds(s, n) /\ Holds(t, n) => s = t

(* The stored row q of a notification in hand, against the row v as its    *)
(* session has it.                                                         *)
Agrees(q, v) ==
    /\ q.retries = v.retries
    /\ \/ q.status = v.status
       \/ q.status = "CANCELLED" /\ v.status \in Cancellable
       \/ q.status = "SENT"

HolderIsRight == \A n \in Notification \ shared : \A s \in Session :
    Holds(s, n) => Agrees(queue[n], pass[s].seen[n])

(* A session that is about to store SENT has sent the message.             *)
SentInHand == \A s \in Session :
    Busy(s) /\ pass[s].step = "sent" => sends[pass[s].current] > 0

(* Session s has sent n and not stored it yet.                             *)
Storing(s, n) == Busy(s) /\ pass[s].step = "sent" /\ pass[s].current = n

(* What went out without another cause went out once, is in no list, and   *)
(* is stored as sent or about to be.                                       *)
Settled(n) ==
    /\ sends[n] = 1
    /\ \A s \in Session : Busy(s) => n \notin pass[s].todo
    /\ queue[n].status \in {"SENT", "deleted"} \/ \E s \in Session : Storing(s, n)

SentIsSettled == \A n \in Notification \ (shared \cup repeated) :
    sends[n] > 0 => Settled(n)

IInv ==
    /\ TypeOK
    /\ Placed
    /\ AbsentUntouched
    /\ OneHolder
    /\ HolderIsRight
    /\ SentInHand
    /\ SentWentOut
    /\ RetryLeft
    /\ SentIsSettled

(* A step leaves alone what is cancelled and in nobody's hands.            *)
CancelledLeft == \A n \in Notification :
    queue[n].status = "CANCELLED" /\ ~Held(n) =>
        /\ queue'[n].status \in {"CANCELLED", "deleted"}
        /\ ~Held(n)'
        /\ sends'[n] = sends[n]

(* The parts of a pass.                                                    *)
LEMMA PassType ==
  ASSUME NEW p \in Pass
  PROVE  /\ p # Idle
         /\ p.kind \in {"request", "task", "pending", "retry"}
         /\ p.todo \in SUBSET Notification
         /\ p.current \in Notification \cup {NoOne}
         /\ p.event \in Event \cup {NoOne} /\ p.later \in BOOLEAN
         /\ p.step \in {"next", "sent", "logging", "failed"}
         /\ p.seen \in [Notification -> Row]
  BY DEF Pass, Idle

(* A session that is busy is at a pass, whose fields have their types.     *)
LEMMA BusyType ==
  ASSUME TypeOK, NEW s \in Session, Busy(s)
  PROVE  pass[s] \in Pass
  BY DEF TypeOK, Busy

(* What session s has in hand when its pass is q.                          *)
InHand(q, n) == q # Idle /\ (n \in q.todo \/ q.current = n)

WellPlaced(q) == q # Idle =>
    /\ q.step = "next" => q.current = NoOne
    /\ q.step # "next" => q.current \in Notification \ q.todo
    /\ q.kind = "request" => q.step = "next"

(* The step by which the pass of s becomes q.                              *)
Moves(s, q) ==
    /\ q \in Pass \cup {Idle}
    /\ WellPlaced(q)
    /\ pass' = [pass EXCEPT ![s] = q]

LEMMA PassMoves ==
  ASSUME TypeOK, Placed, NEW s \in Session, NEW q, Moves(s, q)
  PROVE  /\ pass' \in [Session -> Pass \cup {Idle}]
         /\ pass'[s] = q
         /\ \A t \in Session : t # s => pass'[t] = pass[t]
         /\ \A t \in Session, m \in Notification : t # s => (Holds(t, m)' <=> Holds(t, m))
         /\ \A m \in Notification : Holds(s, m)' <=> InHand(q, m)
         /\ Placed'
  <1>1. /\ pass' \in [Session -> Pass \cup {Idle}]
        /\ pass'[s] = q
        /\ \A t \in Session : t # s => pass'[t] = pass[t]
    BY DEF Moves, TypeOK
  <1>2. ASSUME NEW t \in Session, NEW m \in Notification, t # s
        PROVE  Holds(t, m)' <=> Holds(t, m)
    BY <1>1, <1>2 DEF Holds
  <1>3. ASSUME NEW m \in Notification
        PROVE  Holds(s, m)' <=> InHand(q, m)
    BY <1>1 DEF Holds, InHand
  <1>4. Placed'
    BY <1>1 DEF Moves, WellPlaced, Placed, Busy
  <1> QED BY <1>1, <1>2, <1>3, <1>4

(* A session that takes nothing more in hand leaves one holder of each.    *)
LEMMA Narrows ==
  ASSUME TypeOK, Placed, OneHolder, NEW s \in Session, NEW q, Moves(s, q),
         \A m \in Notification : InHand(q, m) => Holds(s, m),
         shared' = shared
  PROVE  OneHolder' /\ \A m \in Notification : Held(m)' => Held(m)
  <1>1. \A t \in Session, m \in Notification : Holds(t, m)' => Holds(t, m)
    BY PassMoves
  <1> QED BY <1>1 DEF OneHolder, Held

(* The rows stay as they are, and the session has them as before or anew.  *)
LEMMA StillRight ==
  ASSUME TypeOK, Placed, HolderIsRight, NEW s \in Session, NEW q, Moves(s, q),
         \A m \in Notification : InHand(q, m) =>
             Holds(s, m) /\ q.seen[m] \in {pass[s].seen[m], queue[m]},
         shared' = shared, queue' = queue
  PROVE  HolderIsRight'
  <1> SUFFICES ASSUME NEW m \in Notification, m \notin shared, NEW t \in Session, Holds(t, m)'
               PROVE  Agrees(queue[m], pass'[t].seen[m])
    BY DEF HolderIsRight
  <1>1. Holds(t, m)
    BY PassMoves
  <1>2. pass'[t].seen[m] \in {pass[t].seen[m], queue[m]}
    BY PassMoves
  <1>3. Agrees(queue[m], queue[m])
    BY DEF Agrees
  <1> QED BY <1>1, <1>2, <1>3 DEF HolderIsRight

(* What went out and is recorded, or about to be, remains so.              *)
LEMMA StaysSettled ==
  ASSUME TypeOK, Placed, NEW s \in Session, NEW q, Moves(s, q),
         NEW n \in Notification, Settled(n), sends'[n] = sends[n],
         q # Idle => n \notin q.todo,
         queue[n].status \in {"SENT", "deleted"} => queue'[n].status \in {"SENT", "deleted"},
         Storing(s, n) => \/ q # Idle /\ q.step = "sent" /\ q.current = n
                          \/ queue'[n].status \in {"SENT", "deleted"}
  PROVE  Settled(n)'
  <1>1. sends'[n] = 1
    BY DEF Settled
  <1>2. \A t \in Session : Busy(t)' => n \notin pass'[t].todo
    BY PassMoves DEF Settled, Busy
  <1>3. ASSUME NEW t \in Session, Storing(t, n)
        PROVE  Storing(t, n)' \/ queue'[n].status \in {"SENT", "deleted"}
    BY <1>3, PassMoves DEF Storing, Busy
  <1> QED BY <1>1, <1>2, <1>3 DEF Settled

(* A step that sends nothing and changes no row: a session moves from one  *)
(* stage to the next, or lets go of what it had.                           *)
LEMMA QuietStep ==
  ASSUME IInv, NEW s \in Session, NEW q, Moves(s, q),
         \A m \in Notification : InHand(q, m) =>
             Holds(s, m) /\ q.seen[m] \in {pass[s].seen[m], queue[m]},
         q # Idle => \A m \in q.todo : Busy(s) /\ m \in pass[s].todo,
         q # Idle /\ q.step = "sent" => \E m \in Notification : Storing(s, m) /\ q.current = m,
         queue' = queue, sends' = sends, shared' = shared,
         repeated' \in SUBSET Notification, repeated \subseteq repeated',
         \A m \in Notification : Storing(s, m) =>
             m \in repeated' \/ (q # Idle /\ q.step = "sent" /\ q.current = m)
  PROVE  IInv' /\ CancelledLeft
  <1> USE DEF IInv
  <1>1. TypeOK'
    BY PassMoves DEF TypeOK
  <1>2. Placed'
    BY PassMoves
  <1>3. OneHolder' /\ \A m \in Notification : Held(m)' => Held(m)
    BY Narrows
  <1>4. AbsentUntouched'
    BY <1>3 DEF AbsentUntouched
  <1>5. HolderIsRight'
    BY StillRight
  <1>6. SentInHand'
    <2>1. SUFFICES ASSUME NEW t \in Session, Busy(t)', pass'[t].step = "sent"
                   PROVE  sends[pass'[t].current] > 0
      BY DEF SentInHand
    <2>2. Busy(t) /\ pass[t].step = "sent" /\ pass'[t].current = pass[t].current
      BY <2>1, PassMoves DEF Busy, Storing
    <2> QED BY <2>2 DEF SentInHand
  <1>7. SentWentOut' /\ RetryLeft'
    BY DEF SentWentOut, RetryLeft
  <1>8. ASSUME NEW m \in Notification, m \notin shared' \cup repeated', sends'[m] > 0
        PROVE  Settled(m)'
    <2>1. Settled(m)
      BY <1>8 DEF SentIsSettled
    <2>2. q # Idle => m \notin q.todo
      BY <2>1 DEF Settled
    <2>3. Storing(s, m) => q # Idle /\ q.step = "sent" /\ q.current = m
      BY <1>8
    <2> QED BY <2>1, <2>2, <2>3, StaysSettled
  <1>9. SentIsSettled'
    BY <1>8 DEF SentIsSettled
  <1>10. CancelledLeft
    BY <1>3 DEF CancelledLeft
  <1> QED BY <1>10, <1>1, <1>2, <1>3, <1>4, <1>5, <1>6, <1>7, <1>9

(* The rest of a pass, when session s is through with notification n.      *)
Rest(p, n, left) ==
    IF left = {} THEN Idle
    ELSE [p EXCEPT !.todo = left, !.current = NoOne, !.step = "next", !.seen[n] = Absent]

LEMMA RestType ==
  ASSUME NEW p \in Pass, NEW n \in Notification, NEW left, left \subseteq p.todo, n \notin left,
         NEW q, q = Rest(p, n, left)
  PROVE  /\ q \in Pass \cup {Idle}
         /\ WellPlaced(q)
         /\ \A m \in Notification : InHand(q, m) => m \in left /\ m # n /\ q.seen[m] = p.seen[m]
         /\ q # Idle => q.todo = left /\ q.step = "next" /\ q.current = NoOne
  <1>1. CASE left = {}
    BY <1>1 DEF Rest, InHand, WellPlaced
  <1>2. CASE left # {}
    <2>1. Absent \in Row
      BY DEF Absent, Row, Status
    <2>2. PICK v : v = [p.seen EXCEPT ![n] = Absent]
      OBVIOUS
    <2>3. v \in [Notification -> Row] /\ \A m \in Notification : m # n => v[m] = p.seen[m]
      BY <2>1, <2>2, PassType
    <2>4. q = [kind |-> p.kind, todo |-> left, current |-> NoOne, event |-> p.event,
               later |-> p.later, step |-> "next", seen |-> v]
      BY <1>2, <2>2 DEF Rest, Pass
    <2>5. q \in Pass
      BY <2>3, <2>4, PassType DEF Pass
    <2>6. q # Idle
      BY <2>4 DEF Idle
    <2>7. WellPlaced(q)
      BY <2>4 DEF WellPlaced
    <2>8. \A m \in Notification : InHand(q, m) => m \in left /\ m # n /\ q.seen[m] = p.seen[m]
      BY <2>3, <2>4, NotificationsAssumption DEF InHand
    <2> QED BY <2>4, <2>5, <2>6, <2>7, <2>8
  <1> QED BY <1>1, <1>2

(* Continue leaves session s with the rest of its pass.                    *)
LEMMA ContinueMoves ==
  ASSUME TypeOK, NEW s \in Session, Busy(s), NEW n \in Notification,
         NEW left, left \subseteq pass[s].todo, n \notin left, Continue(s, n, left)
  PROVE  \E q : /\ Moves(s, q)
                /\ \A m \in Notification : InHand(q, m) =>
                       m \in left /\ m # n /\ q.seen[m] = pass[s].seen[m]
                /\ q # Idle => q.todo = left /\ q.step = "next" /\ q.current = NoOne
  <1>1. PICK p \in Pass : p = pass[s]
    BY BusyType
  <1>2. PICK q : q = Rest(pass[s], n, left)
    OBVIOUS
  <1>3. pass' = [pass EXCEPT ![s] = q]
    BY <1>2 DEF Continue, Rest
  <1>4. /\ q \in Pass \cup {Idle}
        /\ WellPlaced(q)
        /\ \A m \in Notification : InHand(q, m) => m \in left /\ m # n /\ q.seen[m] = p.seen[m]
        /\ q # Idle => q.todo = left /\ q.step = "next" /\ q.current = NoOne
    <2>1. q = Rest(p, n, left) /\ left \subseteq p.todo
      BY <1>1, <1>2
    <2> QED BY <2>1, RestType
  <1>5. Moves(s, q)
    BY <1>3, <1>4 DEF Moves
  <1> QED BY <1>1, <1>4, <1>5

(***************************************************************************)
(* One lemma for each action: it keeps the invariant, and leaves alone     *)
(* what is cancelled and in nobody's hands.                                *)
(***************************************************************************)
LEMMA SkipStep ==
  ASSUME IInv, NEW s \in Session, NEW n \in Notification, Skip(s, n)
  PROVE  IInv' /\ CancelledLeft
  <1> USE DEF IInv
  <1>1. Busy(s) /\ pass[s].step = "next" /\ n \in pass[s].todo
    BY DEF Skip, MayDeliver, Busy
  <1>2. PICK q : /\ Moves(s, q)
                 /\ \A m \in Notification : InHand(q, m) =>
                        m \in pass[s].todo \ {n} /\ m # n /\ q.seen[m] = pass[s].seen[m]
                 /\ q # Idle => q.todo = pass[s].todo \ {n} /\ q.step = "next"
    BY <1>1, ContinueMoves DEF Skip
  <1>3. \A m \in Notification : InHand(q, m) => Holds(s, m) /\ q.seen[m] = pass[s].seen[m]
    BY <1>1, <1>2 DEF Holds, Busy
  <1> QED BY <1>1, <1>2, <1>3, QuietStep DEF Skip, TypeOK, Storing

LEMMA LoggedStep ==
  ASSUME IInv, NEW s \in Session, Logged(s)
  PROVE  IInv' /\ CancelledLeft
  <1> USE DEF IInv
  <1>1. Busy(s) /\ pass[s].step = "logging"
    BY DEF Logged, Busy
  <1>2. PICK n \in Notification : n = pass[s].current /\ n \notin pass[s].todo
    BY <1>1 DEF Placed
  <1>3. PICK q : /\ Moves(s, q)
                 /\ \A m \in Notification : InHand(q, m) =>
                        m \in pass[s].todo /\ m # n /\ q.seen[m] = pass[s].seen[m]
                 /\ q # Idle => q.todo = pass[s].todo /\ q.step = "next"
    BY <1>1, <1>2, ContinueMoves DEF Logged
  <1>4. \A m \in Notification : InHand(q, m) => Holds(s, m) /\ q.seen[m] = pass[s].seen[m]
    BY <1>1, <1>3 DEF Holds, Busy
  <1> QED BY <1>1, <1>3, <1>4, QuietStep DEF Logged, TypeOK, Storing

LEMMA StopStep ==
  ASSUME IInv, NEW s \in Session, Stop(s)
  PROVE  IInv' /\ CancelledLeft
  <1> USE DEF IInv
  <1>1. PICK q : q = Idle
    OBVIOUS
  <1>2. Busy(s) /\ Moves(s, q)
    BY <1>1 DEF Stop, Busy, Moves, WellPlaced
  <1>3. pass[s].step = "sent" => pass[s].current \in Notification
    BY <1>2 DEF Placed
  <1>4. repeated' \in SUBSET Notification /\ repeated \subseteq repeated'
    BY <1>3 DEF Stop, TypeOK
  <1>5. \A m \in Notification : ~InHand(q, m)
    BY <1>1 DEF InHand
  <1>6. \A m \in Notification : Storing(s, m) => m \in repeated'
    BY DEF Stop, Storing
  <1>7. queue' = queue /\ sends' = sends /\ shared' = shared
    BY DEF Stop
  <1>8. /\ \A m \in Notification : InHand(q, m) =>
               Holds(s, m) /\ q.seen[m] \in {pass[s].seen[m], queue[m]}
        /\ q # Idle => \A m \in q.todo : Busy(s) /\ m \in pass[s].todo
        /\ q # Idle /\ q.step = "sent" => \E m \in Notification : Storing(s, m) /\ q.current = m
    BY <1>1, <1>5
  <1>9. \A m \in Notification : Storing(s, m) =>
            m \in repeated' \/ (q # Idle /\ q.step = "sent" /\ q.current = m)
    BY <1>6
  <1> QED BY <1>2, <1>4, <1>7, <1>8, <1>9, QuietStep

LEMMA SendFailsStep ==
  ASSUME IInv, NEW s \in Session, NEW n \in Notification, SendFails(s, n)
  PROVE  IInv' /\ CancelledLeft
  <1> USE DEF IInv
  <1>1. PICK p \in Pass : p = pass[s] /\ p # Idle /\ p.kind # "request" /\ p.step = "next"
                          /\ n \in p.todo
    BY BusyType DEF SendFails, MayDeliver, Busy
  <1>2. PICK q : q = [p EXCEPT !.todo = @ \ {n}, !.current = n, !.step = "failed"]
    OBVIOUS
  <1>3. /\ q \in Pass
        /\ q.todo = p.todo \ {n} /\ q.current = n /\ q.step = "failed"
        /\ q.kind = p.kind /\ q.seen = p.seen
    BY <1>1, <1>2 DEF Pass
  <1>4. pass' = [pass EXCEPT ![s] = q]
    BY <1>1, <1>2 DEF SendFails, TypeOK
  <1>5. Moves(s, q)
    BY <1>1, <1>3, <1>4, PassType DEF Moves, WellPlaced
  <1>6. \A m \in Notification : InHand(q, m) => Holds(s, m) /\ q.seen[m] = pass[s].seen[m]
    BY <1>1, <1>3 DEF InHand, Holds
  <1> QED BY <1>1, <1>3, <1>5, <1>6, QuietStep DEF SendFails, TypeOK, Busy, Storing

LEMMA DispatchStep ==
  ASSUME IInv, NEW s \in Session, Dispatch(s)
  PROVE  IInv' /\ CancelledLeft
  <1> USE DEF IInv
  <1>1. PICK p \in Pass : p = pass[s] /\ p # Idle /\ p.kind = "request" /\ p.step = "next"
    BY BusyType DEF Dispatch, Busy, Placed
  <1>2. PICK q : q = IF p.later \/ p.todo = {} THEN Idle
                     ELSE [p EXCEPT !.kind = "task", !.event = NoOne]
    OBVIOUS
  <1>3. pass' = [pass EXCEPT ![s] = q]
    BY <1>1, <1>2 DEF Dispatch, TypeOK
  <1>4. q # Idle => /\ q \in Pass /\ q.todo = p.todo /\ q.current = p.current
                    /\ q.step = "next" /\ q.kind = "task" /\ q.seen = p.seen
    BY <1>1, <1>2 DEF Pass
  <1>5. Moves(s, q)
    BY <1>1, <1>3, <1>4 DEF Moves, WellPlaced, Placed, Busy
  <1>6. \A m \in Notification : InHand(q, m) => Holds(s, m) /\ q.seen[m] = pass[s].seen[m]
    BY <1>1, <1>4 DEF InHand, Holds
  <1> QED BY <1>1, <1>4, <1>5, <1>6, QuietStep DEF Dispatch, TypeOK, Busy, Storing

LEMMA SendStep ==
  ASSUME IInv, NEW s \in Session, NEW n \in Notification, Send(s, n)
  PROVE  IInv' /\ CancelledLeft
  <1> USE DEF IInv
  <1>1. PICK p \in Pass : p = pass[s] /\ p # Idle /\ p.kind # "request" /\ p.step = "next"
                          /\ n \in p.todo /\ p.current = NoOne
    BY BusyType DEF Send, MayDeliver, Busy, Placed
  <1>2. PICK q : q = [p EXCEPT !.todo = @ \ {n}, !.current = n, !.step = "sent"]
    OBVIOUS
  <1>3. /\ q \in Pass
        /\ q.todo = p.todo \ {n} /\ q.current = n /\ q.step = "sent"
        /\ q.kind = p.kind /\ q.seen = p.seen
    BY <1>1, <1>2 DEF Pass
  <1>4. pass' = [pass EXCEPT ![s] = q]
    BY <1>1, <1>2 DEF Send, TypeOK
  <1>5. Moves(s, q) /\ q # Idle
    BY <1>1, <1>3, <1>4, PassType DEF Moves, WellPlaced
  <1>6. \A m \in Notification : InHand(q, m) => Holds(s, m) /\ q.seen[m] = pass[s].seen[m]
    BY <1>1, <1>3 DEF InHand, Holds
  <1>7. /\ queue' = queue /\ shared' = shared /\ repeated' = repeated
        /\ sends' \in [Notification -> 0 .. 2]
        /\ sends'[n] = IF sends[n] = 2 THEN 2 ELSE sends[n] + 1
        /\ \A m \in Notification : m # n => sends'[m] = sends[m]
    BY DEF Send, TypeOK
  <1>8. sends'[n] > 0 /\ sends[n] \in 0 .. 2
    BY <1>7 DEF TypeOK
  <1>9. TypeOK'
    BY <1>5, <1>7, PassMoves DEF TypeOK
  <1>10. Placed'
    BY <1>5, PassMoves
  <1>11. OneHolder' /\ \A m \in Notification : Held(m)' => Held(m)
    BY <1>5, <1>6, <1>7, Narrows
  <1>12. Holds(s, n)
    BY <1>1 DEF Holds
  <1>13. AbsentUntouched'
    BY <1>7, <1>11, <1>12 DEF AbsentUntouched, Held
  <1>14. HolderIsRight'
    BY <1>5, <1>6, <1>7, StillRight
  <1>15. SentInHand'
    <2>1. Busy(s)' /\ pass'[s].current = n
      BY <1>3, <1>5, PassMoves DEF Busy
    <2>2. ASSUME NEW t \in Session, Busy(t)', pass'[t].step = "sent"
          PROVE  sends'[pass'[t].current] > 0
      <3>1. CASE t = s
        BY <2>1, <1>8, <3>1
      <3>2. CASE t # s
        <4>1. PICK m : m = pass[t].current
          OBVIOUS
        <4>2. pass'[t] = pass[t] /\ Busy(t)
          BY <2>2, <3>2, <1>5, PassMoves DEF Busy
        <4>3. m \in Notification /\ sends[m] > 0
          BY <4>1, <4>2, <2>2 DEF Placed, SentInHand
        <4>4. sends'[m] > 0
          BY <4>3, <1>7, <1>8
        <4> QED BY <4>1, <4>2, <4>4
      <3> QED BY <3>1, <3>2
    <2> QED BY <2>2 DEF SentInHand
  <1>16. SentWentOut' /\ RetryLeft'
    BY <1>7, <1>8 DEF SentWentOut, RetryLeft
  <1>17. ASSUME NEW m \in Notification, m \notin shared \cup repeated, sends'[m] > 0
         PROVE  Settled(m)'
    <2>1. CASE m = n
      <3>1. sends[n] = 0
        BY <2>1, <1>17, <1>1, <1>8 DEF SentIsSettled, Settled, Busy
      <3>2. sends'[n] = 1
        BY <3>1, <1>7
      <3>3. \A t \in Session : Busy(t)' => n \notin pass'[t].todo
        <4>1. TAKE t \in Session
        <4>2. CASE t = s
          BY <4>2, <1>3, <1>5, PassMoves
        <4>3. CASE t # s
          BY <4>3, <2>1, <1>17, <1>12, <1>5, PassMoves DEF OneHolder, Holds, Busy
        <4> QED BY <4>2, <4>3
      <3>4. Storing(s, n)'
        BY <1>3, <1>5, PassMoves DEF Storing, Busy
      <3> QED BY <2>1, <3>2, <3>3, <3>4 DEF Settled
    <2>2. CASE m # n
      <3>1. Settled(m) /\ sends'[m] = sends[m]
        BY <2>2, <1>17, <1>7 DEF SentIsSettled
      <3>2. m \notin q.todo
        BY <3>1, <1>1, <1>3 DEF Settled, Busy
      <3>3. ~Storing(s, m)
        BY <1>1 DEF Storing
      <3> QED BY <3>1, <3>2, <3>3, <1>5, <1>7, StaysSettled
    <2> QED BY <2>1, <2>2
  <1>18. SentIsSettled'
    BY <1>7, <1>17 DEF SentIsSettled
  <1>19. CancelledLeft
    BY <1>7, <1>11, <1>12 DEF CancelledLeft, Held
  <1> QED BY <1>19, <1>9, <1>10, <1>11, <1>13, <1>14, <1>15, <1>16, <1>18

LEMMA LogRaisesStep ==
  ASSUME IInv, NEW s \in Session, LogRaises(s)
  PROVE  IInv' /\ CancelledLeft
  <1> USE DEF IInv
  <1>1. PICK p \in Pass : p = pass[s] /\ p # Idle /\ p.step = "logging"
    BY BusyType DEF LogRaises, Busy
  <1>2. PICK n \in Notification : n = p.current /\ n \notin p.todo /\ p.kind # "request"
    BY <1>1 DEF Placed, Busy
  <1>3. PICK v : v = [p.seen EXCEPT ![n] = queue[n]]
    OBVIOUS
  <1>4. /\ v \in [Notification -> Row] /\ v[n] = queue[n]
        /\ \A m \in Notification : m # n => v[m] = p.seen[m]
    BY <1>3, PassType DEF TypeOK
  <1>5. PICK q : q = [p EXCEPT !.step = "failed", !.seen = v]
    OBVIOUS
  <1>6. /\ q \in Pass /\ q.todo = p.todo /\ q.current = p.current
        /\ q.kind = p.kind /\ q.step = "failed" /\ q.seen = v
    BY <1>1, <1>4, <1>5 DEF Pass
  <1>7. pass' = [pass EXCEPT ![s] = q]
    BY <1>1, <1>2, <1>3, <1>5 DEF LogRaises, TypeOK, Pass
  <1>8. Moves(s, q)
    BY <1>1, <1>2, <1>6, <1>7 DEF Moves, WellPlaced
  <1>9. \A m \in Notification : InHand(q, m) =>
            Holds(s, m) /\ q.seen[m] \in {pass[s].seen[m], queue[m]}
    BY <1>1, <1>4, <1>6 DEF InHand, Holds
  <1> QED BY <1>1, <1>6, <1>8, <1>9, QuietStep DEF LogRaises, TypeOK, Busy, Storing

LEMMA RereadStep ==
  ASSUME IInv, NEW s \in Session, Reread(s)
  PROVE  IInv' /\ CancelledLeft
  <1> USE DEF IInv
  <1>1. PICK p \in Pass : p = pass[s] /\ p # Idle /\ p.step \in {"sent", "failed"}
                          /\ p.kind = "task"
    BY BusyType DEF Reread, Busy
  <1>2. PICK n \in Notification : n = p.current /\ n \notin p.todo
    BY <1>1 DEF Placed, Busy
  <1>3. PICK v : v = [p.seen EXCEPT ![n] = queue[n]]
    OBVIOUS
  <1>4. /\ v \in [Notification -> Row] /\ v[n] = queue[n]
        /\ \A m \in Notification : m # n => v[m] = p.seen[m]
    BY <1>3, PassType DEF TypeOK
  <1>5. PICK q : q = [p EXCEPT !.seen = v]
    OBVIOUS
  <1>6. /\ q \in Pass /\ q.todo = p.todo /\ q.current = p.current
        /\ q.kind = p.kind /\ q.step = p.step /\ q.seen = v
    BY <1>1, <1>4, <1>5 DEF Pass
  <1>7. pass' = [pass EXCEPT ![s] = q]
    BY <1>1, <1>2, <1>3, <1>5 DEF Reread, TypeOK, Pass
  <1>8. Moves(s, q) /\ q # Idle
    BY <1>1, <1>2, <1>6, <1>7, PassType DEF Moves, WellPlaced
  <1>9. \A m \in Notification : InHand(q, m) =>
            Holds(s, m) /\ q.seen[m] \in {pass[s].seen[m], queue[m]}
    BY <1>1, <1>4, <1>6 DEF InHand, Holds
  <1>10. q.step = "sent" => Storing(s, n) /\ q.current = n
    BY <1>1, <1>2, <1>6 DEF Storing, Busy
  <1> QED BY <1>1, <1>2, <1>6, <1>8, <1>9, <1>10, QuietStep DEF Reread, TypeOK, Busy, Storing

LEMMA RequestStep ==
  ASSUME IInv, NEW s \in Session, NEW e \in Event, Request(s, e)
  PROVE  IInv' /\ CancelledLeft
  <1> USE DEF IInv
  <1>1. PICK later \in BOOLEAN : pass' = [pass EXCEPT ![s] = NewPass("request", {}, e, later)]
    BY DEF Request
  <1>2. PICK q : q = NewPass("request", {}, e, later)
    OBVIOUS
  <1>3. /\ q \in Pass /\ WellPlaced(q) /\ q.todo = {} /\ q.step = "next"
        /\ \A m \in Notification : ~InHand(q, m)
    <2>1. Absent \in Row
      BY DEF Absent, Row, Status
    <2>2. q = [kind |-> "request", todo |-> {}, current |-> NoOne, event |-> e, later |-> later,
               step |-> "next", seen |-> [m \in Notification |-> Absent]]
      BY <1>2 DEF NewPass
    <2>3. q \in Pass
      BY <2>1, <2>2 DEF Pass
    <2> QED BY <2>2, <2>3, NotificationsAssumption DEF WellPlaced, InHand
  <1>4. Moves(s, q)
    BY <1>1, <1>2, <1>3 DEF Moves
  <1>5. ~Busy(s)
    BY DEF Request, Busy
  <1> QED BY <1>3, <1>4, <1>5, QuietStep DEF Request, TypeOK, Storing

LEMMA TakeStep ==
  ASSUME IInv, NEW s \in Session, pass[s] = Idle, NEW kind \in {"pending", "retry"},
         NEW batch \in SUBSET Notification, Take(s, kind, batch),
         \A m \in batch : queue[m].status \in Cancellable
  PROVE  IInv' /\ CancelledLeft
  <1> USE DEF IInv
  <1>1. PICK q : q = NewPass(kind, batch, NoOne, FALSE)
    OBVIOUS
  <1>2. /\ q \in Pass /\ q # Idle /\ WellPlaced(q) /\ q.todo = batch /\ q.step = "next"
        /\ \A m \in Notification : InHand(q, m) <=> m \in batch
        /\ \A m \in batch : q.seen[m] = queue[m]
    <2>1. Absent \in Row
      BY DEF Absent, Row, Status
    <2>2. PICK v : v = [m \in Notification |-> IF m \in batch THEN queue[m] ELSE Absent]
      OBVIOUS
    <2>3. v \in [Notification -> Row] /\ \A m \in batch : v[m] = queue[m]
      BY <2>1, <2>2 DEF TypeOK
    <2>4. q = [kind |-> kind, todo |-> batch, current |-> NoOne, event |-> NoOne,
               later |-> FALSE, step |-> "next", seen |-> v]
      BY <1>1, <2>2 DEF NewPass
    <2>5. q \in Pass
      BY <2>3, <2>4 DEF Pass
    <2>6. q # Idle
      BY <2>5, PassType
    <2>7. WellPlaced(q) /\ \A m \in Notification : InHand(q, m) <=> m \in batch
      BY <2>4, <2>6, NotificationsAssumption DEF WellPlaced, InHand
    <2> QED BY <2>3, <2>4, <2>5, <2>6, <2>7
  <1>3. Moves(s, q)
    BY <1>1, <1>2 DEF Moves, Take
  <1>4. /\ queue' = queue /\ sends' = sends /\ repeated' = repeated
        /\ shared' = shared \cup {m \in batch : Held(m)}
    BY DEF Take
  <1>5. ~Busy(s) /\ \A m \in Notification : ~Holds(s, m)
    BY DEF Busy, Holds
  <1>6. TypeOK'
    BY <1>3, <1>4, PassMoves DEF TypeOK
  <1>7. Placed'
    BY <1>3, PassMoves
  <1>8. \A t \in Session, m \in Notification : Holds(t, m)' <=> Holds(t, m) \/ (t = s /\ m \in batch)
    BY <1>2, <1>3, <1>5, PassMoves
  <1>9. AbsentUntouched'
    BY <1>4, <1>8 DEF AbsentUntouched, Held, Cancellable, Waiting
  <1>10. OneHolder'
    BY <1>4, <1>8 DEF OneHolder, Held
  <1>11. HolderIsRight'
    <2> SUFFICES ASSUME NEW m \in Notification, m \notin shared', NEW t \in Session, Holds(t, m)'
                 PROVE  Agrees(queue[m], pass'[t].seen[m])
      BY <1>4 DEF HolderIsRight
    <2>1. CASE t = s
      BY <2>1, <1>2, <1>3, <1>5, <1>8, PassMoves DEF Agrees
    <2>2. CASE t # s
      BY <2>2, <1>3, <1>4, <1>8, PassMoves DEF HolderIsRight
    <2> QED BY <2>1, <2>2
  <1>12. SentInHand'
    BY <1>2, <1>3, <1>4, PassMoves DEF SentInHand, Busy
  <1>13. SentWentOut' /\ RetryLeft'
    BY <1>4 DEF SentWentOut, RetryLeft
  <1>14. ASSUME NEW m \in Notification, m \notin shared' \cup repeated', sends'[m] > 0
         PROVE  Settled(m)'
    <2>1. Settled(m)
      BY <1>4, <1>14 DEF SentIsSettled
    <2>2. m \notin batch
      <3> SUFFICES ASSUME m \in batch
                   PROVE  FALSE
        OBVIOUS
      <3>1. ~Held(m)
        BY <1>4, <1>14
      <3>2. queue[m].status \in {"SENT", "deleted"}
        BY <2>1, <3>1 DEF Settled, Held, Holds, Storing, Busy
      <3> QED BY <3>2 DEF Cancellable, Waiting
    <2>3. ~Storing(s, m)
      BY <1>5 DEF Storing
    <2> QED BY <2>1, <2>2, <2>3, <1>2, <1>3, <1>4, StaysSettled
  <1>15. SentIsSettled'
    BY <1>14 DEF SentIsSettled
  <1>16. CancelledLeft
    BY <1>4, <1>8 DEF CancelledLeft, Held, Cancellable, Waiting
  <1> QED BY <1>16, <1>6, <1>7, <1>9, <1>10, <1>11, <1>12, <1>13, <1>15

(* A step that changes rows only.                                          *)
LEMMA RowsStep ==
  ASSUME IInv, UNCHANGED <<pass, sends, shared, repeated>>,
         queue' \in [Notification -> Row],
         \A m \in Notification :
             /\ queue'[m].retries = queue[m].retries
             /\ \/ queue'[m].status = queue[m].status
                \/ queue[m].status \in Cancellable /\ queue'[m].status = "CANCELLED"
                \/ queue[m].status \in Finished /\ queue'[m].status = "deleted" /\ ~Held(m)
  PROVE  IInv' /\ CancelledLeft
  <1> USE DEF IInv
  <1>1. TypeOK' /\ Placed' /\ SentInHand'
    BY DEF TypeOK, Placed, Busy, SentInHand
  <1>2. \A t \in Session, m \in Notification : Holds(t, m)' <=> Holds(t, m)
    BY DEF Holds
  <1>3. AbsentUntouched' /\ OneHolder'
    BY <1>2 DEF AbsentUntouched, OneHolder, Held
  <1>4. HolderIsRight'
    <2> SUFFICES ASSUME NEW m \in Notification, m \notin shared, NEW t \in Session, Holds(t, m)
                 PROVE  Agrees(queue'[m], pass[t].seen[m])
      BY <1>2 DEF HolderIsRight
    <2>1. Agrees(queue[m], pass[t].seen[m]) /\ Held(m)
      BY DEF HolderIsRight, Held
    <2> QED BY <2>1 DEF Agrees, Cancellable, Waiting
  <1>5. SentWentOut' /\ RetryLeft'
    BY DEF SentWentOut, RetryLeft
  <1>6. ASSUME NEW m \in Notification, m \notin shared \cup repeated, sends[m] > 0
        PROVE  Settled(m)'
    <2>1. Settled(m)
      BY <1>6 DEF SentIsSettled
    <2> QED BY <2>1 DEF Settled, Storing, Busy, Cancellable, Waiting
  <1>7. SentIsSettled'
    BY <1>6 DEF SentIsSettled
  <1>8. CancelledLeft
    BY <1>2 DEF CancelledLeft, Held, Cancellable, Waiting, Finished
  <1> QED BY <1>8, <1>1, <1>3, <1>4, <1>5, <1>7

LEMMA EnqueueStep ==
  ASSUME IInv, NEW s \in Session, NEW n \in Notification, Enqueue(s, n)
  PROVE  IInv' /\ CancelledLeft
  <1> USE DEF IInv
  <1>1. PICK p \in Pass : p = pass[s] /\ p # Idle /\ p.kind = "request" /\ p.step = "next"
                          /\ p.current = NoOne
    BY BusyType DEF Enqueue, Busy, Placed
  <1>2. queue[n].status = "absent" /\ ~Held(n) /\ sends[n] = 0
    BY DEF Enqueue, AbsentUntouched
  <1>3. PICK r : r = [queue[n] EXCEPT !.status = "PENDING", !.due = ~pass[s].later]
    OBVIOUS
  <1>4. /\ r \in Row /\ r.status = "PENDING"
        /\ queue' = [queue EXCEPT ![n] = r]
    <2>1. queue[n] \in Row /\ (~pass[s].later) \in BOOLEAN
      BY DEF TypeOK
    <2>2. r \in Row /\ r.status = "PENDING"
      BY <1>3, <2>1 DEF Row, Status
    <2>3. queue' = [queue EXCEPT ![n] = r]
      BY <1>3, <2>1 DEF Enqueue, TypeOK
    <2> QED BY <2>2, <2>3
  <1>5. /\ queue' \in [Notification -> Row] /\ queue'[n] = r
        /\ \A m \in Notification : m # n => queue'[m] = queue[m]
        /\ sends' = sends /\ shared' = shared /\ repeated' = repeated
    BY <1>4 DEF Enqueue, TypeOK
  <1>6. PICK v : v = [p.seen EXCEPT ![n] = r]
    OBVIOUS
  <1>7. /\ v \in [Notification -> Row] /\ v[n] = r
        /\ \A m \in Notification : m # n => v[m] = p.seen[m]
    BY <1>4, <1>6, PassType
  <1>8. PICK q : q = [p EXCEPT !.todo = @ \cup {n}, !.seen = v]
    OBVIOUS
  <1>9. /\ q \in Pass /\ q.todo = p.todo \cup {n} /\ q.current = NoOne
        /\ q.kind = "request" /\ q.step = "next" /\ q.seen = v
    BY <1>1, <1>7, <1>8 DEF Pass
  <1>10. pass' = [pass EXCEPT ![s] = q]
    BY <1>1, <1>5, <1>6, <1>8 DEF Enqueue, TypeOK, Pass
  <1>11. Moves(s, q) /\ q # Idle
    BY <1>9, <1>10, PassType DEF Moves, WellPlaced
  <1>12. TypeOK' /\ Placed'
    BY <1>5, <1>11, PassMoves DEF TypeOK
  <1>13. /\ \A t \in Session, m \in Notification :
               Holds(t, m)' <=> Holds(t, m) \/ (t = s /\ m = n)
    BY <1>1, <1>9, <1>11, NotificationsAssumption, PassMoves DEF InHand, Holds
  <1>14. AbsentUntouched'
    BY <1>4, <1>5, <1>13 DEF AbsentUntouched, Held
  <1>15. OneHolder'
    BY <1>2, <1>5, <1>13 DEF OneHolder, Held
  <1>16. HolderIsRight'
    <2> SUFFICES ASSUME NEW m \in Notification, m \notin shared, NEW t \in Session, Holds(t, m)'
                 PROVE  Agrees(queue'[m], pass'[t].seen[m])
      BY <1>5 DEF HolderIsRight
    <2>1. CASE m = n
      BY <2>1, <1>2, <1>5, <1>7, <1>9, <1>11, <1>13, PassMoves DEF Agrees, Held
    <2>2. CASE m # n
      <3>1. Agrees(queue[m], pass[t].seen[m])
        BY <2>2, <1>13 DEF HolderIsRight
      <3>2. pass'[t].seen[m] = pass[t].seen[m]
        BY <2>2, <1>1, <1>7, <1>9, <1>11, PassMoves
      <3> QED BY <2>2, <3>1, <3>2, <1>5
    <2> QED BY <2>1, <2>2
  <1>17. SentInHand'
    BY <1>5, <1>9, <1>11, PassMoves DEF SentInHand, Busy
  <1>18. SentWentOut' /\ RetryLeft'
    BY <1>4, <1>5 DEF SentWentOut, RetryLeft
  <1>19. ASSUME NEW m \in Notification, m \notin shared \cup repeated, sends[m] > 0
         PROVE  Settled(m)'
    <2>1. Settled(m) /\ m # n
      BY <1>2, <1>19 DEF SentIsSettled
    <2>2. m \notin q.todo /\ ~Storing(s, m)
      BY <2>1, <1>1, <1>9 DEF Settled, Storing, Busy
    <2> QED BY <2>1, <2>2, <1>5, <1>11, StaysSettled
  <1>20. SentIsSettled'
    BY <1>5, <1>19 DEF SentIsSettled
  <1>21. CancelledLeft
    BY <1>2, <1>5, <1>13 DEF CancelledLeft, Held
  <1> QED BY <1>21, <1>12, <1>14, <1>15, <1>16, <1>17, <1>18, <1>20

(* A session writes the row of a notification and has it in hand no more.  *)
LEMMA WriteAndLetGo ==
  ASSUME IInv, NEW s \in Session, NEW n \in Notification, Holds(s, n), NEW q, Moves(s, q),
         NEW left, left \subseteq pass[s].todo,
         \A m \in Notification : InHand(q, m) =>
             m \in left /\ m # n /\ q.seen[m] = pass[s].seen[m],
         q # Idle => q.todo = left /\ q.step = "next",
         \A m \in Notification : ~Storing(s, m),
         NEW r \in Row, queue' = [queue EXCEPT ![n] = r],
         r.status # "absent",
         r.status = "SENT" => queue[n].status = "SENT",
         r.status = "RETRYING" => n \in shared \/ r.retries < MaxRetries,
         sends' = sends, shared' = shared,
         repeated' \in SUBSET Notification, repeated \subseteq repeated',
         sends[n] > 0 => n \in shared \cup repeated'
  PROVE  IInv' /\ CancelledLeft
  <1> USE DEF IInv
  <1>1. /\ queue' \in [Notification -> Row] /\ queue'[n] = r
        /\ \A m \in Notification : m # n => queue'[m] = queue[m]
    BY DEF TypeOK
  <1>2. TypeOK' /\ Placed'
    BY <1>1, PassMoves DEF TypeOK
  <1>3. \A m \in Notification : InHand(q, m) => Holds(s, m)
    BY DEF Holds
  <1>4. OneHolder' /\ \A m \in Notification : Held(m)' => Held(m)
    BY <1>3, Narrows
  <1>5. AbsentUntouched'
    BY <1>1, <1>4 DEF AbsentUntouched
  <1>6. HolderIsRight'
    <2> SUFFICES ASSUME NEW m \in Notification, m \notin shared, NEW t \in Session, Holds(t, m)'
                 PROVE  Agrees(queue'[m], pass'[t].seen[m])
      BY DEF HolderIsRight
    <2>1. Holds(t, m)
      BY <1>3, PassMoves
    <2>2. m # n
      BY <2>1, PassMoves DEF OneHolder
    <2>3. pass'[t].seen[m] = pass[t].seen[m]
      BY PassMoves
    <2> QED BY <2>1, <2>2, <2>3, <1>1 DEF HolderIsRight
  <1>7. SentInHand'
    BY PassMoves DEF SentInHand, Busy
  <1>8. SentWentOut' /\ RetryLeft'
    BY <1>1 DEF SentWentOut, RetryLeft
  <1>9. ASSUME NEW m \in Notification, m \notin shared \cup repeated', sends[m] > 0
        PROVE  Settled(m)'
    <2>1. Settled(m) /\ m # n
      BY <1>9 DEF SentIsSettled
    <2>2. q # Idle => m \notin q.todo
      BY <2>1 DEF Settled, Holds, Busy
    <2> QED BY <2>1, <2>2, <1>1, StaysSettled
  <1>10. SentIsSettled'
    BY <1>9 DEF SentIsSettled
  <1>11. CancelledLeft
    BY <1>1, <1>4 DEF CancelledLeft, Held
  <1> QED BY <1>11, <1>2, <1>4, <1>5, <1>6, <1>7, <1>8, <1>10

LEMMA GiveUpStep ==
  ASSUME IInv, NEW s \in Session, NEW n \in Notification, GiveUp(s, n)
  PROVE  IInv' /\ CancelledLeft
  <1> USE DEF IInv
  <1>1. Busy(s) /\ pass[s].step = "next" /\ n \in pass[s].todo
    BY DEF GiveUp, MayDeliver, Busy
  <1>2. Holds(s, n) /\ \A m \in Notification : ~Storing(s, m)
    BY <1>1 DEF Holds, Busy, Storing
  <1>3. PICK left : left = pass[s].todo \ {n}
    OBVIOUS
  <1>4. PICK q : /\ Moves(s, q)
                 /\ \A m \in Notification : InHand(q, m) =>
                        m \in left /\ m # n /\ q.seen[m] = pass[s].seen[m]
                 /\ q # Idle => q.todo = left /\ q.step = "next"
    BY <1>1, <1>3, ContinueMoves DEF GiveUp
  <1>5. PICK x : x = Written(queue[n].status, pass[s].seen[n].status, "FAILED")
    OBVIOUS
  <1>6. PICK r : r = [queue[n] EXCEPT !.status = x]
    OBVIOUS
  <1>7. queue[n] \in Row /\ x \in {queue[n].status, "FAILED"}
    BY <1>5 DEF Written, TypeOK
  <1>8. r \in Row /\ r.status = x /\ r.retries = queue[n].retries
    BY <1>6, <1>7 DEF Row, Status
  <1>9. queue' = [queue EXCEPT ![n] = r]
    BY <1>5, <1>6 DEF GiveUp, TypeOK
  <1>10. queue[n].status # "absent"
    BY <1>2 DEF AbsentUntouched, Held
  <1>11. sends[n] > 0 => n \in shared \cup repeated
    BY <1>1 DEF SentIsSettled, Settled
  <1>12. r.status = "RETRYING" => n \in shared \/ r.retries < MaxRetries
    BY <1>7, <1>8 DEF RetryLeft
  <1>13. sends' = sends /\ shared' = shared /\ repeated' = repeated /\ repeated \in SUBSET Notification
    BY DEF GiveUp, TypeOK
  <1>14. r.status # "absent" /\ (r.status = "SENT" => queue[n].status = "SENT")
    BY <1>7, <1>8, <1>10
  <1> QED BY <1>2, <1>3, <1>4, <1>8, <1>9, <1>11, <1>12, <1>13, <1>14,
             WriteAndLetGo, ZenonT(90)

LEMMA MarkFailedStep ==
  ASSUME IInv, NEW s \in Session, MarkFailed(s)
  PROVE  IInv' /\ CancelledLeft
  <1> USE DEF IInv
  <1>1. Busy(s) /\ pass[s].step = "failed"
    BY DEF MarkFailed, Busy
  <1>2. PICK n \in Notification : n = pass[s].current /\ n \notin pass[s].todo
    BY <1>1 DEF Placed
  <1>3. Holds(s, n) /\ \A m \in Notification : ~Storing(s, m)
    BY <1>1, <1>2 DEF Holds, Busy, Storing
  <1>4. PICK q : /\ Moves(s, q)
                 /\ \A m \in Notification : InHand(q, m) =>
                        m \in pass[s].todo /\ m # n /\ q.seen[m] = pass[s].seen[m]
                 /\ q # Idle => q.todo = pass[s].todo /\ q.step = "next"
    <2>1. PICK left : left = pass[s].todo
      OBVIOUS
    <2>2. left \subseteq pass[s].todo /\ n \notin left /\ Continue(s, n, left)
      BY <1>2, <2>1 DEF MarkFailed
    <2>3. PICK q : /\ Moves(s, q)
                   /\ \A m \in Notification : InHand(q, m) =>
                          m \in left /\ m # n /\ q.seen[m] = pass[s].seen[m]
                   /\ q # Idle => q.todo = left /\ q.step = "next"
      BY <1>1, <2>2, ContinueMoves, SMTT(30)
    <2> QED BY <2>1, <2>3
  <1>5. PICK row \in Row : row = pass[s].seen[n]
    BY <1>1, BusyType, PassType
  <1>6. PICK next : next = AfterFailure(row)
    OBVIOUS
  <1>7. /\ next \in {"RETRYING", "FAILED"}
        /\ next = "RETRYING" => row.retries + 1 < MaxRetries
    BY <1>6 DEF AfterFailure
  <1>8. PICK x : x = Written(queue[n].status, row.status, next)
    OBVIOUS
  <1>9. queue[n] \in Row /\ (x = next \/ (next = row.status /\ x = queue[n].status))
    BY <1>8 DEF Written, TypeOK
  <1>10. PICK r : r = [queue[n] EXCEPT !.status = x, !.retries = row.retries + 1,
                                       !.retryDue = @ /\ next # "RETRYING"]
    OBVIOUS
  <1>11. r \in Row /\ r.status = x /\ r.retries = row.retries + 1
    <2>1. row.retries + 1 \in Nat
      BY DEF Row
    <2> QED BY <1>7, <1>9, <1>10, <2>1 DEF Row, Status
  <1>12. queue' = [queue EXCEPT ![n] = r]
    BY <1>2, <1>5, <1>6, <1>8, <1>10 DEF MarkFailed, TypeOK
  <1>13. queue[n].status # "absent"
    BY <1>3 DEF AbsentUntouched, Held
  <1>14. r.status # "absent" /\ (r.status = "SENT" => queue[n].status = "SENT")
    BY <1>7, <1>9, <1>11, <1>13
  <1>15. r.status = "RETRYING" => n \in shared \/ r.retries < MaxRetries
    <2> SUFFICES ASSUME n \notin shared, x = "RETRYING"
                 PROVE  row.retries + 1 < MaxRetries
      BY <1>11
    <2>1. Agrees(queue[n], row)
      BY <1>3, <1>5 DEF HolderIsRight
    <2>2. next = "RETRYING"
      BY <2>1, <1>9 DEF Agrees
    <2> QED BY <2>2, <1>7
  <1>16. /\ sends' = sends /\ shared' = shared
         /\ repeated' \in SUBSET Notification /\ repeated \subseteq repeated'
         /\ sends[n] > 0 => n \in repeated'
    BY <1>2 DEF MarkFailed, TypeOK
  <1>17. sends[n] > 0 => n \in shared \cup repeated'
    BY <1>16
  <1> QED BY <1>3, <1>4, <1>11, <1>12, <1>14, <1>15, <1>16, <1>17,
             WriteAndLetGo, ZenonT(90)

LEMMA MarkSentStep ==
  ASSUME IInv, NEW s \in Session, MarkSent(s)
  PROVE  IInv' /\ CancelledLeft
  <1> USE DEF IInv
  <1>1. PICK p \in Pass : p = pass[s] /\ p # Idle /\ p.step = "sent"
    BY BusyType DEF MarkSent, Busy
  <1>2. PICK n \in Notification : n = p.current /\ n \notin p.todo /\ p.kind # "request"
    BY <1>1 DEF Placed, Busy
  <1>3. Holds(s, n) /\ sends[n] > 0
    BY <1>1, <1>2 DEF Holds, SentInHand, Busy
  <1>4. PICK q : q = [p EXCEPT !.step = "logging"]
    OBVIOUS
  <1>5. /\ q \in Pass /\ q.todo = p.todo /\ q.current = n
        /\ q.kind = p.kind /\ q.step = "logging" /\ q.seen = p.seen
    BY <1>1, <1>2, <1>4 DEF Pass
  <1>6. pass' = [pass EXCEPT ![s] = q]
    BY <1>1, <1>4 DEF MarkSent, TypeOK
  <1>7. Moves(s, q)
    BY <1>2, <1>5, <1>6 DEF Moves, WellPlaced
  <1>8. PICK x : x = Written(queue[n].status, p.seen[n].status, "SENT")
    OBVIOUS
  <1>9. queue[n] \in Row /\ (x = "SENT" \/ (p.seen[n].status = "SENT" /\ x = queue[n].status))
    BY <1>8 DEF Written, TypeOK
  <1>10. PICK r : r = [queue[n] EXCEPT !.status = x]
    OBVIOUS
  <1>11. r \in Row /\ r.status = x /\ r.retries = queue[n].retries
    BY <1>9, <1>10 DEF Row, Status
  <1>12. /\ queue' = [queue EXCEPT ![n] = r]
         /\ sends' = sends /\ shared' = shared /\ repeated' = repeated
    BY <1>1, <1>2, <1>8, <1>10 DEF MarkSent, TypeOK
  <1>13. /\ queue' \in [Notification -> Row] /\ queue'[n] = r
         /\ \A m \in Notification : m # n => queue'[m] = queue[m]
    BY <1>11, <1>12 DEF TypeOK
  <1>14. n \notin shared => x = "SENT"
    BY <1>1, <1>3, <1>9 DEF HolderIsRight, Agrees, Cancellable, Waiting
  <1>15. queue[n].status # "absent" /\ r.status # "absent"
    BY <1>3, <1>9, <1>11 DEF AbsentUntouched, Held
  <1>16. TypeOK' /\ Placed'
    BY <1>7, <1>12, <1>13, PassMoves DEF TypeOK
  <1>17. \A m \in Notification : InHand(q, m) => Holds(s, m)
    BY <1>1, <1>2, <1>5 DEF InHand, Holds
  <1>18. OneHolder' /\ \A m \in Notification : Held(m)' => Held(m)
    BY <1>7, <1>12, <1>17, Narrows
  <1>19. AbsentUntouched'
    BY <1>12, <1>13, <1>15, <1>18 DEF AbsentUntouched
  <1>20. HolderIsRight'
    <2> SUFFICES ASSUME NEW m \in Notification, m \notin shared, NEW t \in Session, Holds(t, m)'
                 PROVE  Agrees(queue'[m], pass'[t].seen[m])
      BY <1>12 DEF HolderIsRight
    <2>1. Holds(t, m)
      BY <1>7, <1>17, PassMoves
    <2>2. pass'[t].seen[m] = pass[t].seen[m]
      BY <1>1, <1>5, <1>7, PassMoves
    <2>3. Agrees(queue[m], pass[t].seen[m])
      BY <2>1 DEF HolderIsRight
    <2> QED BY <2>2, <2>3, <1>11, <1>13, <1>14 DEF Agrees
  <1>21. SentInHand'
    BY <1>5, <1>7, <1>12, PassMoves DEF SentInHand, Busy
  <1>22. SentWentOut' /\ RetryLeft'
    BY <1>3, <1>9, <1>11, <1>12, <1>13 DEF SentWentOut, RetryLeft
  <1>23. ASSUME NEW m \in Notification, m \notin shared \cup repeated, sends[m] > 0
         PROVE  Settled(m)'
    <2>1. Settled(m)
      BY <1>23 DEF SentIsSettled
    <2>2. m \notin q.todo
      BY <2>1, <1>1, <1>5 DEF Settled, Busy
    <2>3. Storing(s, m) => queue'[m].status = "SENT"
      BY <1>1, <1>2, <1>11, <1>13, <1>14, <1>23 DEF Storing
    <2>4. queue[m].status \in {"SENT", "deleted"} => queue'[m].status \in {"SENT", "deleted"}
      BY <1>11, <1>13, <1>14, <1>23
    <2> QED BY <2>1, <2>2, <2>3, <2>4, <1>7, <1>12, StaysSettled
  <1>24. SentIsSettled'
    BY <1>12, <1>23 DEF SentIsSettled
  <1>25. CancelledLeft
    BY <1>3, <1>12, <1>13, <1>18 DEF CancelledLeft, Held
  <1> QED BY <1>25, <1>16, <1>18, <1>19, <1>20, <1>21, <1>22, <1>24

(* Cancellation, clean-up and the time change rows only.                   *)
LEMMA TableSteps ==
  ASSUME IInv,
         \/ \E e \in Event : Cancel(e)
         \/ \E n \in Notification : Purge(n) \/ Elapse(n) \/ RetryTime(n)
  PROVE  IInv' /\ CancelledLeft
  <1> USE DEF IInv
  <1>1. ASSUME NEW e \in Event, Cancel(e)
        PROVE  IInv' /\ CancelledLeft
    <2>1. PICK f \in [Notification -> Row] :
              \A n \in Notification : f[n] = [queue[n] EXCEPT !.status = "CANCELLED"]
      <3>1. \A n \in Notification : [queue[n] EXCEPT !.status = "CANCELLED"] \in Row
        BY DEF TypeOK, Row, Status
      <3>2. [n \in Notification |-> [queue[n] EXCEPT !.status = "CANCELLED"]] \in [Notification -> Row]
        BY <3>1
      <3> QED BY <3>2
    <2>2. queue' = [n \in Notification |->
                      IF EventOf[n] = e /\ queue[n].status \in Cancellable THEN f[n] ELSE queue[n]]
      BY <1>1, <2>1 DEF Cancel
    <2>3. \A n \in Notification : f[n].status = "CANCELLED" /\ f[n].retries = queue[n].retries
      BY <2>1 DEF TypeOK, Row
    <2>4. queue' \in [Notification -> Row]
      BY <2>2 DEF TypeOK
    <2>5. \A m \in Notification :
            /\ queue'[m].retries = queue[m].retries
            /\ \/ queue'[m].status = queue[m].status
               \/ queue[m].status \in Cancellable /\ queue'[m].status = "CANCELLED"
      BY <2>2, <2>3
    <2> QED BY <1>1, <2>4, <2>5, RowsStep DEF Cancel
  <1>2. ASSUME NEW n \in Notification, Purge(n) \/ Elapse(n) \/ RetryTime(n)
        PROVE  IInv' /\ CancelledLeft
    <2>1. queue[n] \in Row
      BY DEF TypeOK
    <2>2. PICK r \in Row :
            /\ queue' = [queue EXCEPT ![n] = r]
            /\ r.retries = queue[n].retries
            /\ \/ r.status = queue[n].status
               \/ queue[n].status \in Finished /\ r.status = "deleted" /\ ~Held(n)
      <3>1. CASE Purge(n)
        <4>1. PICK r : r = [queue[n] EXCEPT !.status = "deleted"]
          OBVIOUS
        <4>2. r \in Row /\ r.retries = queue[n].retries /\ r.status = "deleted"
          BY <2>1, <4>1 DEF Row
        <4>3. queue' = [queue EXCEPT ![n] = r]
          BY <3>1, <4>1 DEF Purge, TypeOK
        <4> QED BY <3>1, <4>2, <4>3 DEF Purge
      <3>2. CASE Elapse(n)
        <4>1. PICK r : r = [queue[n] EXCEPT !.due = TRUE]
          OBVIOUS
        <4>2. r \in Row /\ r.retries = queue[n].retries /\ r.status = queue[n].status
          BY <2>1, <4>1 DEF Row
        <4>3. queue' = [queue EXCEPT ![n] = r]
          BY <3>2, <4>1 DEF Elapse, TypeOK
        <4> QED BY <4>2, <4>3
      <3>3. CASE RetryTime(n)
        <4>1. PICK r : r = [queue[n] EXCEPT !.retryDue = TRUE]
          OBVIOUS
        <4>2. r \in Row /\ r.retries = queue[n].retries /\ r.status = queue[n].status
          BY <2>1, <4>1 DEF Row
        <4>3. queue' = [queue EXCEPT ![n] = r]
          BY <3>3, <4>1 DEF RetryTime, TypeOK
        <4> QED BY <4>2, <4>3
      <3> QED BY <1>2, <3>1, <3>2, <3>3
    <2>3. queue' \in [Notification -> Row]
      BY <2>2 DEF TypeOK
    <2>4. \A m \in Notification :
            /\ queue'[m].retries = queue[m].retries
            /\ \/ queue'[m].status = queue[m].status
               \/ queue[m].status \in Finished /\ queue'[m].status = "deleted" /\ ~Held(m)
      BY <2>2 DEF TypeOK
    <2> QED BY <1>2, <2>3, <2>4, RowsStep DEF Purge, Elapse, RetryTime
  <1> QED BY <1>1, <1>2

LEMMA InitIInv == Init => IInv
  <1> SUFFICES ASSUME Init PROVE IInv
    OBVIOUS
  <1>1. Absent \in Row /\ Absent.status = "absent"
    BY DEF Absent, Row, Status
  <1>2. TypeOK
    BY <1>1 DEF Init, TypeOK
  <1>3. \A s \in Session : ~Busy(s)
    BY DEF Init, Busy
  <1>4. \A n \in Notification : ~Held(n)
    BY DEF Init, Held, Holds
  <1>5. Placed /\ SentInHand
    BY <1>3 DEF Placed, SentInHand
  <1>6. AbsentUntouched /\ OneHolder /\ HolderIsRight
    BY <1>4 DEF AbsentUntouched, OneHolder, HolderIsRight, Held, Init
  <1>7. SentWentOut /\ RetryLeft /\ SentIsSettled
    BY <1>1 DEF Init, SentWentOut, RetryLeft, SentIsSettled
  <1> QED BY <1>2, <1>5, <1>6, <1>7 DEF IInv

LEMMA NextIInv == IInv /\ [Next]_vars => IInv' /\ CancelledLeft
  <1> SUFFICES ASSUME IInv, [Next]_vars PROVE IInv' /\ CancelledLeft
    OBVIOUS
  <1>1. CASE UNCHANGED vars
    BY <1>1 DEF vars, IInv, TypeOK, Placed, AbsentUntouched, OneHolder, HolderIsRight, SentInHand,
                SentWentOut, RetryLeft, SentIsSettled, Settled, Storing, Busy, Held, Holds,
                CancelledLeft
  <1>2. ASSUME NEW s \in Session, NEW e \in Event, Request(s, e)
        PROVE  IInv' /\ CancelledLeft
    BY <1>2, RequestStep
  <1>3. ASSUME NEW s \in Session, NEW n \in Notification,
               Enqueue(s, n) \/ Attempt(s, n) \/ Skip(s, n)
        PROVE  IInv' /\ CancelledLeft
    BY <1>3, EnqueueStep, SendStep, SendFailsStep, GiveUpStep, SkipStep DEF Attempt
  <1>4. ASSUME NEW s \in Session,
               Dispatch(s) \/ Record(s) \/ Logged(s) \/ LogRaises(s) \/ Reread(s) \/ Stop(s)
        PROVE  IInv' /\ CancelledLeft
    BY <1>4, DispatchStep, MarkSentStep, MarkFailedStep, LoggedStep, LogRaisesStep, RereadStep,
       StopStep DEF Record
  <1>5. ASSUME NEW s \in Session, StartPending(s) \/ StartRetry(s)
        PROVE  IInv' /\ CancelledLeft
    <2>1. CASE StartPending(s)
      <3>1. PICK batch \in SUBSET Pending : Take(s, "pending", batch)
        BY <2>1 DEF StartPending
      <3>2. batch \in SUBSET Notification /\ \A m \in batch : queue[m].status \in Cancellable
        BY DEF Pending, Cancellable
      <3> QED BY <2>1, <3>1, <3>2, TakeStep DEF StartPending
    <2>2. CASE StartRetry(s)
      <3>1. PICK batch \in SUBSET Retryable : Take(s, "retry", batch)
        BY <2>2 DEF StartRetry
      <3>2. batch \in SUBSET Notification /\ \A m \in batch : queue[m].status \in Cancellable
        BY DEF Retryable, Cancellable
      <3> QED BY <2>2, <3>1, <3>2, TakeStep DEF StartRetry
    <2> QED BY <1>5, <2>1, <2>2
  <1> QED BY <1>1, <1>2, <1>3, <1>4, <1>5, TableSteps DEF Next

(***************************************************************************)
(* The theorems.                                                           *)
(***************************************************************************)
(* IInv is inductive: what follows rests on it.                            *)
THEOREM Invariance == Spec => []IInv
  BY InitIInv, NextIInv, PTL DEF Spec

(* Rows, passes and histories keep their types whatever the sessions do to *)
(* one another.                                                            *)
THEOREM TypeCorrect == Spec => []TypeOK
  BY Invariance, PTL DEF IInv

(* What is stored as sent has gone out, under every interleaving of the    *)
(* sessions that deliver.                                                  *)
THEOREM SentOnlyWhenOut == Spec => []SentWentOut
  BY Invariance, PTL DEF IInv

(* What waits for a retry has one left, unless two sessions had it in hand.*)
THEOREM RetriesLeft == Spec => []RetryLeft
  BY Invariance, PTL DEF IInv

(* A second message has one of the three causes: two sessions at once, a   *)
(* pass cut short before SENT was stored, a failure stored after sending.  *)
THEOREM DuplicatesExplained == Spec => []DuplicatesHaveCause
  <1>1. IInv => DuplicatesHaveCause
    BY DEF IInv, TypeOK, SentIsSettled, Settled, DuplicatesHaveCause
  <1> QED BY <1>1, Invariance, PTL

(* What is cancelled while no session has it in hand is never sent or      *)
(* taken up again.                                                         *)
THEOREM CancelledForGood == Spec => CancelledStaysCancelled
  <1>1. IInv /\ [Next]_vars =>
          [\A n \in Notification :
             queue[n].status = "CANCELLED" /\ ~Held(n) =>
                 /\ queue'[n].status \in {"CANCELLED", "deleted"}
                 /\ ~Held(n)'
                 /\ sends'[n] = sends[n]]_vars
    BY NextIInv DEF CancelledLeft
  <1> QED BY <1>1, Invariance, PTL DEF Spec, CancelledStaysCancelled
=============================================================================
