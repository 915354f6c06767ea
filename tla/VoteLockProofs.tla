--------------------------- MODULE VoteLockProofs ---------------------------
(***************************************************************************)
(* Racing votes implement OneVote, for any calls, people, rules, databases *)
(* and number of attempts.                                                 *)
(*                                                                         *)
(* The invariant says why: who holds the lock sees every committed vote,   *)
(* because its view opened after the lock was granted; and the rows and    *)
(* the step are what the committed votes made of them.  Then a commit is   *)
(* the moment a vote takes effect, and every other step either tells the   *)
(* caller the truth or nothing.                                            *)
(***************************************************************************)
EXTENDS VoteLock, TLAPS

\* A step of OneVote, or none.
Mapped == Promise!Next \/ UNCHANGED Promise!promise

LEMMA InitKeeps == Init => IInv /\ Promise!Init
<1> SUFFICES ASSUME Init PROVE IInv /\ Promise!Init
  OBVIOUS
<1>1. /\ db \in Databases /\ invited \in SUBSET Person
      /\ asked = [c \in Call |-> {}] /\ link = {}
      /\ pending = invited /\ took = {} /\ open = TRUE /\ holder = {}
      /\ pc = [c \in Call |-> "idle"] /\ view = [c \in Call |-> {}]
      /\ decides = {} /\ tries = [c \in Call |-> 0] /\ answer = [c \in Call |-> "none"]
  BY DEF Init
<1>2. TypeOK
  BY <1>1, VoteLockAssumption DEF TypeOK
<1>3. BallotsOf(took) = {}
  BY <1>1 DEF BallotsOf
<1>4. RowsFollowVotes
  BY <1>1, <1>3, VoteLockAssumption DEF RowsFollowVotes
<1>5. LockHeld /\ ViewCurrent /\ WrittenIsRight /\ AnswersFit
  BY <1>1, VoteLockAssumption DEF LockHeld, ViewCurrent, WrittenIsRight, AnswersFit, Working
<1>6. Promise!Init
  BY <1>1 DEF Promise!Init
<1> QED
  BY <1>2, <1>4, <1>5, <1>6 DEF IInv

\* Steps that change what is read or held, and nothing that is committed.
LEMMA HeldKeeps ==
    ASSUME IInv, NEW c \in Call, TypeOK',
           UNCHANGED <<db, invited, durable>>,
           \A d \in Call : d # c => /\ pc'[d] = pc[d] /\ view'[d] = view[d] /\ asked'[d] = asked[d]
                                    /\ answer'[d] = answer[d] /\ (d \in decides' <=> d \in decides)
                                    /\ (d \in holder' <=> d \in holder),
           c \in holder' <=> pc'[c] \in {"locked", "written"},
           c \in holder' => holder' = {c},
           pc'[c] = "ready" => view'[c] = {},
           c \in holder' => db # "mariadb" \/ view'[c] = {} \/ UNION view'[c] = BallotsOf(took),
           pc'[c] = "written" => /\ \A b \in asked[c] : Accepts(c, b)
                                 /\ c \in holder
                                 /\ c \in decides' <=> BallotsOf(took) \cup asked[c] \in Deciding,
           pc'[c] # "written" => c \notin decides',
           asked' = asked,
           pc[c] # "idle" /\ pc'[c] # "idle",
           \A d \in Call : d # c => tries'[d] = tries[d],
           pc'[c] # "done" => answer'[c] = "none" /\ tries'[c] < Attempts,
           pc'[c] = "committed" => c \in took,
           pc'[c] \notin {"committed", "done"} => c \notin took
    PROVE  IInv'
<1>1. \A x : BallotsOf(x)' = BallotsOf(x)
  BY DEF BallotsOf
<1>2. took' = took /\ open' = open /\ pending' = pending /\ db' = db /\ invited' = invited
  BY DEF durable
<1>3. BallotsOf(took)' = BallotsOf(took)
  BY <1>2 DEF BallotsOf
<1>4. LockHeld'
  BY DEF IInv, LockHeld, Working
<1>5. ASSUME NEW d \in Call, d # c
      PROVE  Seen(d)' = Seen(d) /\ ((d \in Working)' <=> d \in Working)
  BY <1>2, <1>3, <1>5 DEF Seen, Working
<1>6. ASSUME c \in holder'
      PROVE  Seen(c)' = BallotsOf(took)
  BY <1>2, <1>3, <1>6 DEF Seen
<1>7. ViewCurrent'
  <2>1. ASSUME NEW d \in Call
        PROVE  /\ pc'[d] = "ready" => view'[d] = {}
               /\ (d \in Working)' => Seen(d)' = BallotsOf(took)'
    <3>1. CASE d = c
      BY <3>1, <1>3, <1>6 DEF Working
    <3>2. CASE d # c
      BY <3>2, <1>3, <1>5 DEF IInv, ViewCurrent
    <3> QED
      BY <3>1, <3>2
  <2> QED
    BY <2>1 DEF ViewCurrent
<1>8. RowsFollowVotes'
  BY <1>2, <1>3 DEF IInv, RowsFollowVotes, Spent
<1>9. WrittenIsRight'
  <2>1. ASSUME NEW d \in Call, pc'[d] = "written"
        PROVE  /\ \A b \in asked[d] : Accepts(d, b)'
               /\ d \in decides' <=> BallotsOf(took) \cup asked[d] \in Deciding
    <3>1. CASE d = c
      <4>1. Seen(c)' = BallotsOf(took)
        BY <2>1, <3>1, <1>6
      <4>2. Seen(c) = BallotsOf(took)
        BY <2>1, <3>1 DEF IInv, ViewCurrent, LockHeld
      <4> QED
        BY <2>1, <3>1, <4>1, <4>2, <1>2 DEF Accepts
    <3>2. CASE d # c
      BY <2>1, <3>2, <1>2, <1>5 DEF IInv, WrittenIsRight, Accepts
    <3> QED
      BY <3>1, <3>2
  <2>2. ASSUME NEW d \in Call, pc'[d] # "written"
        PROVE  d \notin decides'
    BY <2>2 DEF IInv, WrittenIsRight
  <2> QED
    BY <2>1, <2>2, <1>3 DEF WrittenIsRight
<1>10. AnswersFit'
  BY <1>2 DEF IInv, AnswersFit
<1> QED
  BY <1>4, <1>7, <1>8, <1>9, <1>10 DEF IInv

LEMMA HolderWorks ==
    ASSUME IInv, NEW c \in Call
    PROVE  /\ c \in holder <=> pc[c] \in {"locked", "written"}
           /\ c \in holder => holder = {c}
BY DEF IInv, LockHeld, Working, TypeOK

LEMMA ArriveKeeps ==
    ASSUME IInv, NEW c \in Call, Arrive(c)
    PROVE  IInv' /\ Mapped
<1>1. /\ pc[c] = "idle"
      /\ view' = [view EXCEPT ![c] = {BallotsOf(took)}]
      /\ pc' = [pc EXCEPT ![c] = "arrived"]
      /\ UNCHANGED <<db, invited, durable, holder, decides, tries, answer>>
  BY DEF Arrive, OpenView, GoTo
<1>2. PICK b \in Wishes[c] : /\ asked' = [asked EXCEPT ![c] = {b}]
                             /\ link' \in {link} \cup (IF b.by = b.row THEN {link \cup {c}} ELSE {})
  BY DEF Arrive
<1>3. b \in Ballot
  BY VoteLockAssumption
<1>4. asked[c] = {} /\ c \notin took /\ answer[c] = "none"
  BY <1>1 DEF IInv, AnswersFit
<1>5. /\ took' = took /\ open' = open /\ pending' = pending /\ db' = db /\ invited' = invited
      /\ holder' = holder /\ decides' = decides /\ tries' = tries /\ answer' = answer
  BY <1>1 DEF durable
<1>6. /\ pc'[c] = "arrived" /\ asked'[c] = {b}
      /\ \A d \in Call : d # c => pc'[d] = pc[d] /\ view'[d] = view[d] /\ asked'[d] = asked[d]
  BY <1>1, <1>2 DEF IInv, TypeOK
<1>7. BallotsOf(took)' = BallotsOf(took)
  <2>1. \A d \in took : asked'[d] = asked[d]
    BY <1>4, <1>6 DEF IInv, TypeOK
  <2> QED
    BY <2>1, <1>5 DEF BallotsOf
<1>8. BallotsOf(took) \subseteq Ballot
  BY DEF BallotsOf, IInv, TypeOK
<1>9. TypeOK'
  BY <1>1, <1>2, <1>3, <1>5, <1>8 DEF IInv, TypeOK
<1>10. \A d \in Call : (d \in Working)' <=> d \in Working
  BY <1>1, <1>6 DEF Working
<1>11. \A d \in Call : d # c => Seen(d)' = Seen(d)
  BY <1>5, <1>6, <1>7 DEF Seen
<1>12. c \notin Working
  BY <1>1 DEF Working
<1>13. LockHeld'
  BY <1>5, <1>10 DEF IInv, LockHeld, Working
<1>14. ViewCurrent'
  BY <1>6, <1>7, <1>10, <1>11, <1>12 DEF IInv, ViewCurrent
<1>15. RowsFollowVotes'
  BY <1>5, <1>7 DEF IInv, RowsFollowVotes, Spent
<1>16. WrittenIsRight'
  <2>1. pc'[c] # "written" /\ c \notin decides'
    BY <1>1, <1>5, <1>6 DEF IInv, WrittenIsRight
  <2>2. ASSUME NEW d \in Call, d # c, pc'[d] = "written"
        PROVE  /\ \A v \in asked'[d] : Accepts(d, v)'
               /\ d \in decides' <=> BallotsOf(took)' \cup asked'[d] \in Deciding
    <3>1. /\ \A v \in asked[d] : Accepts(d, v)
          /\ d \in decides <=> BallotsOf(took) \cup asked[d] \in Deciding
      BY <1>6, <2>2 DEF IInv, WrittenIsRight
    <3>2. asked'[d] = asked[d] /\ Seen(d)' = Seen(d)
      BY <1>6, <1>11, <2>2
    <3>3. \A v \in asked[d] : Accepts(d, v)'
      BY <1>5, <3>1, <3>2 DEF Accepts
    <3> QED
      BY <1>5, <1>7, <3>1, <3>2, <3>3
  <2>3. ASSUME NEW d \in Call, d # c, pc'[d] # "written"
        PROVE  d \notin decides'
    BY <1>5, <1>6, <2>3 DEF IInv, WrittenIsRight
  <2> QED
    BY <2>1, <2>2, <2>3 DEF WrittenIsRight
<1>17. AnswersFit'
  BY <1>3, <1>4, <1>5, <1>6 DEF IInv, AnswersFit
<1>18. Mapped
  <2>1. Promise!Ask(c)
    BY <1>2, <1>3, <1>4, <1>5 DEF Promise!Ask, Promise!Ballot, Ballot
  <2> QED
    BY <2>1 DEF Mapped, Promise!Next
<1> QED
  BY <1>9, <1>13, <1>14, <1>15, <1>16, <1>17, <1>18 DEF IInv

LEMMA RollBackKeeps ==
    ASSUME IInv, NEW c \in Call, RollBack(c)
    PROVE  IInv' /\ Mapped
<1>1. /\ pc[c] = "arrived"
      /\ view' = [view EXCEPT ![c] = {}] /\ decides' = decides \ {c} /\ holder' = holder \ {c}
      /\ pc' = [pc EXCEPT ![c] = "ready"]
      /\ UNCHANGED <<db, invited, asked, link, durable, tries, answer>>
  BY DEF RollBack, EndTransaction, GoTo
<1>2. TypeOK'
  BY <1>1 DEF IInv, TypeOK, durable
<1>3. c \notin took /\ answer[c] = "none" /\ tries[c] < Attempts
  BY <1>1 DEF IInv, AnswersFit
<1>4. pc'[c] = "ready" /\ view'[c] = {} /\ c \notin holder'
  BY <1>1 DEF IInv, TypeOK
<1>5. \A d \in Call : d # c => pc'[d] = pc[d] /\ view'[d] = view[d]
  BY <1>1 DEF IInv, TypeOK
<1>6. IInv'
  BY <1>1, <1>2, <1>3, <1>4, <1>5, HeldKeeps
<1>7. Mapped
  BY <1>1 DEF Mapped, Promise!promise, durable
<1> QED
  BY <1>6, <1>7

LEMMA LockKeeps ==
    ASSUME IInv, NEW c \in Call, Lock(c)
    PROVE  IInv' /\ Mapped
<1>1. /\ pc[c] = "ready" /\ holder = {} /\ holder' = {c}
      /\ pc' = [pc EXCEPT ![c] = "locked"]
      /\ UNCHANGED <<db, invited, asked, link, durable, view, decides, tries, answer>>
  BY DEF Lock, GoTo
<1>2. TypeOK'
  BY <1>1 DEF IInv, TypeOK, durable
<1>3. c \notin took /\ c \notin decides /\ answer[c] = "none" /\ tries[c] < Attempts
  BY <1>1 DEF IInv, AnswersFit, WrittenIsRight
<1>4. pc'[c] = "locked" /\ view'[c] = {} /\ c \in holder'
  BY <1>1 DEF IInv, TypeOK, ViewCurrent
<1>5. \A d \in Call : d # c => pc'[d] = pc[d] /\ view'[d] = view[d]
  BY <1>1 DEF IInv, TypeOK
<1>6. IInv'
  BY <1>1, <1>2, <1>3, <1>4, <1>5, HeldKeeps
<1>7. Mapped
  BY <1>1 DEF Mapped, Promise!promise, durable
<1> QED
  BY <1>6, <1>7

LEMMA WriteKeeps ==
    ASSUME IInv, NEW c \in Call, Write(c)
    PROVE  IInv' /\ Mapped
<1>1. /\ pc[c] = "locked"
      /\ \E b \in asked[c] : Accepts(c, b)
      /\ view' = [view EXCEPT ![c] = IF view[c] = {} THEN {BallotsOf(took)} ELSE view[c]]
      /\ decides' = IF Seen(c) \cup asked[c] \in Deciding THEN decides \cup {c} ELSE decides
      /\ pc' = [pc EXCEPT ![c] = "written"]
      /\ UNCHANGED <<db, invited, asked, link, durable, holder, tries, answer>>
  BY DEF Write, GoTo
<1>2. BallotsOf(took) \subseteq Ballot
  BY DEF BallotsOf, IInv, TypeOK
<1>3. TypeOK'
  BY <1>1, <1>2 DEF IInv, TypeOK, durable
<1>4. c \notin took /\ answer[c] = "none" /\ tries[c] < Attempts /\ c \in holder /\ holder = {c}
  BY <1>1, HolderWorks DEF IInv, AnswersFit
<1>5. Seen(c) = BallotsOf(took)
  BY <1>1 DEF IInv, ViewCurrent, Working
<1>6. \A b \in asked[c] : Accepts(c, b)
  BY <1>1 DEF IInv, AnswersFit
<1>7. pc'[c] = "written" /\ view'[c] = IF view[c] = {} THEN {BallotsOf(took)} ELSE view[c]
  BY <1>1 DEF IInv, TypeOK
<1>8. \A d \in Call : d # c => pc'[d] = pc[d] /\ view'[d] = view[d]
  BY <1>1 DEF IInv, TypeOK
<1>9. Mapped
  BY <1>1 DEF Mapped, Promise!promise, durable
<1>10. db # "mariadb" \/ UNION view'[c] = BallotsOf(took)
  BY <1>5, <1>7 DEF Seen
<1>11. c \in decides' <=> BallotsOf(took) \cup asked[c] \in Deciding
  <2>1. c \in decides => FALSE
    BY <1>1 DEF IInv, WrittenIsRight
  <2> QED
    BY <2>1, <1>1, <1>5
<1>12. IInv'
  BY <1>1, <1>3, <1>4, <1>6, <1>7, <1>8, <1>10, <1>11, HeldKeeps
<1> QED
  BY <1>9, <1>12

\* The end of a call that cast no vote, or whose answer is on its way.
LEMMA EndKeeps ==
    ASSUME IInv, NEW c \in Call, pc[c] # "idle", pc' = [pc EXCEPT ![c] = "done"],
           view' = [view EXCEPT ![c] = {}], decides' = decides \ {c}, holder' = holder \ {c},
           UNCHANGED <<db, invited, asked, link, durable>>,
           NEW a \in Promise!Answers, answer' = [answer EXCEPT ![c] = a],
           tries' \in [Call -> 0..Attempts], \A d \in Call : d # c => tries'[d] = tries[d]
    PROVE  IInv'
<1>1. TypeOK'
  BY DEF IInv, TypeOK, durable, Promise!Answers
<1>2. pc'[c] = "done" /\ view'[c] = {} /\ c \notin holder' /\ c \notin decides'
  BY DEF IInv, TypeOK
<1>3. \A d \in Call : d # c => pc'[d] = pc[d] /\ view'[d] = view[d] /\ answer'[d] = answer[d]
  BY DEF IInv, TypeOK
<1> QED
  BY <1>1, <1>2, <1>3, HeldKeeps

\* What the caller may be told.
LEMMA TellMaps ==
    ASSUME IInv, NEW c \in Call, pc[c] \notin {"idle", "done"},
           UNCHANGED <<db, invited, asked, link, durable>>,
           NEW a \in Promise!Answers, answer' = [answer EXCEPT ![c] = a],
           a = "voted" => c \in took,
           a \in {"refused", "busy"} => c \notin took,
           a = "refused" => \A b \in asked[c] : ~ Promise!MayVote(b)
    PROVE  Mapped
<1>1. asked[c] # {} /\ answer[c] = "none"
  BY DEF IInv, AnswersFit
<1>2. Promise!Tell(c, a)
  BY <1>1 DEF Promise!Tell, durable
<1> QED
  BY <1>2 DEF Mapped, Promise!Next

\* The checks of decide, on the view of a call that holds the lock, are those of the promise.
LEMMA AcceptsMeans ==
    ASSUME IInv, NEW c \in Call, c \in Working, NEW b \in asked[c]
    PROVE  Accepts(c, b) <=> Promise!MayVote(b)
<1>1. Seen(c) = BallotsOf(took)
  BY DEF IInv, ViewCurrent
<1>2. open => pending = invited \ UNION {{v.row, v.by} : v \in BallotsOf(took)}
  BY DEF IInv, RowsFollowVotes, Spent
<1>3. Promise!BallotsOf(took) = BallotsOf(took)
  BY DEF Promise!BallotsOf, BallotsOf
<1>4. open => (b.row \in pending <=>
                  b.row \in invited /\ \A v \in BallotsOf(took) : b.row # v.row /\ b.row # v.by)
  BY <1>2
<1> QED
  BY <1>1, <1>3, <1>4 DEF Accepts, Promise!MayVote

LEMMA RefuseKeeps ==
    ASSUME IInv, NEW c \in Call, Refuse(c)
    PROVE  IInv' /\ Mapped
<1>1. /\ pc[c] = "locked" /\ pc' = [pc EXCEPT ![c] = "done"]
      /\ \E b \in asked[c] : ~ Accepts(c, b)
      /\ view' = [view EXCEPT ![c] = {}] /\ decides' = decides \ {c} /\ holder' = holder \ {c}
      /\ answer' = [answer EXCEPT ![c] = "refused"]
      /\ UNCHANGED <<db, invited, asked, link, durable, tries>>
  BY DEF Refuse, EndTransaction, GoTo, Answer
<1>2. "refused" \in Promise!Answers /\ tries' \in [Call -> 0..Attempts]
  BY <1>1 DEF IInv, TypeOK, Promise!Answers
<1>3. IInv'
  BY <1>1, <1>2, EndKeeps
<1>4. c \notin took /\ c \in Working
  BY <1>1 DEF IInv, AnswersFit, Working
<1>5. \A b \in asked[c] : ~ Promise!MayVote(b)
  <2>1. PICK b \in Ballot : asked[c] = {b}
    BY <1>1 DEF IInv, AnswersFit
  <2>2. ~ Accepts(c, b)
    BY <2>1, <1>1
  <2> QED
    BY <2>1, <2>2, <1>4, AcceptsMeans
<1>6. Mapped
  BY <1>1, <1>2, <1>4, <1>5, TellMaps
<1> QED
  BY <1>3, <1>6

LEMMA FailKeeps ==
    ASSUME IInv, NEW c \in Call, Fail(c)
    PROVE  IInv' /\ Mapped
<1>1. /\ pc[c] \in {"ready", "locked", "written", "committed"} /\ pc' = [pc EXCEPT ![c] = "done"]
      /\ view' = [view EXCEPT ![c] = {}] /\ decides' = decides \ {c} /\ holder' = holder \ {c}
      /\ answer' = [answer EXCEPT ![c] = "failed"]
      /\ UNCHANGED <<db, invited, asked, link, durable, tries>>
  BY DEF Fail, EndTransaction, GoTo, Answer, InAttempt
<1>2. "failed" \in Promise!Answers /\ tries' \in [Call -> 0..Attempts]
  BY <1>1 DEF IInv, TypeOK, Promise!Answers
<1> QED
  BY <1>1, <1>2, EndKeeps, TellMaps

LEMMA CrashKeeps ==
    ASSUME IInv, NEW c \in Call, Crash(c)
    PROVE  IInv' /\ Mapped
<1>1. /\ pc[c] \notin {"idle", "done"} /\ pc' = [pc EXCEPT ![c] = "done"]
      /\ view' = [view EXCEPT ![c] = {}] /\ decides' = decides \ {c} /\ holder' = holder \ {c}
      /\ answer' = [answer EXCEPT ![c] = "lost"]
      /\ UNCHANGED <<db, invited, asked, link, durable, tries>>
  BY DEF Crash, EndTransaction, GoTo, Answer
<1>2. "lost" \in Promise!Answers /\ tries' \in [Call -> 0..Attempts]
  BY <1>1 DEF IInv, TypeOK, Promise!Answers
<1> QED
  BY <1>1, <1>2, EndKeeps, TellMaps

LEMMA ReplyKeeps ==
    ASSUME IInv, NEW c \in Call, Reply(c)
    PROVE  IInv' /\ Mapped
<1>1. /\ pc[c] = "committed" /\ pc' = [pc EXCEPT ![c] = "done"]
      /\ answer' = [answer EXCEPT ![c] = "voted"]
      /\ UNCHANGED <<db, invited, asked, link, durable, holder, view, decides, tries>>
  BY DEF Reply, GoTo, Answer
<1>2. "voted" \in Promise!Answers /\ c \in took
  BY <1>1 DEF IInv, AnswersFit, Promise!Answers
<1>3. TypeOK'
  BY <1>1 DEF IInv, TypeOK, durable
<1>4. c \notin holder /\ c \notin decides
  BY <1>1, HolderWorks DEF IInv, WrittenIsRight
<1>5. pc'[c] = "done"
  BY <1>1 DEF IInv, TypeOK
<1>6. \A d \in Call : d # c => pc'[d] = pc[d] /\ answer'[d] = answer[d]
  BY <1>1 DEF IInv, TypeOK
<1>7. IInv'
  BY <1>1, <1>3, <1>4, <1>5, <1>6, HeldKeeps
<1>8. Mapped
  BY <1>1, <1>2, TellMaps
<1> QED
  BY <1>7, <1>8

LEMMA DeadlockKeeps ==
    ASSUME IInv, NEW c \in Call, Deadlock(c)
    PROVE  IInv' /\ Mapped
<1>1. /\ pc[c] \in {"ready", "locked", "written"}
      /\ tries' = [tries EXCEPT ![c] = tries[c] + 1]
      /\ decides' = decides \ {c} /\ holder' = holder \ {c}
      /\ UNCHANGED <<db, invited, asked, link, durable>>
  BY DEF Deadlock, InAttempt
<1>2. c \notin took /\ answer[c] = "none" /\ tries[c] < Attempts
  BY <1>1 DEF IInv, AnswersFit
<1>3. /\ tries' \in [Call -> 0..Attempts] /\ tries'[c] = tries[c] + 1 /\ tries[c] \in Nat
      /\ \A d \in Call : d # c => tries'[d] = tries[d]
  BY <1>1, <1>2, VoteLockAssumption DEF IInv, TypeOK
<1>4. CASE tries[c] + 1 = Attempts
  <2>1. /\ pc' = [pc EXCEPT ![c] = "done"] /\ answer' = [answer EXCEPT ![c] = "busy"]
        /\ view' = [view EXCEPT ![c] = {}]
    BY <1>4 DEF Deadlock, GoTo, Answer
  <2>2. "busy" \in Promise!Answers
    BY DEF Promise!Answers
  <2> QED
    BY <1>1, <1>2, <1>3, <2>1, <2>2, EndKeeps, TellMaps
<1>5. CASE tries[c] + 1 # Attempts
  <2>1. /\ pc' = [pc EXCEPT ![c] = IF c \in link THEN "arrived" ELSE "ready"] /\ answer' = answer
        /\ view' = [view EXCEPT ![c] = IF c \in link THEN {BallotsOf(took)} ELSE {}]
    BY <1>5 DEF Deadlock, GoTo
  <2>2. BallotsOf(took) \subseteq Ballot
    BY DEF BallotsOf, IInv, TypeOK
  <2>3. TypeOK'
    BY <1>1, <1>3, <2>1, <2>2 DEF IInv, TypeOK, durable
  <2>4. /\ pc'[c] = IF c \in link THEN "arrived" ELSE "ready"
        /\ view'[c] = IF c \in link THEN {BallotsOf(took)} ELSE {}
        /\ c \notin holder' /\ c \notin decides'
    BY <1>1, <2>1 DEF IInv, TypeOK
  <2>5. \A d \in Call : d # c => pc'[d] = pc[d] /\ view'[d] = view[d]
    BY <2>1 DEF IInv, TypeOK
  <2>6. pc'[c] \in {"arrived", "ready"} /\ (pc'[c] = "ready" => view'[c] = {})
    BY <2>4
  <2>7. tries'[c] < Attempts
    BY <1>2, <1>3, <1>5, VoteLockAssumption
  <2>8. IInv'
    BY <1>1, <1>2, <1>3, <2>1, <2>3, <2>4, <2>5, <2>6, <2>7, HeldKeeps
  <2>9. Mapped
    BY <1>1, <2>1 DEF Mapped, Promise!promise, durable
  <2> QED
    BY <2>8, <2>9
<1> QED
  BY <1>4, <1>5

\* A commit is the moment the vote takes effect.
LEMMA CommitKeeps ==
    ASSUME IInv, NEW c \in Call, Commit(c)
    PROVE  IInv' /\ Mapped
<1>1. /\ pc[c] = "written" /\ pc' = [pc EXCEPT ![c] = "committed"]
      /\ took' = took \cup {c}
      /\ open' = (open /\ c \notin decides)
      /\ pending' = IF c \in decides THEN {} ELSE pending \ UNION {Spent(b) : b \in asked[c]}
      /\ view' = [view EXCEPT ![c] = {}] /\ decides' = decides \ {c} /\ holder' = holder \ {c}
      /\ UNCHANGED <<db, invited, asked, link, tries, answer>>
  BY DEF Commit, EndTransaction, GoTo
<1>2. PICK b \in Ballot : asked[c] = {b}
  BY <1>1 DEF IInv, AnswersFit
<1>3. c \notin took /\ answer[c] = "none" /\ tries[c] < Attempts
  BY <1>1 DEF IInv, AnswersFit
<1>4. holder = {c}
  BY <1>1, HolderWorks
<1>5. c \in Working
  BY <1>1 DEF Working
<1>6. Accepts(c, b) /\ (c \in decides <=> BallotsOf(took) \cup {b} \in Deciding)
  BY <1>1, <1>2 DEF IInv, WrittenIsRight
<1>7. Seen(c) = BallotsOf(took)
  BY <1>5 DEF IInv, ViewCurrent
<1>8. open /\ b.row \in pending
  BY <1>6 DEF Accepts
<1>9. BallotsOf(took)' = BallotsOf(took) \cup {b}
  BY <1>1, <1>2 DEF BallotsOf
<1>10. /\ pc'[c] = "committed" /\ view'[c] = {} /\ holder' = {}
       /\ \A d \in Call : d # c => pc'[d] = pc[d] /\ view'[d] = view[d]
  BY <1>1, <1>4 DEF IInv, TypeOK
<1>11. \A d \in Call : d \notin Working'
  <2>1. \A d \in Call : d \in Working => d = c
    BY <1>5 DEF IInv, LockHeld
  <2> QED
    BY <2>1, <1>10 DEF Working
<1>12. TypeOK'
  BY <1>1 DEF IInv, TypeOK
<1>13. LockHeld'
  BY <1>10, <1>11 DEF LockHeld
<1>14. ViewCurrent'
  BY <1>10, <1>11 DEF IInv, ViewCurrent
<1>15. RowsFollowVotes'
  <2>1. open' <=> BallotsOf(took)' \notin Deciding
    BY <1>1, <1>6, <1>8, <1>9
  <2>2. ASSUME open'
        PROVE  pending' = invited' \ UNION {Spent(v) : v \in BallotsOf(took)'}
    <3>1. c \notin decides
      BY <2>2, <1>1
    <3>2. pending' = pending \ Spent(b)
      BY <3>1, <1>1, <1>2
    <3>3. pending = invited \ UNION {Spent(v) : v \in BallotsOf(took)}
      BY <1>8 DEF IInv, RowsFollowVotes
    <3>4. UNION {Spent(v) : v \in BallotsOf(took) \cup {b}} =
             Spent(b) \cup UNION {Spent(v) : v \in BallotsOf(took)}
      OBVIOUS
    <3> QED
      BY <3>2, <3>3, <3>4, <1>1, <1>9
  <2> QED
    BY <2>1, <2>2 DEF RowsFollowVotes, Spent
<1>16. WrittenIsRight'
  <2>1. \A d \in Call : pc'[d] # "written"
    BY <1>11 DEF Working
  <2>2. \A d \in Call : d \notin decides'
    <3>1. \A d \in Call : d \in decides => pc[d] = "written"
      BY DEF IInv, WrittenIsRight
    <3>2. \A d \in Call : pc[d] = "written" => d = c
      BY <1>5 DEF IInv, LockHeld, Working
    <3> QED
      BY <3>1, <3>2, <1>1
  <2> QED
    BY <2>1, <2>2 DEF WrittenIsRight
<1>17. AnswersFit'
  <2>1. \A d \in Call : d \in took' <=> d \in took \/ d = c
    BY <1>1
  <2> QED
    BY <2>1, <1>1, <1>3, <1>10 DEF IInv, AnswersFit
<1>18. Mapped
  <2>1. Promise!MayVote(b)
    BY <1>2, <1>5, <1>6, AcceptsMeans
  <2>2. open' = (Promise!BallotsOf(took') \notin Deciding)
    <3>1. open' <=> BallotsOf(took)' \notin Deciding
      BY <1>1, <1>6, <1>8, <1>9
    <3>2. BallotsOf(took)' = Promise!BallotsOf(took')
      BY <1>1 DEF BallotsOf, Promise!BallotsOf
    <3>3. open' \in BOOLEAN
      BY <1>1
    <3> QED
      BY <3>1, <3>2, <3>3
  <2>3. Promise!TakeEffect(c)
    BY <2>1, <2>2, <1>1, <1>2, <1>3 DEF Promise!TakeEffect
  <2> QED
    BY <2>3 DEF Mapped, Promise!Next
<1> QED
  BY <1>12, <1>13, <1>14, <1>15, <1>16, <1>17, <1>18 DEF IInv

LEMMA NextKeeps ==
    ASSUME IInv, [Next]_vars
    PROVE  IInv' /\ Mapped
<1>1. ASSUME NEW c \in Call, Arrive(c) \/ Proceed(c) \/ Deadlock(c) \/ Fail(c) \/ Crash(c)
      PROVE  IInv' /\ Mapped
  BY <1>1, ArriveKeeps, RollBackKeeps, LockKeeps, RefuseKeeps, WriteKeeps, CommitKeeps, ReplyKeeps,
     DeadlockKeeps, FailKeeps, CrashKeeps DEF Proceed
<1>2. CASE UNCHANGED vars
  <2>1. UNCHANGED <<db, invited, asked, link, durable, holder, pc, view, decides, tries, answer>>
    BY <1>2 DEF vars
  <2>2. pending' = pending /\ took' = took /\ open' = open
    BY <2>1 DEF durable
  <2>3. TypeOK' /\ LockHeld' /\ AnswersFit'
    BY <2>1, <2>2 DEF IInv, TypeOK, LockHeld, Working, AnswersFit
  <2>4. RowsFollowVotes'
    BY <2>1, <2>2 DEF IInv, RowsFollowVotes, BallotsOf, Spent
  <2>5. ViewCurrent'
    BY <2>1, <2>2 DEF IInv, ViewCurrent, Working, Seen, BallotsOf
  <2>6. WrittenIsRight'
    BY <2>1, <2>2 DEF IInv, WrittenIsRight, Accepts, Seen, BallotsOf
  <2>7. Mapped
    BY <2>1, <2>2 DEF Mapped, Promise!promise
  <2> QED
    BY <2>3, <2>4, <2>5, <2>6, <2>7 DEF IInv
<1> QED
  BY <1>1, <1>2 DEF Next

-----------------------------------------------------------------------------
(* The theorems. *)

\* Who holds the lock sees every committed vote, and the rows are what the votes made of them.
THEOREM Invariant == Spec => []IInv
<1>1. IInv /\ [Next]_vars => IInv'
  BY NextKeeps
<1>2. Init => IInv
  BY InitKeeps
<1> QED
  BY <1>1, <1>2, PTL DEF Spec

\* Type correctness; no call is tried more than Attempts times.
THEOREM TypeCorrect == Spec => []TypeOK
<1>1. IInv => TypeOK
  BY DEF IInv
<1> QED
  BY Invariant, <1>1, PTL

\* Racing votes are votes one after the other, and callers are told the truth: what decide, redeem_link
\* and commit_with_retry do implements OneVote.
THEOREM Atomic == Spec => VotesAreAtomic
<1>1. Init => Promise!Init
  BY InitKeeps
<1>2. IInv /\ [Next]_vars => [Promise!Next]_Promise!promise
  BY NextKeeps DEF Mapped
<1> QED
  BY <1>1, <1>2, Invariant, PTL DEF Spec, VotesAreAtomic, Promise!Spec
=============================================================================
