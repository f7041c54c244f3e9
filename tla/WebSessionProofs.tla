--------------------------- MODULE WebSessionProofs ----------------------------
(******************************************************************************)
(* Proofs about WebSession, for any number of events and incarnations, with   *)
(* every fault the model has: messages are answered in order, what was ended  *)
(* shows nothing and begins nothing more, and turns and fillers are numbered  *)
(* once each, so that the types hold. When no connection drops an iteration,  *)
(* the turns of a session run one at a time; without faults, iterations show  *)
(* events of their own turn only, all its fillers before its answer.          *)
(******************************************************************************)
EXTENDS WebSession, TLAPS, FiniteSetTheorems

(* An iteration has the lock or waits for it; it has it.                       *)
Holding == Points \ {"idle", "greeted", "lock", "over"}
InLine  == Holding \cup {"lock"}

(* What the order of the answers needs of the types.                           *)
WebTypes ==
    /\ registered \in Starts \cup {None}
    /\ line \in [Starts -> Seq(Events)]
    /\ turnN \in [Starts -> Nat]
    /\ at \in [Events -> Points]
    /\ mine \in [Events -> Starts \cup {None}]
    /\ turn \in [Events -> Nat]
    /\ task = [c \in Events |-> task[c]]
    /\ out = [c \in Events |-> out[c]]

(* The lock of an incarnation serves in the order in which it was asked for,   *)
(* and that is the order of the turns.                                         *)
LineInv ==
    /\ \A c \in Events :
         /\ at[c] \in InLine => mine[c] \in Starts /\ \E i \in 1..Len(line[mine[c]]) : line[mine[c]][i] = c
         /\ at[c] \in Holding => line[mine[c]][1] = c
    /\ \A s \in Starts : \A i \in 1..Len(line[s]) :
         /\ at[line[s][i]] \in InLine /\ mine[line[s][i]] = s
         /\ \A j \in 1..Len(line[s]) : i < j =>
              /\ line[s][i] # line[s][j]
              /\ Kind[line[s][i]] = "message" /\ Kind[line[s][j]] = "message" =>
                   turn[line[s][i]] < turn[line[s][j]]

(* What an iteration has before it has the lock, and the number of its turn.   *)
TurnInv ==
    /\ \A c \in Events :
         /\ at[c] = "idle" => mine[c] = None
         /\ Kind[c] = "start" => mine[c] \in {c, None}
         /\ at[c] = "greeted" => Kind[c] = "start" /\ mine[c] = c
         /\ Kind[c] = "message" /\ mine[c] # None => turn[c] \in 1..turnN[mine[c]]
         /\ Kind[c] = "message" /\ at[c] \in {"idle", "lock"} => out[c] = <<>>

(* A turn that has the lock, or has shown anything, has none before it.        *)
Served ==
    \A c, d \in Messages :
        mine[c] = mine[d] /\ mine[c] # None /\ turn[c] < turn[d] /\ (at[d] \in Holding \/ out[d] # <<>>)
          => at[c] = "over"

(* The order in which the messages of a session are served.                    *)
OrderInv == WebTypes /\ LineInv /\ TurnInv /\ Served

(* At the start nobody has asked for a lock.                                   *)
LEMMA OrderInit == Init => OrderInv
<1> SUFFICES ASSUME Init PROVE OrderInv
  OBVIOUS
<1>1. WebTypes
  BY DEF Init, WebTypes, Points
<1>2. \A c \in Events : at[c] = "idle" /\ mine[c] = None /\ out[c] = <<>>
  BY DEF Init
<1>3. \A s \in Starts : Len(line[s]) = 0
  BY DEF Init
<1>4. LineInv
  BY <1>2, <1>3 DEF LineInv, InLine, Holding
<1>5. TurnInv
  BY <1>2 DEF TurnInv
<1>6. Served
  BY <1>2 DEF Served, Messages, Holding
<1> QED  BY <1>1, <1>4, <1>5, <1>6 DEF OrderInv

(* Who is first in the line comes after all earlier turns.                     *)
LEMMA FirstIsNext ==
  ASSUME OrderInv, NEW c \in Messages, NEW d \in Messages, at[c] \in InLine, line[mine[c]][1] = c,
         mine[d] = mine[c], turn[d] < turn[c]
  PROVE  at[d] = "over"
<1> SUFFICES ASSUME at[d] # "over" PROVE FALSE
  OBVIOUS
<1>1. mine[c] \in Starts /\ mine[d] # None /\ c \in Events /\ d \in Events
  BY WebAssumption DEF OrderInv, LineInv, Messages, Starts
<1>2. at[d] \in InLine
  BY <1>1 DEF OrderInv, WebTypes, TurnInv, InLine, Holding, Points, Messages
<1>3. PICK i \in 1..Len(line[mine[c]]) : line[mine[c]][i] = d
  BY <1>1, <1>2 DEF OrderInv, LineInv
<1>4. turn[c] \in Nat /\ turn[d] \in Nat /\ Len(line[mine[c]]) \in Nat
  BY <1>1 DEF OrderInv, WebTypes
<1>5. i # 1
  BY <1>3, <1>4
<1>6. 1 \in 1..Len(line[mine[c]]) /\ 1 < i
  BY <1>4, <1>5
<1>7. turn[c] < turn[d]
  BY <1>1, <1>3, <1>6 DEF OrderInv, LineInv, Messages
<1> QED  BY <1>4, <1>7

(* The holder goes on,                                                         *)
LEMMA Moving ==
  ASSUME OrderInv, NEW c \in Events, at[c] \in InLine, line[mine[c]][1] = c, NEW l \in Holding, Go(c, l),
         UNCHANGED <<registered, line, turnN, mine, turn>>,
         task' = [d \in Events |-> task'[d]], out' = [d \in Events |-> out'[d]],
         \A d \in Events \ {c} : out'[d] = out[d]
  PROVE  OrderInv'
<1>1. WebTypes'
  BY DEF OrderInv, WebTypes, Go, Holding
<1>2. at'[c] = l /\ \A d \in Events \ {c} : at'[d] = at[d]
  BY DEF OrderInv, WebTypes, Go
<1>3. LineInv'
  <2>1. \A d \in Events : at'[d] \in InLine <=> at[d] \in InLine
    BY <1>2 DEF InLine
  <2>2. \A d \in Events : at'[d] \in Holding => at[d] \in Holding \/ d = c
    BY <1>2
  <2>3. \A s \in Starts : \A i \in 1..Len(line[s]) : line[s][i] \in Events
    BY DEF OrderInv, WebTypes
  <2> QED  BY <2>1, <2>2, <2>3 DEF OrderInv, LineInv
<1>4. TurnInv'
  BY <1>2 DEF OrderInv, TurnInv, Holding, InLine
<1>5. Served'
  <2> SUFFICES ASSUME NEW x \in Messages, NEW y \in Messages, mine[x] = mine[y], mine[x] # None, turn[x] < turn[y],
                      at'[y] \in Holding \/ out'[y] # <<>>
               PROVE  at'[x] = "over"
    BY DEF Served
  <2>1. x \in Events /\ y \in Events
    BY DEF Messages
  <2>2. at[x] = "over"
    <3>1. CASE y = c
      BY <3>1, FirstIsNext
    <3>2. CASE y # c
      BY <1>2, <2>1, <3>2 DEF OrderInv, Served
    <3> QED  BY <3>1, <3>2
  <2>3. x # c
    BY <2>2 DEF InLine, Holding
  <2> QED  BY <1>2, <2>1, <2>2, <2>3
<1> QED  BY <1>1, <1>3, <1>4, <1>5 DEF OrderInv

(* or leaves, as does who has not asked for the lock yet.                      *)
LEMMA Leaving ==
  ASSUME OrderInv, NEW c \in Events, at[c] \in InLine \cup {"greeted"}, at[c] \in InLine => line[mine[c]][1] = c,
         Leave(c), UNCHANGED <<registered, turnN, mine, turn>>,
         task' = [d \in Events |-> task'[d]], out' = [d \in Events |-> out'[d]],
         \A d \in Events \ {c} : out'[d] = out[d], at[c] = "lock" => out'[c] = out[c]
  PROVE  OrderInv'
<1> DEFINE s == mine[c]
<1>0. s \in Starts /\ \A z \in Starts : /\ line[z] \in Seq(Events) /\ Len(line[z]) \in Nat
                                        /\ \A i \in 1..Len(line[z]) : line[z][i] \in Events
  BY WebAssumption DEF OrderInv, LineInv, TurnInv, WebTypes, Starts
<1>1. at'[c] = "over" /\ \A d \in Events \ {c} : at'[d] = at[d]
  BY DEF OrderInv, WebTypes, Go, Leave
<1>2. CASE at[c] = "greeted"
  <2>1. ~(line[s] # <<>> /\ Head(line[s]) = c)
    <3> SUFFICES ASSUME line[s] # <<>>, Head(line[s]) = c PROVE FALSE
      OBVIOUS
    <3>1. 1 \in 1..Len(line[s]) /\ line[s][1] = c
      BY <1>0
    <3> QED  BY <1>0, <1>2, <3>1 DEF OrderInv, LineInv, InLine, Holding
  <2>2. line' = line
    BY <1>0, <2>1 DEF Leave, OrderInv, WebTypes
  <2>3. Kind[c] = "start"
    BY <1>2 DEF OrderInv, TurnInv
  <2>4. \A d \in Events : at'[d] \in InLine <=> at[d] \in InLine
    BY <1>1, <1>2 DEF InLine, Holding
  <2>5. \A d \in Events : at'[d] \in Holding <=> at[d] \in Holding
    BY <1>1, <1>2 DEF Holding
  <2>6. LineInv'
    BY <1>0, <2>2, <2>4, <2>5 DEF OrderInv, LineInv
  <2>7. TurnInv'
    BY <1>1, <2>3 DEF OrderInv, TurnInv
  <2>8. Served'
    BY <1>1, <2>3 DEF OrderInv, Served, Messages, Holding
  <2>9. WebTypes'
    BY <2>2, <1>1 DEF OrderInv, WebTypes, Leave, Go, Points
  <2> QED  BY <2>6, <2>7, <2>8, <2>9 DEF OrderInv
<1>3. CASE at[c] \in InLine
  <2>1. /\ line[s][1] = c /\ line[s] # <<>> /\ Head(line[s]) = c /\ Len(line[s]) >= 1
    <3>1. \E i \in 1..Len(line[s]) : line[s][i] = c
      BY <1>3 DEF OrderInv, LineInv
    <3> QED  BY <1>0, <1>3, <3>1
  <2>2. /\ line' = [line EXCEPT ![s] = Tail(line[s])]
        /\ line' \in [Starts -> Seq(Events)]
        /\ Len(line'[s]) = Len(line[s]) - 1
        /\ \A i \in 1..(Len(line[s]) - 1) : line'[s][i] = line[s][i + 1]
        /\ \A z \in Starts \ {s} : line'[z] = line[z]
    BY <1>0, <2>1 DEF Leave, OrderInv, WebTypes
  <2>3. WebTypes'
    BY <2>2, <1>1 DEF OrderInv, WebTypes, Leave, Go, Points
  <2>4. ASSUME NEW z \in Starts, NEW i \in 1..Len(line'[z])
        PROVE  \E k \in 1..Len(line[z]) : /\ line'[z][i] = line[z][k] /\ line[z][k] # c
                                          /\ k = IF z = s THEN i + 1 ELSE i
    <3>1. CASE z = s
      <4>1. i + 1 \in 1..Len(line[s]) /\ 1 < i + 1 /\ 1 \in 1..Len(line[s]) /\ line'[s][i] = line[s][i + 1]
        BY <1>0, <2>1, <2>2, <3>1
      <4>2. line[s][1] # line[s][i + 1]
        <5>1. \A a \in Starts : \A k \in 1..Len(line[a]) : \A j \in 1..Len(line[a]) :
                 k < j => line[a][k] # line[a][j]
          BY DEF OrderInv, LineInv
        <5> QED  BY <1>0, <4>1, <5>1
      <4> QED  BY <2>1, <3>1, <4>1, <4>2
    <3>2. CASE z # s
      BY <1>0, <2>2, <2>4, <3>2 DEF OrderInv, LineInv
    <3> QED  BY <3>1, <3>2
  <2>5. LineInv'
    <3>1. ASSUME NEW d \in Events, at'[d] \in InLine
          PROVE  mine[d] \in Starts /\ \E i \in 1..Len(line'[mine[d]]) : line'[mine[d]][i] = d
      <4>1. d # c /\ at[d] \in InLine
        BY <1>1, <3>1 DEF InLine, Holding
      <4>2. mine[d] \in Starts
        BY <4>1 DEF OrderInv, LineInv
      <4>3. PICK i \in 1..Len(line[mine[d]]) : line[mine[d]][i] = d
        BY <4>1 DEF OrderInv, LineInv
      <4>4. CASE mine[d] = s
        <5>1. i # 1 /\ i \in Nat
          BY <2>1, <4>1, <4>3, <4>4
        <5>2. i - 1 \in 1..(Len(line[s]) - 1)
          BY <1>0, <4>4, <5>1
        <5>3. line'[s][i - 1] = line[s][(i - 1) + 1] /\ (i - 1) + 1 = i
          BY <2>2, <5>1, <5>2
        <5> QED  BY <2>2, <4>2, <4>3, <4>4, <5>2, <5>3
      <4>5. CASE mine[d] # s
        BY <2>2, <4>2, <4>3, <4>5
      <4> QED  BY <4>4, <4>5
    <3>2. ASSUME NEW d \in Events, at'[d] \in Holding PROVE line'[mine[d]][1] = d
      <4>1. d # c /\ at[d] \in Holding
        BY <1>1, <3>2 DEF Holding
      <4>2. mine[d] \in Starts /\ line[mine[d]][1] = d
        BY <4>1 DEF OrderInv, LineInv, InLine
      <4> QED  BY <2>1, <2>2, <4>1, <4>2
    <3>3. ASSUME NEW z \in Starts, NEW i \in 1..Len(line'[z])
          PROVE  at'[line'[z][i]] \in InLine /\ mine[line'[z][i]] = z
      <4>1. PICK k \in 1..Len(line[z]) : line'[z][i] = line[z][k] /\ line[z][k] # c
        BY <2>4
      <4> QED  BY <1>0, <1>1, <4>1 DEF OrderInv, LineInv
    <3>4. ASSUME NEW z \in Starts, NEW i \in 1..Len(line'[z]), NEW j \in 1..Len(line'[z]), i < j
          PROVE  /\ line'[z][i] # line'[z][j]
                 /\ Kind[line'[z][i]] = "message" /\ Kind[line'[z][j]] = "message" =>
                      turn[line'[z][i]] < turn[line'[z][j]]
      <4>1. PICK k \in 1..Len(line[z]) : line'[z][i] = line[z][k] /\ k = IF z = s THEN i + 1 ELSE i
        BY <2>4
      <4>2. PICK m \in 1..Len(line[z]) : line'[z][j] = line[z][m] /\ m = IF z = s THEN j + 1 ELSE j
        BY <2>4
      <4>3. k < m
        BY <3>4, <4>1, <4>2
      <4> QED  BY <4>1, <4>2, <4>3 DEF OrderInv, LineInv
    <3> QED  BY <3>1, <3>2, <3>3, <3>4 DEF LineInv
  <2>6. TurnInv'
    BY <1>1 DEF OrderInv, TurnInv
  <2>7. Served'
    <3> SUFFICES ASSUME NEW x \in Messages, NEW y \in Messages, mine[x] = mine[y], mine[x] # None, turn[x] < turn[y],
                        at'[y] \in Holding \/ out'[y] # <<>>
                 PROVE  at'[x] = "over"
      BY DEF Served
    <3>1. x \in Events /\ y \in Events
      BY DEF Messages
    <3>2. at[x] = "over"
      <4>1. CASE y = c
        BY <1>3, <2>1, <4>1, FirstIsNext
      <4>2. CASE y # c
        BY <1>1, <3>1, <4>2 DEF OrderInv, Served
      <4> QED  BY <4>1, <4>2
    <3> QED  BY <1>1, <3>1, <3>2
  <2> QED  BY <2>3, <2>5, <2>6, <2>7 DEF OrderInv
<1> QED  BY <1>2, <1>3

(* The lock is asked for: by a message, with the next number, or by a start.   *)
LEMMA Joining ==
  ASSUME OrderInv, NEW c \in Events, NEW s \in Starts, at[c] \in {"idle", "greeted"}, Go(c, "lock"),
         line' = [line EXCEPT ![s] = Append(@, c)], mine' = [mine EXCEPT ![c] = s],
         Kind[c] = "start" => s = c /\ UNCHANGED <<turnN, turn>>,
         Kind[c] = "message" => /\ at[c] = "idle"
                                /\ turnN' = [turnN EXCEPT ![s] = @ + 1] /\ turn' = [turn EXCEPT ![c] = turnN[s] + 1],
         Kind[c] \in {"start", "message"}, Kind[c] = "message" => out[c] = <<>>,
         UNCHANGED <<registered, task, out>>
  PROVE  OrderInv'
<1>0. \A z \in Starts : /\ line[z] \in Seq(Events) /\ Len(line[z]) \in Nat
                        /\ \A i \in 1..Len(line[z]) : line[z][i] \in Events
  BY DEF OrderInv, WebTypes
<1>1. at'[c] = "lock" /\ \A d \in Events \ {c} : at'[d] = at[d] /\ mine'[d] = mine[d] /\ turn'[d] = turn[d]
  BY DEF OrderInv, WebTypes, Go
<1>2. mine'[c] = s /\ \A d \in Events \ {c} : mine'[d] = mine[d]
  BY DEF OrderInv, WebTypes
<1>3. /\ line'[s] = Append(line[s], c) /\ Len(line'[s]) = Len(line[s]) + 1
      /\ line'[s][Len(line[s]) + 1] = c
      /\ \A i \in 1..Len(line[s]) : line'[s][i] = line[s][i]
      /\ \A z \in Starts \ {s} : line'[z] = line[z]
      /\ line' \in [Starts -> Seq(Events)]
  BY <1>0 DEF OrderInv, WebTypes
<1>4. \A z \in Starts : \A i \in 1..Len(line[z]) : line[z][i] # c
  BY DEF OrderInv, LineInv, InLine, Holding
<1>5. WebTypes'
  BY <1>3, WebAssumption, SMTT(30) DEF OrderInv, WebTypes, Go, Points, Starts
<1>6. \A d \in Events : turn[d] \in Nat /\ turn'[d] \in Nat
  BY <1>5 DEF OrderInv, WebTypes
<1>7. Kind[c] = "message" => turn'[c] = turnN[s] + 1 /\ turnN[s] \in Nat
  BY DEF OrderInv, WebTypes
<1>8. \A d \in Messages \ {c} : mine[d] = s => turn[d] <= turnN[s]
  BY WebAssumption DEF OrderInv, TurnInv, Messages, Starts, WebTypes
<1>9. LineInv'
  <2>1. ASSUME NEW d \in Events, at'[d] \in InLine
        PROVE  mine'[d] \in Starts /\ \E i \in 1..Len(line'[mine'[d]]) : line'[mine'[d]][i] = d
    <3>1. CASE d = c
      <4>1. Len(line[s]) + 1 \in 1..Len(line'[s])
        BY <1>0, <1>3
      <4> QED  BY <1>2, <1>3, <3>1, <4>1
    <3>2. CASE d # c
      <4>1. mine[d] \in Starts /\ \E i \in 1..Len(line[mine[d]]) : line[mine[d]][i] = d
        BY <1>1, <2>1, <3>2 DEF OrderInv, LineInv
      <4>2. PICK i \in 1..Len(line[mine[d]]) : line[mine[d]][i] = d
        BY <4>1
      <4>3. i \in 1..Len(line'[mine[d]]) /\ line'[mine[d]][i] = d
        BY <1>0, <1>3, <4>1, <4>2
      <4> QED  BY <1>1, <3>2, <4>1, <4>3
    <3> QED  BY <3>1, <3>2
  <2>2. ASSUME NEW d \in Events, at'[d] \in Holding PROVE line'[mine'[d]][1] = d
    <3>1. d # c /\ at[d] \in Holding
      BY <1>1, <2>2 DEF Holding
    <3>2. mine[d] \in Starts /\ line[mine[d]][1] = d /\ \E i \in 1..Len(line[mine[d]]) : line[mine[d]][i] = d
      BY <3>1 DEF OrderInv, LineInv, InLine
    <3>3. 1 \in 1..Len(line[mine[d]])
      BY <1>0, <3>2
    <3> QED  BY <1>1, <1>3, <3>1, <3>2, <3>3
  <2>3. ASSUME NEW z \in Starts, NEW i \in 1..Len(line'[z])
        PROVE  \/ i \in 1..Len(line[z]) /\ line'[z][i] = line[z][i] /\ line[z][i] # c
               \/ z = s /\ i = Len(line[s]) + 1 /\ line'[z][i] = c
    BY <1>0, <1>3, <1>4, <2>3
  <2>4. ASSUME NEW z \in Starts, NEW i \in 1..Len(line'[z])
        PROVE  at'[line'[z][i]] \in InLine /\ mine'[line'[z][i]] = z
    BY <1>0, <1>1, <1>2, <2>3 DEF OrderInv, LineInv, InLine
  <2>5. ASSUME NEW z \in Starts, NEW i \in 1..Len(line'[z]), NEW j \in 1..Len(line'[z]), i < j
        PROVE  /\ line'[z][i] # line'[z][j]
               /\ Kind[line'[z][i]] = "message" /\ Kind[line'[z][j]] = "message" =>
                    turn'[line'[z][i]] < turn'[line'[z][j]]
    <3>1. i \in 1..Len(line[z]) /\ line'[z][i] = line[z][i] /\ line[z][i] # c
      BY <1>0, <1>3, <2>3, <2>5
    <3>2. CASE j \in 1..Len(line[z])
      <4>1. line'[z][j] = line[z][j] /\ line[z][j] # c
        BY <1>0, <1>3, <1>4, <3>2
      <4>2. /\ line[z][i] # line[z][j]
            /\ Kind[line[z][i]] = "message" /\ Kind[line[z][j]] = "message" =>
                 turn[line[z][i]] < turn[line[z][j]]
        BY <2>5, <3>1, <3>2 DEF OrderInv, LineInv
      <4>3. line[z][i] \in Events \ {c} /\ line[z][j] \in Events \ {c}
        BY <1>0, <3>1, <3>2, <4>1
      <4> QED  BY <1>1, <3>1, <4>1, <4>2, <4>3
    <3>3. CASE z = s /\ j = Len(line[s]) + 1 /\ line'[z][j] = c
      <4>1. line[s][i] \in Events \ {c} /\ mine[line[s][i]] = s
        BY <1>0, <3>1, <3>3 DEF OrderInv, LineInv
      <4>2. Kind[line[s][i]] = "message" => turn[line[s][i]] <= turnN[s]
        BY <1>8, <4>1 DEF Messages
      <4> QED  BY <1>1, <1>6, <1>7, <3>1, <3>3, <4>1, <4>2
    <3> QED  BY <2>3, <3>2, <3>3
  <2> QED  BY <2>1, <2>2, <2>4, <2>5, SMTT(30) DEF LineInv
<1>10. TurnInv'
  <2>1. ASSUME NEW d \in Events, Kind[d] = "message", mine'[d] # None PROVE turn'[d] \in 1..turnN'[mine'[d]]
    <3>1. CASE d = c
      BY <1>2, <1>7, <2>1, <3>1 DEF OrderInv, WebTypes
    <3>2. CASE d # c
      <4>1. turn[d] \in 1..turnN[mine[d]] /\ mine[d] \in Starts
        BY <1>1, <2>1, <3>2 DEF OrderInv, TurnInv, WebTypes
      <4>2. turnN'[mine[d]] \in Nat /\ turnN[mine[d]] \in Nat /\ turnN'[mine[d]] >= turnN[mine[d]]
        BY <4>1 DEF OrderInv, WebTypes
      <4> QED  BY <1>1, <3>2, <4>1, <4>2
    <3> QED  BY <3>1, <3>2
  <2>2. \A d \in Events : /\ at'[d] = "idle" => mine'[d] = None
                          /\ Kind[d] = "start" => mine'[d] \in {d, None}
                          /\ at'[d] = "greeted" => Kind[d] = "start" /\ mine'[d] = d
                          /\ Kind[d] = "message" /\ at'[d] \in {"idle", "lock"} => out'[d] = <<>>
    BY <1>1, <1>2 DEF OrderInv, TurnInv
  <2> QED  BY <2>1, <2>2 DEF TurnInv
<1>11. Served'
  <2> SUFFICES ASSUME NEW x \in Messages, NEW y \in Messages, mine'[x] = mine'[y], mine'[x] # None,
                      turn'[x] < turn'[y], at'[y] \in Holding \/ out[y] # <<>>
               PROVE  at'[x] = "over"
    BY DEF Served
  <2>1. x \in Events /\ y \in Events /\ Kind[x] = "message" /\ Kind[y] = "message"
    BY DEF Messages
  <2>2. y # c
    BY <1>1, <2>1 DEF Holding
  <2>3. x # c
    <3> SUFFICES ASSUME x = c PROVE FALSE
      OBVIOUS
    <3>1. turn[y] <= turnN[s] /\ turn'[c] = turnN[s] + 1 /\ turnN[s] \in Nat
      BY <1>1, <1>2, <1>7, <1>8, <2>1, <2>2
    <3> QED  BY <1>1, <1>6, <2>1, <2>2, <3>1
  <2> QED  BY <1>1, <2>1, <2>2, <2>3 DEF OrderInv, Served
<1> QED  BY <1>5, <1>9, <1>10, <1>11 DEF OrderInv

(* An event that comes in touches no line, unless it is a message.             *)
LEMMA Opening ==
  ASSUME OrderInv, NEW c \in Events, at[c] = "idle", NEW l \in {"over", "greeted"}, Go(c, l),
         \/ mine' = mine /\ l = "over"
         \/ Kind[c] = "start" /\ mine' = [mine EXCEPT ![c] = c],
         registered' \in Starts \cup {None}, UNCHANGED <<line, turnN, turn, task>>,
         out' = [d \in Events |-> out'[d]], \A d \in Events \ {c} : out'[d] = out[d]
  PROVE  OrderInv'
<1>1. at'[c] = l /\ \A d \in Events \ {c} : at'[d] = at[d]
  BY DEF OrderInv, WebTypes, Go
<1>2. WebTypes'
  BY ZenonT(40) DEF OrderInv, WebTypes, Go, Points, Starts
<1>3. \A d \in Events \ {c} : mine'[d] = mine[d]
  BY DEF OrderInv, WebTypes
<1>4. /\ mine[c] = None
      /\ mine'[c] \in {None, c} /\ (mine'[c] = None \/ Kind[c] = "start")
      /\ l = "greeted" => Kind[c] = "start" /\ mine'[c] = c
  BY DEF OrderInv, WebTypes, TurnInv
<1>5. \A d \in Events : at'[d] \in InLine <=> at[d] \in InLine
  BY <1>1 DEF InLine, Holding
<1>6. \A d \in Events : at'[d] \in Holding <=> at[d] \in Holding
  BY <1>1 DEF Holding
<1>7. LineInv'
  <2>1. ASSUME NEW d \in Events
        PROVE  /\ at'[d] \in InLine => /\ mine'[d] \in Starts
                                       /\ \E i \in 1..Len(line[mine'[d]]) : line[mine'[d]][i] = d
               /\ at'[d] \in Holding => line[mine'[d]][1] = d
    <3>1. CASE d = c
      BY <1>1, <3>1 DEF InLine, Holding
    <3>2. CASE d # c
      BY <1>3, <1>5, <1>6, <3>2 DEF OrderInv, LineInv
    <3> QED  BY <3>1, <3>2
  <2>2. ASSUME NEW s \in Starts, NEW i \in 1..Len(line[s])
        PROVE  at'[line[s][i]] \in InLine /\ mine'[line[s][i]] = s
    <3>1. line[s][i] \in Events /\ at[line[s][i]] \in InLine /\ mine[line[s][i]] = s
      BY DEF OrderInv, LineInv, WebTypes
    <3>2. line[s][i] # c
      BY <3>1 DEF InLine, Holding
    <3> QED  BY <1>3, <1>5, <3>1, <3>2
  <2> QED  BY <2>1, <2>2 DEF OrderInv, LineInv
<1>8. TurnInv'
  <2> SUFFICES ASSUME NEW d \in Events
               PROVE  /\ at'[d] = "idle" => mine'[d] = None
                      /\ Kind[d] = "start" => mine'[d] \in {d, None}
                      /\ at'[d] = "greeted" => Kind[d] = "start" /\ mine'[d] = d
                      /\ Kind[d] = "message" /\ mine'[d] # None => turn[d] \in 1..turnN[mine'[d]]
                      /\ Kind[d] = "message" /\ at'[d] \in {"idle", "lock"} => out'[d] = <<>>
    BY DEF TurnInv
  <2>1. CASE d = c
    BY <1>1, <1>4, <2>1
  <2>2. CASE d # c
    BY <1>1, <1>3, <2>2 DEF OrderInv, TurnInv
  <2> QED  BY <2>1, <2>2
<1>9. Served'
  <2> SUFFICES ASSUME NEW x \in Messages, NEW y \in Messages, mine'[x] = mine'[y], mine'[x] # None,
                      turn[x] < turn[y], at'[y] \in Holding \/ out'[y] # <<>>
               PROVE  at'[x] = "over"
    BY DEF Served
  <2>1. x \in Events /\ y \in Events /\ x # c /\ y # c
    BY <1>4 DEF Messages
  <2> QED  BY <1>1, <1>3, <1>6, <2>1 DEF OrderInv, Served
<1> QED  BY <1>2, <1>7, <1>8, <1>9 DEF OrderInv

(* What the tasks do leaves the iterations alone.                              *)
LEMMA Aside ==
  ASSUME OrderInv, UNCHANGED <<registered, line, turnN, at, mine, turn, out>>,
         task' = [d \in Events |-> task'[d]]
  PROVE  OrderInv'
<1>1. WebTypes'
  BY DEF OrderInv, WebTypes
<1>2. LineInv'
  BY DEF OrderInv, LineInv
<1>3. TurnInv'
  BY DEF OrderInv, TurnInv
<1>4. Served'
  BY DEF OrderInv, Served
<1> QED  BY <1>1, <1>2, <1>3, <1>4 DEF OrderInv

(* An event is yielded by the holder of the lock.                              *)
LEMMA Yielding ==
  ASSUME OrderInv, NEW c \in Events, at[c] \in Holding, NEW e, NEW l \in Holding, Yield(c, e, l),
         UNCHANGED <<registered, turnN, mine, turn, task>>
  PROVE  OrderInv'
<1>1. at[c] \in InLine /\ at[c] # "lock" /\ line[mine[c]][1] = c
  BY DEF OrderInv, LineInv, InLine, Holding
<1>2. task' = [d \in Events |-> task'[d]] /\ out = [d \in Events |-> out[d]]
  BY DEF OrderInv, WebTypes
<1>3. CASE Owns(c)
  <2>1. Show(c, e) /\ Go(c, l) /\ UNCHANGED line
    BY <1>3 DEF Yield
  <2>2. out' = [d \in Events |-> out'[d]] /\ \A d \in Events \ {c} : out'[d] = out[d]
    BY <1>2, <2>1 DEF Show
  <2> QED  BY <1>1, <1>2, <2>1, <2>2, Moving
<1>4. CASE ~Owns(c)
  BY <1>1, <1>2, <1>4, Leaving DEF Yield
<1> QED  BY <1>3, <1>4

(* An event that comes in keeps the order,                                     *)
LEMMA OpenStep ==
  ASSUME OrderInv, NEW c \in Events, Refused(c) \/ Start(c) \/ End(c) \/ Message(c)
  PROVE  OrderInv'
<1>1. /\ out = [d \in Events |-> out[d]]
      /\ mine \in [Events -> Starts \cup {None}] /\ turnN \in [Starts -> Nat] /\ line \in [Starts -> Seq(Events)]
      /\ registered \in Starts \cup {None}
  BY DEF OrderInv, WebTypes
<1>2. ASSUME NEW e, Show(c, e)
      PROVE  out' = [d \in Events |-> out'[d]] /\ \A d \in Events \ {c} : out'[d] = out[d]
  BY <1>1, <1>2 DEF Show
<1>3. CASE Refused(c)
  <2>1. /\ at[c] = "idle" /\ Go(c, "over") /\ Show(c, Item("error", Greeting))
        /\ UNCHANGED <<mine, registered, line, turnN, turn, task>>
    BY <1>3 DEF Refused
  <2> QED  BY <1>1, <1>2, <2>1, Opening
<1>4. CASE Start(c)
  <2>1. /\ at[c] = "idle" /\ UNCHANGED <<line, turnN, turn, task>> /\ Kind[c] = "start" /\ c \in Starts
        /\ \/ /\ Go(c, "over") /\ Show(c, Item("error", Greeting)) /\ UNCHANGED <<registered, mine>>
           \/ /\ registered' = c /\ mine' = [mine EXCEPT ![c] = c]
              /\ Go(c, "greeted") /\ Show(c, Item("greeting", Greeting))
    BY <1>4 DEF Start, Starts
  <2> QED  BY <1>1, <1>2, <2>1, Opening
<1>5. CASE End(c)
  <2>1. /\ at[c] = "idle" /\ Go(c, "over") /\ UNCHANGED <<mine, line, turnN, turn, task, out>> /\ registered' = None
    BY <1>5 DEF End
  <2> QED  BY <1>1, <2>1, Opening
<1>6. CASE Message(c)
  <2>1. CASE registered = None
    <3>1. /\ at[c] = "idle" /\ Go(c, "over") /\ Show(c, Item("error", Greeting))
          /\ UNCHANGED <<mine, registered, line, turnN, turn, task>>
      BY <1>6, <2>1 DEF Message
    <3> QED  BY <1>1, <1>2, <3>1, Opening
  <2>2. CASE registered # None
    <3>1. /\ Kind[c] = "message" /\ at[c] = "idle" /\ Go(c, "lock") /\ UNCHANGED <<registered, task, out>>
          /\ line' = [line EXCEPT ![registered] = Append(@, c)] /\ mine' = [mine EXCEPT ![c] = registered]
          /\ turnN' = [turnN EXCEPT ![registered] = @ + 1] /\ turn' = [turn EXCEPT ![c] = turnN[registered] + 1]
      BY <1>6, <2>2 DEF Message
    <3>2. out[c] = <<>> /\ registered \in Starts
      BY <1>1, <2>2, <3>1 DEF OrderInv, TurnInv
    <3> QED  BY <3>1, <3>2, Joining
  <2> QED  BY <2>1, <2>2
<1> QED  BY <1>3, <1>4, <1>5, <1>6

(* Finish and Continue keep the lock or leave.                                 *)
LEMMA FinishStep ==
  ASSUME OrderInv, NEW c \in Events, at[c] \in Holding, NEW b, Finish(c, b),
         UNCHANGED <<registered, turnN, mine, turn, task, out>>
  PROVE  OrderInv'
<1>1. at[c] \in InLine /\ at[c] # "lock" /\ line[mine[c]][1] = c
  BY DEF OrderInv, LineInv, InLine, Holding
<1>2. task' = [d \in Events |-> task'[d]] /\ out' = [d \in Events |-> out'[d]]
  BY DEF OrderInv, WebTypes
<1>3. "awaitFiller" \in Holding /\ "drain" \in Holding
  BY DEF Holding, Points
<1>4. \/ Leave(c)
      \/ Go(c, "awaitFiller") /\ UNCHANGED line
      \/ Go(c, "drain") /\ UNCHANGED line
  BY DEF Finish
<1> QED  BY <1>1, <1>2, <1>3, <1>4, Moving, Leaving

(* as does what follows an item.                                               *)
LEMMA ContinueStep ==
  ASSUME OrderInv, NEW c \in Events, at[c] \in Holding, NEW b, Continue(c, b),
         UNCHANGED <<registered, turnN, mine, turn, task, out>>
  PROVE  OrderInv'
<1>1. at[c] \in InLine /\ line[mine[c]][1] = c
  BY DEF OrderInv, LineInv, InLine, Holding
<1>2. task' = [d \in Events |-> task'[d]] /\ out' = [d \in Events |-> out'[d]]
  BY DEF OrderInv, WebTypes
<1>3. "wait" \in Holding
  BY DEF Holding, Points
<1>4. (\E d : Finish(c, d)) \/ (Go(c, "wait") /\ UNCHANGED line)
  BY DEF Continue
<1> QED  BY <1>1, <1>2, <1>3, <1>4, Moving, FinishStep

(* An iteration asks for the lock, or goes on or leaves when it has it.        *)
LEMMA LockStep ==
  ASSUME OrderInv, NEW c \in Events, Greeted(c) \/ SpeakGreeting(c) \/ BeginTurn(c)
  PROVE  OrderInv'
<1>1. /\ out = [d \in Events |-> out[d]] /\ task = [d \in Events |-> task[d]]
      /\ mine \in [Events -> Starts \cup {None}] /\ line \in [Starts -> Seq(Events)]
  BY DEF OrderInv, WebTypes
<1>2. "speaking" \in Holding /\ "wait" \in Holding
  BY DEF Holding, Points
<1>3. CASE Greeted(c)
  <2>1. /\ at[c] = "greeted" /\ UNCHANGED <<registered, turnN, mine, turn, task, out>>
        /\ Kind[c] = "start" /\ mine[c] = c /\ c \in Starts /\ at[c] \notin InLine
    BY <1>3 DEF Greeted, OrderInv, TurnInv, Starts, InLine, Holding
  <2>2. CASE Owns(c)
    <3>1. Go(c, "lock") /\ line' = [line EXCEPT ![c] = Append(@, c)] /\ mine' = [mine EXCEPT ![c] = c]
      BY <1>1, <1>3, <2>1, <2>2 DEF Greeted
    <3> QED  BY <1>1, <2>1, <3>1, Joining
  <2>3. CASE ~Owns(c)
    BY <1>1, <1>3, <2>1, <2>3, Leaving DEF Greeted
  <2> QED  BY <2>2, <2>3
<1>4. ASSUME at[c] = "lock", mine[c] \in Starts, Head(line[mine[c]]) = c
      PROVE  at[c] \in InLine /\ line[mine[c]][1] = c
  BY <1>1, <1>4 DEF OrderInv, LineInv, InLine
<1>5. at[c] = "lock" => mine[c] \in Starts
  BY DEF OrderInv, LineInv, InLine
<1>6. CASE SpeakGreeting(c)
  <2>1. /\ at[c] = "lock" /\ Kind[c] = "start" /\ Head(line[c]) = c
        /\ UNCHANGED <<registered, turnN, mine, turn, task, out>>
        /\ (Go(c, "speaking") /\ UNCHANGED line) \/ Leave(c)
    BY <1>6 DEF SpeakGreeting
  <2>2. mine[c] = c
    BY <1>5, <2>1, WebAssumption DEF OrderInv, TurnInv, Starts
  <2> QED  BY <1>1, <1>2, <1>4, <1>5, <2>1, <2>2, Moving, Leaving
<1>7. CASE BeginTurn(c)
  <2>1. /\ at[c] = "lock" /\ Head(line[mine[c]]) = c /\ UNCHANGED <<registered, turnN, mine, turn, out>>
        /\ task' = [task EXCEPT ![c] = "running"] \/ task' = task
        /\ (Go(c, "wait") /\ UNCHANGED line) \/ Leave(c)
    BY <1>7 DEF BeginTurn, HasLock
  <2>2. task' = [d \in Events |-> task'[d]]
    BY <1>1, <2>1
  <2> QED  BY <1>1, <1>2, <1>4, <1>5, <2>1, <2>2, Moving, Leaving
<1> QED  BY <1>3, <1>6, <1>7

(* Between the lock and the end an iteration holds the lock.                   *)
LEMMA HoldStep ==
  ASSUME OrderInv, NEW c \in Events,
         \/ WakeWithItem(c) \/ Resume(c) \/ WakeAtEnd(c) \/ FillerAwaited(c) \/ Drain(c)
         \/ Answered(c) \/ Generated(c) \/ SpeakAnswer(c) \/ SpeechFailed(c) \/ EmitAudio(c)
         \/ Close(c) \/ Disconnect(c)
  PROVE  OrderInv'
<1>1. /\ out = [d \in Events |-> out[d]] /\ task = [d \in Events |-> task[d]]
      /\ UNCHANGED <<registered, turnN, mine, turn, task>>
  BY DEF OrderInv, WebTypes, WakeWithItem, Resume, WakeAtEnd, FillerAwaited, Drain, Answered,
         Generated, SpeakAnswer, SpeechFailed, EmitAudio, Close, Disconnect
<1>2. {"wait", "mid", "midEnded", "awaitFiller", "drain", "generating", "respond", "speaking",
       "emit", "closing"} = Holding
  BY DEF Holding, Points
<1>3. ASSUME UNCHANGED out
      PROVE  task' = [d \in Events |-> task'[d]] /\ out' = [d \in Events |-> out'[d]]
  BY <1>1, <1>3
<1>4. at[c] \in Holding => at[c] \in InLine /\ at[c] # "lock" /\ line[mine[c]][1] = c
  BY DEF OrderInv, LineInv, InLine, Holding
<1>5. CASE WakeWithItem(c)
  <2>1. at[c] \in Holding
    BY <1>2, <1>5 DEF WakeWithItem
  <2>2. \/ Continue(c, Ended(c)) /\ UNCHANGED out
        \/ Yield(c, hand[c][1], IF Ended(c) THEN "midEnded" ELSE "mid")
    BY <1>5 DEF WakeWithItem
  <2>3. CASE Continue(c, Ended(c)) /\ UNCHANGED out
    BY <1>1, <2>1, <2>3, ContinueStep
  <2>4. CASE Yield(c, hand[c][1], IF Ended(c) THEN "midEnded" ELSE "mid")
    BY <1>1, <1>2, <2>1, <2>4, Yielding
  <2> QED  BY <2>2, <2>3, <2>4
<1>6. CASE Resume(c)
  <2>1. at[c] \in Holding /\ Continue(c, at[c] = "midEnded") /\ UNCHANGED out
    BY <1>2, <1>6 DEF Resume
  <2> QED  BY <1>1, <2>1, ContinueStep
<1>7. CASE WakeAtEnd(c)
  <2>1. at[c] \in Holding /\ UNCHANGED out /\ \E d : Finish(c, d)
    BY <1>2, <1>7 DEF WakeAtEnd
  <2> QED  BY <1>1, <2>1, FinishStep
<1>8. CASE FillerAwaited(c)
  <2>1. at[c] \in Holding /\ UNCHANGED out /\ (Leave(c) \/ (Go(c, "drain") /\ UNCHANGED line))
    BY <1>2, <1>8 DEF FillerAwaited
  <2> QED  BY <1>1, <1>2, <1>3, <1>4, <2>1, Moving, Leaving
<1>9. ASSUME NEW l \in {"drain", "emit"}, at[c] \in Holding, YieldItem(c, l)
      PROVE  OrderInv'
  <2>1. (Go(c, l) /\ UNCHANGED <<line, out>>) \/ \E e : Yield(c, e, l)
    BY <1>9 DEF YieldItem
  <2> QED  BY <1>1, <1>2, <1>3, <1>4, <1>9, <2>1, Moving, Yielding
<1>10. CASE Drain(c)
  BY <1>2, <1>9, <1>10 DEF Drain
<1>11. CASE Answered(c) \/ Generated(c) \/ SpeechFailed(c)
  <2>1. /\ at[c] \in Holding
        /\ \/ Go(c, "generating") /\ UNCHANGED <<line, out>>
           \/ \E e : Yield(c, e, "respond") \/ Yield(c, e, "closing")
    BY <1>2, <1>11 DEF Answered, Generated, SpeechFailed, Drained
  <2> QED  BY <1>1, <1>2, <1>3, <1>4, <2>1, Moving, Yielding
<1>12. CASE SpeakAnswer(c)
  <2>1. at[c] \in Holding /\ UNCHANGED out /\ (Leave(c) \/ (Go(c, "speaking") /\ UNCHANGED line))
    BY <1>2, <1>12 DEF SpeakAnswer
  <2> QED  BY <1>1, <1>2, <1>3, <1>4, <2>1, Moving, Leaving
<1>13. CASE EmitAudio(c)
  <2>1. at[c] \in Holding /\ (YieldItem(c, "emit") \/ (Leave(c) /\ UNCHANGED out))
    BY <1>2, <1>13 DEF EmitAudio, SpeechOver
  <2> QED  BY <1>1, <1>3, <1>4, <1>9, <2>1, Leaving
<1>14. CASE Close(c) \/ Disconnect(c)
  <2>1. (at[c] \in Holding \/ at[c] = "greeted") /\ Leave(c) /\ UNCHANGED out
    BY <1>2, <1>14 DEF Close, Disconnect
  <2>2. at[c] \in InLine \cup {"greeted"} /\ (at[c] \in InLine => at[c] \in Holding)
    BY <1>4, <2>1 DEF InLine
  <2> QED  BY <1>1, <1>3, <1>4, <2>1, <2>2, Leaving
<1> QED  BY <1>5, <1>6, <1>7, <1>8, <1>10, <1>11, <1>12, <1>13, <1>14

(* A turn's task and a queue's reader, and                                     *)
LEMMA TaskStep ==
  ASSUME OrderInv, NEW c \in Events, Take(c) \/ TurnFills(c) \/ TurnEnds(c) \/ TurnRaises(c)
  PROVE  OrderInv'
<1>1. task = [d \in Events |-> task[d]]
  BY DEF OrderInv, WebTypes
<1>2. UNCHANGED <<registered, line, turnN, at, mine, turn, out>>
  BY DEF Take, TurnFills, TurnEnds, TurnRaises, sessionVars, callVars
<1>3. UNCHANGED task \/ \E r : task' = [task EXCEPT ![c] = r]
  BY DEF Take, TurnFills, TurnEnds, TurnRaises
<1>4. task' = [d \in Events |-> task'[d]]
  BY <1>1, <1>3
<1> QED  BY <1>2, <1>4, Aside

(* the speech of a turn, ask for no lock.                                      *)
LEMMA SpeechStep ==
  ASSUME OrderInv, NEW s, NEW v, Play(s, v) \/ FailSpeech(s, v)
  PROVE  OrderInv'
<1>1. UNCHANGED <<registered, line, turnN, at, mine, turn, task, out>>
  BY DEF Play, StartFiller, Chunk, EndSpeech, FailSpeech, sessionVars, callVars
<1>2. task' = [d \in Events |-> task'[d]]
  BY <1>1 DEF OrderInv, WebTypes
<1> QED  BY <1>1, <1>2, Aside

(* Every step keeps the order.                                                 *)
LEMMA OrderStep == OrderInv /\ [Next]_vars => OrderInv'
<1> SUFFICES ASSUME OrderInv, [Next]_vars PROVE OrderInv'
  OBVIOUS
<1>1. CASE UNCHANGED vars
  <2>1. UNCHANGED <<registered, line, turnN, at, mine, turn, task, out>>
    BY <1>1 DEF vars, sessionVars, callVars
  <2>2. task' = [d \in Events |-> task'[d]]
    BY <2>1 DEF OrderInv, WebTypes
  <2> QED  BY <2>1, <2>2, Aside
<1>2. ASSUME NEW c \in Events, Refused(c) \/ Start(c) \/ End(c) \/ Message(c) PROVE OrderInv'
  BY <1>2, OpenStep
<1>3. ASSUME NEW c \in Events, Iterate(c) \/ Disconnect(c) PROVE OrderInv'
  BY <1>3, LockStep, HoldStep DEF Iterate
<1>4. ASSUME NEW c \in Events, Take(c) \/ TurnFills(c) \/ TurnEnds(c) \/ TurnRaises(c) PROVE OrderInv'
  BY <1>4, TaskStep
<1>5. ASSUME NEW s \in Starts, NEW v \in Voices, Play(s, v) \/ FailSpeech(s, v) PROVE OrderInv'
  BY <1>5, SpeechStep
<1> QED  BY <1>1, <1>2, <1>3, <1>4, <1>5 DEF Next

(* web_session.py:163: the lock of each incarnation serves the messages in the *)
(* order in which they were numbered before they asked for it (line 150), in   *)
(* every run.                                                                  *)
THEOREM OrderHolds == Spec => []OrderInv
BY OrderInit, OrderStep, PTL DEF Spec

(* iter_events: no message of a session shows anything before the earlier      *)
(* messages of that session are done, whatever raises, fails, disconnects,     *)
(* ends or restarts.                                                           *)
THEOREM AnswersInOrderHolds == Spec => []AnswersInOrder
<1>1. OrderInv => AnswersInOrder
  BY DEF OrderInv, Served, AnswersInOrder
<1> QED  BY <1>1, OrderHolds, PTL

(* Who shows something is at its yield, or has no incarnation yet.             *)
LEMMA ShownByTheRegistered ==
  ASSUME OrderInv, [Next]_vars, NEW c \in Events, mine[c] # None, out'[c] # out[c]
  PROVE  registered = mine[c]
<1>1. out = [d \in Events |-> out[d]]
  BY DEF OrderInv, WebTypes
<1>2. ASSUME NEW d \in Events, NEW e, Show(d, e) PROVE c = d
  BY <1>1, <1>2 DEF Show
<1>3. ASSUME NEW d \in Events, NEW e, NEW l, Yield(d, e, l) PROVE registered = mine[c]
  BY <1>2, <1>3 DEF Yield, Owns
<1>4. ASSUME NEW d \in Events, NEW l, YieldItem(d, l) PROVE registered = mine[c]
  BY <1>3, <1>4 DEF YieldItem
<1>5. ASSUME NEW d \in Events, at[d] = "idle", NEW e, Show(d, e) PROVE FALSE
  BY <1>2, <1>5 DEF OrderInv, TurnInv
<1>6. ASSUME NEW d \in Events, Refused(d) \/ Start(d) \/ End(d) \/ Message(d) PROVE FALSE
  BY <1>5, <1>6 DEF Refused, Start, End, Message
<1>7. ASSUME NEW d \in Events, Iterate(d) PROVE registered = mine[c]
  BY <1>3, <1>4, <1>7
  DEF Iterate, Greeted, SpeakGreeting, BeginTurn, WakeWithItem, Resume, WakeAtEnd, FillerAwaited,
      Drain, Answered, Generated, SpeakAnswer, SpeechFailed, EmitAudio, Close
<1>8. ASSUME NEW d \in Events, \/ Disconnect(d) \/ Take(d) \/ TurnFills(d) \/ TurnEnds(d) \/ TurnRaises(d)
      PROVE  FALSE
  BY <1>8 DEF Disconnect, Take, TurnFills, TurnEnds, TurnRaises
<1>9. ASSUME NEW s, NEW v, Play(s, v) \/ FailSpeech(s, v) PROVE FALSE
  BY <1>9 DEF Play, StartFiller, Chunk, EndSpeech, FailSpeech
<1>10. CASE UNCHANGED vars
  BY <1>10 DEF vars
<1> QED  BY <1>6, <1>7, <1>8, <1>9, <1>10 DEF Next

(* A turn begins behind the lock.                                              *)
LEMMA BegunByTheRegistered ==
  ASSUME OrderInv, [Next]_vars, NEW c \in Messages, task[c] = "none", task'[c] = "running"
  PROVE  registered = mine[c] /\ turn[c] \in 1..turnN[mine[c]]
<1>1. task = [d \in Events |-> task[d]] /\ c \in Events /\ Kind[c] = "message"
  BY DEF OrderInv, WebTypes, Messages
<1>2. BeginTurn(c)
  <2>1. ~UNCHANGED task
    OBVIOUS
  <2>2. ASSUME NEW d \in Events, Iterate(d) PROVE BeginTurn(d)
    BY <2>1, <2>2
    DEF Iterate, Greeted, SpeakGreeting, WakeWithItem, Resume, WakeAtEnd, FillerAwaited,
        Drain, Answered, Generated, SpeakAnswer, SpeechFailed, EmitAudio, Close
  <2>3. ASSUME NEW d \in Events, \/ Refused(d) \/ Start(d) \/ End(d) \/ Message(d) \/ Disconnect(d) \/ Take(d)
                                 \/ TurnFills(d)
        PROVE  FALSE
    BY <2>1, <2>3 DEF Refused, Start, End, Message, Disconnect, Take, TurnFills
  <2>4. ASSUME NEW d \in Events, TurnEnds(d) \/ TurnRaises(d) PROVE FALSE
    <3>1. /\ task[d] = "running"
          /\ \E r \in {"quiet", "scripted", "generate", "raised"} : task' = [task EXCEPT ![d] = r]
      BY <2>4 DEF TurnEnds, TurnRaises
    <3> QED  BY <1>1, <3>1
  <2>5. ASSUME NEW s, NEW v, Play(s, v) \/ FailSpeech(s, v) PROVE FALSE
    BY <2>1, <2>5 DEF Play, StartFiller, Chunk, EndSpeech, FailSpeech
  <2>6. \E d \in Events : BeginTurn(d)
    BY <2>1, <2>2, <2>3, <2>4, <2>5 DEF Next, vars
  <2>7. PICK d \in Events : BeginTurn(d)
    BY <2>6
  <2>8. task' = [task EXCEPT ![d] = "running"]
    BY <2>1, <2>7 DEF BeginTurn
  <2> QED  BY <1>1, <2>7, <2>8
<1>3. registered = mine[c] /\ at[c] = "lock"
  BY <1>2 DEF BeginTurn, Owns, HasLock
<1>4. mine[c] \in Starts
  BY <1>1, <1>3 DEF OrderInv, LineInv, InLine
<1> QED  BY <1>1, <1>3, <1>4, WebAssumption DEF OrderInv, TurnInv, Starts

(* _registered (web_session.py:168-174) and the second look behind the lock:   *)
(* nothing of a session is shown, and no turn of it begins, once it was ended  *)
(* or replaced, however many events, incarnations and turns there are.         *)
THEOREM EndsAreFinal == Spec => EndIsFinal
<1>1. OrderInv /\ [Next]_vars
        => [\A c \in Events : mine[c] # None /\ out'[c] # out[c] => registered = mine[c]]_vars
  BY ShownByTheRegistered
<1>2. OrderInv /\ [Next]_vars
        => [\A c \in Messages : task[c] = "none" /\ task'[c] = "running"
              => registered = mine[c] /\ turn[c] \in 1..turnN[mine[c]]]_vars
  BY BegunByTheRegistered
<1> QED  BY <1>1, <1>2, OrderHolds, PTL DEF Spec, EndIsFinal, NoOutputAfterEnd, NoTurnForClosedSession

(* Whose turns a session has numbered, what they have put, and where it is.    *)
Numbered(s)    == {c \in Messages : mine[c] = s}
Produced(s)    == {p \in Messages \X (1..MaxFillers) : mine[p[1]] = s /\ p[2] <= put[p[1]]}
FillersIn(q)   == {i \in 1..Len(q) : q[i].kind = "filler"}
HeldFillers(s) == {c \in Events : mine[c] = s /\ hand[c] # <<>> /\ hand[c][1].kind = "filler"}

(* No turn is counted twice; no filler is.                                     *)
TurnCount == \A s \in Starts : turnN[s] <= Cardinality(Numbered(s))

(* Fillers shown, queued and held were all put.                                *)
FillerCount ==
    \A s \in Starts :
        fillerN[s] + Cardinality(FillersIn(queue[s])) + Cardinality(HeldFillers(s)) <= Cardinality(Produced(s))

(* What the tasks of an iteration work with.                                   *)
TasksOf(c) ==
    /\ getting[c] => hand[c] = <<>> /\ mine[c] \in Starts
    /\ hand[c] # <<>> => mine[c] \in Starts
    /\ at[c] \in {"mid", "midEnded"} => hand[c] # <<>>
    /\ task[c] = "running" => Kind[c] = "message" /\ mine[c] \in Starts
    /\ at[c] \in Holding \ {"speaking", "emit", "closing"} => Kind[c] = "message"
    /\ at[c] \in {"idle", "lock"} /\ Kind[c] = "message" => put[c] = 0 /\ task[c] = "none" /\ hand[c] = <<>> /\ ~getting[c]
    /\ at[c] = "idle" => turn[c] = 0
    /\ Kind[c] = "start" => turn[c] = 0

(* Every iteration has what its tasks work with.                               *)
TasksInv == \A c \in Events : TasksOf(c)

(* What bounds the types of a session, and the types.                          *)
WorkInv == TypeOK /\ TurnCount /\ FillerCount /\ TasksInv

(* The bounds that the types of the model name.                                *)
LEMMA Bounds ==
  /\ IsFiniteSet(Events) /\ IsFiniteSet(Messages) /\ Cardinality(Messages) \in Nat
  /\ MaxFillers * Cardinality(Messages) \in Nat
  /\ \A c \in Messages : Cardinality(Messages) >= 1 /\ MaxFillers <= MaxFillers * Cardinality(Messages)
<1>1. IsFiniteSet(Events) /\ Messages \in SUBSET Events
  BY WebAssumption DEF Messages
<1>2. IsFiniteSet(Messages) /\ Cardinality(Messages) \in Nat
  BY <1>1, FS_Subset, FS_CardinalityType
<1>3. MaxFillers \in Nat
  BY WebAssumption
<1>4. ASSUME NEW a \in Nat, NEW b \in Nat PROVE a * b \in Nat /\ (b >= 1 => a <= a * b)
  BY SMTT(20)
<1>5. ASSUME NEW c \in Messages PROVE Cardinality(Messages) >= 1
  BY <1>2, <1>5, FS_EmptySet
<1> QED  BY <1>1, <1>2, <1>3, <1>4, <1>5

(* A voice is a turn's answer (part 0) or one of its fillers.                  *)
LEMMA VoiceTyped ==
  ASSUME NEW n \in Turns, NEW k \in 0..(MaxFillers * Cardinality(Messages))
  PROVE  Voice(n, k) \in Voices /\ Voice(n, k).turn = n /\ Voice(n, k).part = k
BY DEF Voice, Voices

(* What is put on a queue or shown is an item of the model.                    *)
LEMMA ItemTyped ==
  /\ \A k \in {"greeting", "filler", "audio", "teardown", "response", "error"}, v \in Voices : Item(k, v) \in Items
  /\ \A k, v : Item(k, v).kind = k /\ Item(k, v).voice = v
  /\ \A n : Voice(n, 0) \in Voices <=> n \in Turns
  /\ Greeting \in Voices
<1>1. Cardinality(Messages) \in Nat /\ 0 \in 0..(MaxFillers * Cardinality(Messages)) /\ 0 \in Turns
  BY Bounds DEF Turns
<1>2. \A n : Voice(n, 0) \in Voices <=> n \in Turns
  <2>1. ASSUME NEW n, Voice(n, 0) \in Voices PROVE n \in Turns
    <3>1. Voice(n, 0).turn = n
      BY DEF Voice
    <3> QED  BY <2>1, <3>1 DEF Voices
  <2> QED  BY <1>1, <2>1, VoiceTyped
<1> QED  BY <1>1, <1>2 DEF Item, Items, Greeting

(* A queue grows at its end and is read at its head.                           *)
LEMMA FillersFinite ==
  ASSUME NEW q \in Seq(Items)
  PROVE  IsFiniteSet(FillersIn(q)) /\ Cardinality(FillersIn(q)) \in Nat
<1>1. IsFiniteSet(1..Len(q)) /\ FillersIn(q) \in SUBSET (1..Len(q))
  BY FS_Interval DEF FillersIn
<1> QED  BY <1>1, FS_Subset, FS_CardinalityType

(* An item put adds itself when it is a filler,                                *)
LEMMA FillersAppend ==
  ASSUME NEW q \in Seq(Items), NEW x \in Items
  PROVE  Cardinality(FillersIn(Append(q, x))) = Cardinality(FillersIn(q)) + (IF x.kind = "filler" THEN 1 ELSE 0)
<1>1. /\ Len(Append(q, x)) = Len(q) + 1 /\ Len(q) \in Nat /\ Append(q, x)[Len(q) + 1] = x
      /\ \A i \in 1..Len(q) : Append(q, x)[i] = q[i]
  OBVIOUS
<1>2. FillersIn(Append(q, x)) = IF x.kind = "filler" THEN FillersIn(q) \cup {Len(q) + 1} ELSE FillersIn(q)
  <2>1. ASSUME NEW i PROVE i \in FillersIn(Append(q, x)) <=> i \in FillersIn(q) \/ (i = Len(q) + 1 /\ x.kind = "filler")
    BY <1>1 DEF FillersIn
  <2> QED  BY <2>1
<1>3. Len(q) + 1 \notin FillersIn(q)
  BY <1>1 DEF FillersIn
<1>4. /\ IsFiniteSet(FillersIn(q)) /\ Cardinality(FillersIn(q)) \in Nat
      /\ Cardinality(FillersIn(q) \cup {Len(q) + 1}) = Cardinality(FillersIn(q)) + 1
  BY <1>3, FillersFinite, FS_AddElement
<1> QED  BY <1>2, <1>4

(* and an item taken takes no more than itself away.                           *)
LEMMA FillersTail ==
  ASSUME NEW q \in Seq(Items), q # <<>>
  PROVE  /\ Head(q) \in Items /\ Tail(q) \in Seq(Items)
         /\ Cardinality(FillersIn(Tail(q))) + (IF Head(q).kind = "filler" THEN 1 ELSE 0) <= Cardinality(FillersIn(q))
<1> DEFINE S == FillersIn(q) \ {1}
           T == FillersIn(Tail(q))
           f == [i \in S |-> i - 1]
<1>1. /\ Len(q) \in Nat /\ Len(q) >= 1 /\ Len(Tail(q)) = Len(q) - 1 /\ Head(q) = q[1]
      /\ \A i \in 1..(Len(q) - 1) : Tail(q)[i] = q[i + 1]
      /\ Head(q) \in Items /\ Tail(q) \in Seq(Items)
  OBVIOUS
<1>2. \A i \in S : i - 1 \in T
  <2> SUFFICES ASSUME NEW i \in S PROVE i - 1 \in T
    OBVIOUS
  <2>1. i \in Int /\ i - 1 \in 1..(Len(q) - 1) /\ (i - 1) + 1 = i /\ q[i].kind = "filler"
    BY <1>1 DEF FillersIn
  <2>2. Tail(q)[i - 1] = q[i]
    BY <1>1, <2>1
  <2> QED  BY <1>1, <2>1, <2>2 DEF FillersIn
<1>3. \A j \in T : \E i \in S : j = i - 1
  <2> SUFFICES ASSUME NEW j \in T PROVE j + 1 \in S /\ j = (j + 1) - 1
    OBVIOUS
  <2> QED  BY <1>1 DEF FillersIn
<1>4. f \in Surjection(S, T)
  <2>1. f \in [S -> T]
    BY <1>2
  <2>2. \A j \in T : \E i \in S : f[i] = j
    BY <1>3
  <2> QED  BY <2>1, <2>2 DEF Surjection
<1>5. /\ IsFiniteSet(S) /\ Cardinality(S) \in Nat
      /\ Cardinality(S) = IF 1 \in FillersIn(q) THEN Cardinality(FillersIn(q)) - 1 ELSE Cardinality(FillersIn(q))
  BY FillersFinite, FS_RemoveElement, FS_CardinalityType
<1>6. Cardinality(T) <= Cardinality(S) /\ Cardinality(T) \in Nat
  <2> HIDE DEF S, T, f
  <2> QED  BY <1>4, <1>5, FS_Surjection, FS_CardinalityType
<1>7. Head(q).kind = "filler" => 1 \in FillersIn(q)
  BY <1>1 DEF FillersIn
<1>8. Cardinality(FillersIn(q)) \in Nat
  BY FillersFinite
<1> HIDE DEF S
<1> QED  BY <1>1, <1>5, <1>6, <1>7, <1>8

(* What is held and what was produced.                                         *)
LEMMA Finite ==
  ASSUME NEW s
  PROVE  /\ IsFiniteSet(HeldFillers(s)) /\ Cardinality(HeldFillers(s)) \in Nat
         /\ IsFiniteSet(Numbered(s)) /\ Cardinality(Numbered(s)) \in Nat
         /\ Cardinality(Numbered(s)) <= Cardinality(Messages)
         /\ IsFiniteSet(Produced(s)) /\ Cardinality(Produced(s)) \in Nat
         /\ Cardinality(Produced(s)) <= MaxFillers * Cardinality(Messages)
<1>1. HeldFillers(s) \in SUBSET Events /\ Numbered(s) \in SUBSET Messages
  BY DEF HeldFillers, Numbered
<1>2. Produced(s) \in SUBSET (Messages \X (1..MaxFillers))
  BY DEF Produced
<1>3. IsFiniteSet(1..MaxFillers) /\ Cardinality(1..MaxFillers) = MaxFillers
  BY WebAssumption, FS_Interval
<1>4. /\ IsFiniteSet(Messages \X (1..MaxFillers))
      /\ Cardinality(Messages \X (1..MaxFillers)) = Cardinality(Messages) * MaxFillers
  BY <1>3, Bounds, FS_Product
<1>5. Cardinality(Messages) * MaxFillers = MaxFillers * Cardinality(Messages)
  BY Bounds, WebAssumption
<1> QED  BY <1>1, <1>2, <1>4, <1>5, Bounds, FS_Subset, FS_CardinalityType

(* What a session has shown, queued and handed to readers.                     *)
Stock(s) == fillerN[s] + Cardinality(FillersIn(queue[s])) + Cardinality(HeldFillers(s))

(* A stock is a number, and no more than what was produced.                    *)
LEMMA StockTyped ==
  ASSUME WorkInv, NEW s \in Starts
  PROVE  /\ fillerN[s] \in Nat /\ queue[s] \in Seq(Items) /\ Cardinality(FillersIn(queue[s])) \in Nat
         /\ Cardinality(HeldFillers(s)) \in Nat /\ Cardinality(Produced(s)) \in Nat
         /\ Stock(s) \in Nat /\ Stock(s) <= Cardinality(Produced(s))
         /\ Cardinality(Produced(s)) <= MaxFillers * Cardinality(Messages)
<1>1. fillerN[s] \in Nat /\ queue[s] \in Seq(Items)
  BY DEF WorkInv, TypeOK
<1>2. Stock(s) <= Cardinality(Produced(s))
  BY DEF WorkInv, FillerCount, Stock
<1> QED  BY <1>1, <1>2, FillersFinite, Finite DEF Stock

(* Nothing is counted,                                                         *)
LEMMA CountSame ==
  ASSUME WorkInv, UNCHANGED <<mine, hand, put, queue, fillerN, turnN>>
  PROVE  TurnCount' /\ FillerCount'
BY DEF WorkInv, TurnCount, FillerCount, Numbered, HeldFillers, Produced

(* something other than a filler is put on a queue,                            *)
LEMMA CountPut ==
  ASSUME WorkInv, NEW s \in Starts, NEW x \in Items, x.kind # "filler", UNCHANGED <<mine, hand, put, fillerN, turnN>>,
         queue' = [queue EXCEPT ![s] = Append(@, x)]
  PROVE  TurnCount' /\ FillerCount'
<1>1. TurnCount'
  BY DEF WorkInv, TurnCount, Numbered
<1>2. ASSUME NEW z \in Starts
      PROVE  Cardinality(FillersIn(queue'[z])) = Cardinality(FillersIn(queue[z]))
  <2>1. z # s => queue'[z] = queue[z]
    BY DEF WorkInv, TypeOK
  <2>2. queue'[s] = Append(queue[s], x) /\ queue[s] \in Seq(Items)
    BY DEF WorkInv, TypeOK
  <2>3. Cardinality(FillersIn(Append(queue[s], x))) = Cardinality(FillersIn(queue[s]))
    BY <2>2, FillersAppend, FillersFinite
  <2> QED  BY <2>1, <2>2, <2>3
<1>3. FillerCount'
  BY <1>2 DEF WorkInv, FillerCount, HeldFillers, Produced
<1> QED  BY <1>1, <1>3

(* an item is read off a queue and shown or dropped,                           *)
LEMMA CountRead ==
  ASSUME WorkInv, NEW s \in Starts, queue[s] # <<>>, UNCHANGED <<mine, hand, put, fillerN, turnN>>,
         queue' = [queue EXCEPT ![s] = Tail(@)]
  PROVE  TurnCount' /\ FillerCount'
<1>1. TurnCount'
  BY DEF WorkInv, TurnCount, Numbered
<1>2. ASSUME NEW z \in Starts
      PROVE  /\ Cardinality(FillersIn(queue'[z])) \in Nat
             /\ Cardinality(FillersIn(queue'[z])) <= Cardinality(FillersIn(queue[z]))
  <2>1. queue[z] \in Seq(Items) /\ queue[s] \in Seq(Items) /\ (z # s => queue'[z] = queue[z])
        /\ queue'[s] = Tail(queue[s])
    BY DEF WorkInv, TypeOK
  <2>2. CASE z # s
    BY <2>1, <2>2, FillersFinite
  <2>3. CASE z = s
    <3>1. /\ Tail(queue[s]) \in Seq(Items)
          /\ Cardinality(FillersIn(Tail(queue[s]))) + (IF Head(queue[s]).kind = "filler" THEN 1 ELSE 0)
               <= Cardinality(FillersIn(queue[s]))
      BY <2>1, FillersTail
    <3>2. Cardinality(FillersIn(Tail(queue[s]))) \in Nat /\ Cardinality(FillersIn(queue[s])) \in Nat
      BY <2>1, <3>1, FillersFinite
    <3> QED  BY <2>1, <2>3, <3>1, <3>2
  <2> QED  BY <2>2, <2>3
<1>3. ASSUME NEW z \in Starts
      PROVE  fillerN'[z] + Cardinality(FillersIn(queue'[z])) + Cardinality(HeldFillers(z)') <= Cardinality(Produced(z)')
  <2>1. HeldFillers(z)' = HeldFillers(z) /\ Produced(z)' = Produced(z)
    BY DEF HeldFillers, Produced
  <2> QED  BY <1>2, <2>1, StockTyped, SMTT(30) DEF Stock
<1> QED  BY <1>1, <1>3 DEF FillerCount

(* or handed to a reader,                                                      *)
LEMMA CountTake ==
  ASSUME WorkInv, NEW c \in Events, Take(c)
  PROVE  TurnCount' /\ FillerCount'
<1> DEFINE s == mine[c]
           x == Head(queue[s])
           n == IF x.kind = "filler" THEN 1 ELSE 0
<1>1. /\ s \in Starts /\ hand[c] = <<>> /\ queue[s] # <<>> /\ UNCHANGED <<mine, put, fillerN, turnN>>
      /\ hand' = [hand EXCEPT ![c] = <<x>>] /\ queue' = [queue EXCEPT ![s] = Tail(@)]
  BY DEF WorkInv, TasksInv, TasksOf, Take, sessionVars, callVars
<1>2. TurnCount'
  BY <1>1 DEF WorkInv, TurnCount, Numbered
<1>3. /\ hand'[c] = <<x>> /\ \A d \in Events \ {c} : hand'[d] = hand[d]
      /\ queue'[s] = Tail(queue[s]) /\ \A z \in Starts \ {s} : queue'[z] = queue[z]
  BY <1>1 DEF WorkInv, TypeOK
<1>4. /\ Tail(queue[s]) \in Seq(Items) /\ Cardinality(FillersIn(Tail(queue[s]))) \in Nat
      /\ Cardinality(FillersIn(Tail(queue[s]))) + n <= Cardinality(FillersIn(queue[s]))
  BY <1>1, StockTyped, FillersTail, FillersFinite
<1>5. HeldFillers(s)' = IF x.kind = "filler" THEN HeldFillers(s) \cup {c} ELSE HeldFillers(s)
  <2>1. ASSUME NEW d PROVE d \in HeldFillers(s)' <=> d \in HeldFillers(s) \/ (d = c /\ x.kind = "filler")
    BY <1>1, <1>3 DEF HeldFillers
  <2> QED  BY <2>1
<1>6. /\ Cardinality(HeldFillers(s)) \in Nat /\ Cardinality(HeldFillers(s) \cup {c}) \in Nat
      /\ Cardinality(HeldFillers(s) \cup {c}) <= Cardinality(HeldFillers(s)) + 1
  <2>1. IsFiniteSet(HeldFillers(s)) /\ Cardinality(HeldFillers(s)) \in Nat
    BY Finite
  <2>2. /\ IsFiniteSet(HeldFillers(s) \cup {c})
        /\ Cardinality(HeldFillers(s) \cup {c}) = IF c \in HeldFillers(s) THEN Cardinality(HeldFillers(s))
                                                  ELSE Cardinality(HeldFillers(s)) + 1
    BY <2>1, FS_AddElement
  <2> QED  BY <2>1, <2>2
<1>7. Cardinality(HeldFillers(s)') \in Nat /\ Cardinality(HeldFillers(s)') <= Cardinality(HeldFillers(s)) + n
  BY <1>5, <1>6
<1>8. ASSUME NEW z \in Starts
      PROVE  fillerN'[z] + Cardinality(FillersIn(queue'[z])) + Cardinality(HeldFillers(z)') <= Cardinality(Produced(z)')
  <2>1. Produced(z)' = Produced(z) /\ fillerN'[z] = fillerN[z]
    BY <1>1 DEF Produced
  <2>2. CASE z = s
    <3>1. n \in Nat
      OBVIOUS
    <3> HIDE DEF n, x
    <3>2. /\ fillerN[s] \in Nat /\ Cardinality(FillersIn(queue[s])) \in Nat /\ Cardinality(Produced(s)) \in Nat
          /\ fillerN[s] + Cardinality(FillersIn(queue[s])) + Cardinality(HeldFillers(s)) <= Cardinality(Produced(s))
      BY <1>1, StockTyped DEF Stock
    <3>3. FillersIn(queue'[s]) = FillersIn(Tail(queue[s]))
      BY <1>3
    <3> QED  BY <1>1, <1>4, <1>6, <1>7, <2>1, <2>2, <3>1, <3>2, <3>3, SMTT(30)
  <2>3. CASE z # s
    <3>1. HeldFillers(z)' = HeldFillers(z)
      BY <1>1, <1>3, <2>3 DEF HeldFillers
    <3> QED  BY <1>3, <2>1, <2>3, <3>1, StockTyped DEF Stock
  <2> QED  BY <2>2, <2>3
<1> QED  BY <1>2, <1>8 DEF FillerCount

(* who counts it when it was shown,                                            *)
LEMMA CountShown ==
  ASSUME WorkInv, NEW c \in Events, mine[c] \in Starts, hand[c] # <<>> \/ fillerN' = fillerN,
         hand' = [hand EXCEPT ![c] = <<>>], UNCHANGED <<mine, put, queue, turnN>>,
         \/ fillerN' = fillerN
         \/ hand[c][1].kind = "filler" /\ fillerN' = [fillerN EXCEPT ![mine[c]] = @ + 1]
  PROVE  TurnCount' /\ FillerCount'
<1> DEFINE s == mine[c]
<1>1. TurnCount'
  BY DEF WorkInv, TurnCount, Numbered
<1>2. hand'[c] = <<>> /\ \A d \in Events \ {c} : hand'[d] = hand[d]
  BY DEF WorkInv, TypeOK
<1>3. HeldFillers(s)' = HeldFillers(s) \ {c}
  BY <1>2 DEF HeldFillers
<1>4. /\ IsFiniteSet(HeldFillers(s)) /\ Cardinality(HeldFillers(s)) \in Nat
      /\ Cardinality(HeldFillers(s)') = IF c \in HeldFillers(s) THEN Cardinality(HeldFillers(s)) - 1
                                        ELSE Cardinality(HeldFillers(s))
  BY <1>3, Finite, FS_RemoveElement
<1>5. c \in HeldFillers(s) \/ fillerN' = fillerN
  BY DEF HeldFillers
<1>6. ASSUME NEW z \in Starts
      PROVE  fillerN'[z] + Cardinality(FillersIn(queue'[z])) + Cardinality(HeldFillers(z)') <= Cardinality(Produced(z)')
  <2>1. Produced(z)' = Produced(z) /\ queue'[z] = queue[z]
    BY DEF Produced
  <2>2. CASE z = s
    <3>1. fillerN'[z] = fillerN[z] \/ (c \in HeldFillers(s) /\ fillerN'[z] = fillerN[z] + 1)
      BY <1>5, <2>2 DEF WorkInv, TypeOK
    <3> QED  BY <1>4, <2>1, <2>2, <3>1, StockTyped, SMTT(30) DEF Stock
  <2>3. CASE z # s
    <3>1. HeldFillers(z)' = HeldFillers(z)
      BY <1>2, <2>3 DEF HeldFillers
    <3>2. fillerN'[z] = fillerN[z]
      BY <2>3 DEF WorkInv, TypeOK
    <3> QED  BY <2>1, <3>1, <3>2, StockTyped DEF Stock
  <2> QED  BY <2>2, <2>3
<1> QED  BY <1>1, <1>6 DEF FillerCount

(* a turn puts a filler,                                                       *)
LEMMA CountFills ==
  ASSUME WorkInv, NEW c \in Events, TurnFills(c)
  PROVE  TurnCount' /\ FillerCount'
<1> DEFINE s == mine[c]
           x == Item("filler", Voice(turn[c], put[c] + 1))
           p == <<c, put[c] + 1>>
<1>1. /\ s \in Starts /\ c \in Messages /\ put[c] < MaxFillers /\ put[c] \in Nat /\ MaxFillers \in Nat
      /\ UNCHANGED <<mine, hand, fillerN, turnN>> /\ put' = [put EXCEPT ![c] = @ + 1]
      /\ queue' = [queue EXCEPT ![s] = Append(@, x)]
  BY WebAssumption DEF WorkInv, TypeOK, TasksInv, TasksOf, TurnFills, sessionVars, callVars, Messages
<1>2. TurnCount'
  BY <1>1 DEF WorkInv, TurnCount, Numbered
<1>3. x \in Items /\ x.kind = "filler"
  <2>1. turn[c] \in Turns /\ put[c] + 1 \in 0..(MaxFillers * Cardinality(Messages))
    <3>1. put[c] + 1 <= MaxFillers * Cardinality(Messages) /\ put[c] + 1 \in Nat
      BY <1>1, Bounds
    <3> QED  BY <3>1, Bounds DEF WorkInv, TypeOK
  <2> QED  BY <2>1, VoiceTyped, ItemTyped
<1>4. /\ queue'[s] = Append(queue[s], x) /\ \A z \in Starts \ {s} : queue'[z] = queue[z]
      /\ put'[c] = put[c] + 1 /\ \A d \in Events \ {c} : put'[d] = put[d]
  BY <1>1 DEF WorkInv, TypeOK
<1>5. Cardinality(FillersIn(queue'[s])) = Cardinality(FillersIn(queue[s])) + 1
  <2> HIDE DEF x
  <2> QED  BY <1>1, <1>3, <1>4, StockTyped, FillersAppend
<1>6. Produced(s)' = Produced(s) \cup {p}
  <2>1. ASSUME NEW d \in Messages, NEW k \in 1..MaxFillers
        PROVE  mine[d] = s /\ k <= put'[d] <=> (mine[d] = s /\ k <= put[d]) \/ (d = c /\ k = put[c] + 1)
    <3>1. put[d] \in Nat /\ d \in Events
      BY DEF WorkInv, TypeOK, Messages
    <3> QED  BY <1>1, <1>4, <3>1
  <2>2. p \in Messages \X (1..MaxFillers) /\ p[1] = c /\ p[2] = put[c] + 1
    BY <1>1
  <2>3. ASSUME NEW r \in Messages \X (1..MaxFillers)
        PROVE  r \in Produced(s)' <=> r \in Produced(s) \/ r = p
    <3>1. PICK d \in Messages, k \in 1..MaxFillers : r = <<d, k>>
      OBVIOUS
    <3>2. r[1] = d /\ r[2] = k
      BY <3>1
    <3>3. r = p <=> d = c /\ k = put[c] + 1
      BY <3>1
    <3> QED  BY <1>1, <2>1, <3>2, <3>3 DEF Produced
  <2> HIDE DEF p
  <2>4. \A r : r \in Produced(s)' => r \in Messages \X (1..MaxFillers)
    BY DEF Produced
  <2>5. \A r : r \in Produced(s) => r \in Messages \X (1..MaxFillers)
    BY DEF Produced
  <2> QED  BY <2>2, <2>3, <2>4, <2>5
<1>7. Cardinality(Produced(s)') = Cardinality(Produced(s)) + 1
  <2>1. p \notin Produced(s)
    BY <1>1 DEF Produced
  <2> HIDE DEF p
  <2> QED  BY <1>6, <2>1, Finite, FS_AddElement
<1>8. ASSUME NEW z \in Starts
      PROVE  fillerN'[z] + Cardinality(FillersIn(queue'[z])) + Cardinality(HeldFillers(z)') <= Cardinality(Produced(z)')
  <2>1. HeldFillers(z)' = HeldFillers(z) /\ fillerN'[z] = fillerN[z]
    BY <1>1 DEF HeldFillers
  <2>2. CASE z = s
    <3>1. /\ fillerN[s] \in Nat /\ Cardinality(FillersIn(queue[s])) \in Nat /\ Cardinality(Produced(s)) \in Nat
          /\ Cardinality(HeldFillers(s)) \in Nat
          /\ fillerN[s] + Cardinality(FillersIn(queue[s])) + Cardinality(HeldFillers(s)) <= Cardinality(Produced(s))
      BY <1>1, StockTyped DEF Stock
    <3> QED  BY <1>1, <1>5, <1>7, <2>1, <2>2, <3>1
  <2>3. CASE z # s
    <3>1. Produced(z)' = Produced(z)
      <4>1. ASSUME NEW r \in Messages \X (1..MaxFillers) PROVE r \in Produced(z)' <=> r \in Produced(z)
        <5>1. r[1] \in Events
          BY DEF Messages
        <5> QED  BY <1>1, <1>4, <2>3, <5>1 DEF Produced
      <4> QED  BY <4>1 DEF Produced
    <3> QED  BY <1>4, <2>1, <2>3, <3>1, StockTyped DEF Stock
  <2> QED  BY <2>2, <2>3
<1> QED  BY <1>2, <1>8 DEF FillerCount

(* and an event gets an incarnation.                                           *)
LEMMA CountJoin ==
  ASSUME WorkInv, NEW c \in Events, NEW s \in Starts, at[c] = "idle", mine[c] = None, mine' = [mine EXCEPT ![c] = s],
         UNCHANGED <<hand, put, queue, fillerN>>,
         \/ Kind[c] = "start" /\ turnN' = turnN
         \/ Kind[c] = "message" /\ turnN' = [turnN EXCEPT ![s] = @ + 1]
  PROVE  TurnCount' /\ FillerCount'
<1>1. /\ mine'[c] = s /\ (\A d \in Events \ {c} : mine'[d] = mine[d]) /\ None \notin Starts
      /\ hand[c] = <<>> /\ (Kind[c] = "message" => put[c] = 0)
  BY WebAssumption DEF WorkInv, TypeOK, TasksInv, TasksOf, Starts
<1>2. \A z \in Starts : HeldFillers(z)' = HeldFillers(z)
  BY <1>1 DEF HeldFillers
<1>3. ASSUME NEW z \in Starts PROVE Produced(z)' = Produced(z)
  <2>1. ASSUME NEW r \in Messages \X (1..MaxFillers) PROVE r \in Produced(z)' <=> r \in Produced(z)
    <3>1. r[1] \in Messages /\ r[1] \in Events /\ r[2] \in Nat /\ r[2] >= 1 /\ (r[1] = c => Kind[c] = "message")
      BY DEF Messages
    <3>2. CASE r[1] = c
      <4>1. ~(r[2] <= put[r[1]])
        BY <1>1, <3>1, <3>2
      <4> QED  BY <4>1 DEF Produced
    <3>3. CASE r[1] # c
      BY <1>1, <3>1, <3>3 DEF Produced
    <3> QED  BY <3>2, <3>3
  <2> QED  BY <2>1 DEF Produced
<1>4. FillerCount'
  BY <1>2, <1>3 DEF WorkInv, FillerCount
<1>5. ASSUME NEW z \in Starts PROVE turnN'[z] <= Cardinality(Numbered(z)')
  <2>1. turnN[z] \in Nat /\ turnN[z] <= Cardinality(Numbered(z)) /\ turnN[s] \in Nat
    BY Bounds DEF WorkInv, TypeOK, TurnCount, Turns
  <2>2. CASE Kind[c] = "message" /\ z = s
    <3>1. Numbered(z)' = Numbered(z) \cup {c} /\ c \notin Numbered(z)
      BY <1>1, <2>2 DEF Numbered, Messages
    <3>2. Cardinality(Numbered(z)') = Cardinality(Numbered(z)) + 1
      BY <3>1, Finite, FS_AddElement
    <3>3. turnN'[z] = turnN[z] + 1
      BY <2>2 DEF WorkInv, TypeOK
    <3> QED  BY <2>1, <3>2, <3>3, Finite
  <2>3. CASE ~(Kind[c] = "message" /\ z = s)
    <3>1. Numbered(z)' = Numbered(z)
      BY <1>1, <2>3 DEF Numbered, Messages
    <3>2. turnN'[z] = turnN[z]
      BY <2>3 DEF WorkInv, TypeOK
    <3> QED  BY <2>1, <3>1, <3>2
  <2> QED  BY <2>2, <2>3
<1> QED  BY <1>4, <1>5 DEF TurnCount

(* The lines of the locks; what the events have shown.                         *)
Lines == [Starts -> Seq(Events)]
Shown == [Events -> Seq(Items)]

(* The speech of a voice moves among the states it has.                        *)
LEMMA SpeechMoves ==
  ASSUME TypeOK, NEW s \in Starts, NEW v \in Voices,
         NEW k \in {"none", "made", "begun", "voiced", "over", "failed"}
  PROVE  [talk EXCEPT ![s][v] = k] \in [Starts -> [Voices -> {"none", "made", "begun", "voiced", "over", "failed"}]]
<1> DEFINE K == {"none", "made", "begun", "voiced", "over", "failed"}
<1>1. talk \in [Starts -> [Voices -> K]] /\ k \in K
  BY DEF TypeOK
<1> HIDE DEF K
<1>2. [talk EXCEPT ![s][v] = k] \in [Starts -> [Voices -> K]]
  BY <1>1
<1> QED  BY <1>2 DEF K

(* An iteration goes from point to point.                                      *)
LEMMA GoTyped ==
  ASSUME TypeOK, NEW c \in Events, NEW l \in Points, Go(c, l)
  PROVE  at' \in [Events -> Points]
BY DEF TypeOK, Go

(* web_session.py: what a speech that starts,                                  *)
LEMMA SpeakTyped ==
  ASSUME TypeOK, NEW s \in Starts, NEW v \in Voices, Speak(s, v)
  PROVE  /\ live' \in [Starts -> Voices \cup {None}] /\ flags' \subseteq Voices
         /\ talk' \in [Starts -> [Voices -> {"none", "made", "begun", "voiced", "over", "failed"}]]
<1>1. live' \in [Starts -> Voices \cup {None}] /\ flags' \subseteq Voices
  BY DEF TypeOK, Speak
<1>2. talk' \in [Starts -> [Voices -> {"none", "made", "begun", "voiced", "over", "failed"}]]
  BY SpeechMoves DEF TypeOK, Speak
<1> QED  BY <1>1, <1>2

(* an event that asks for the lock,                                            *)
LEMMA JoinTyped ==
  ASSUME TypeOK, NEW c \in Events, NEW s \in Starts, line' = [line EXCEPT ![s] = Append(@, c)]
  PROVE  line' \in Lines
<1>1. line \in Lines /\ \A l \in Seq(Events) : Append(l, c) \in Seq(Events)
  BY DEF TypeOK, Lines
<1> QED  BY <1>1 DEF Lines

(* one that leaves it,                                                         *)
LEMMA LeaveTyped ==
  ASSUME TypeOK, NEW c \in Events, Leave(c)
  PROVE  at' \in [Events -> Points] /\ line' \in Lines
<1>1. at' \in [Events -> Points]
  BY DEF TypeOK, Leave, Go, Points
<1>2. ASSUME NEW l \in Seq(Events) PROVE (IF l # <<>> /\ Head(l) = c THEN Tail(l) ELSE l) \in Seq(Events)
  OBVIOUS
<1>3. line \in Lines
  BY DEF TypeOK, Lines
<1>4. line' \in Lines
  BY <1>2, <1>3 DEF Leave, Lines
<1> QED  BY <1>1, <1>4

(* one that shows an item,                                                     *)
LEMMA YieldTyped ==
  ASSUME TypeOK, NEW c \in Events, NEW e \in Items, NEW l \in Points, Yield(c, e, l)
  PROVE  at' \in [Events -> Points] /\ line' \in Lines /\ out' \in Shown
<1>1. CASE Owns(c)
  <2>1. Go(c, l) /\ Show(c, e) /\ UNCHANGED line
    BY <1>1 DEF Yield
  <2>2. at \in [Events -> Points] /\ line \in Lines /\ out \in Shown
    BY DEF TypeOK, Lines, Shown
  <2>3. at' \in [Events -> Points]
    BY <2>1, <2>2 DEF Go
  <2>4. \A q \in Seq(Items) : Append(q, e) \in Seq(Items)
    OBVIOUS
  <2>5. out' \in Shown
    BY <2>1, <2>2, <2>4 DEF Show, Shown
  <2> QED  BY <2>1, <2>2, <2>3, <2>5
<1>2. CASE ~Owns(c)
  BY <1>2, LeaveTyped DEF TypeOK, Yield, Shown
<1> QED  BY <1>1, <1>2

(* a barge-in,                                                                 *)
LEMMA BargeTyped ==
  ASSUME TypeOK, NEW s \in Starts, NEW v \in Voices, BargeIn(s, v)
  PROVE  live' \in [Starts -> Voices \cup {None}] /\ flags' \subseteq Voices
<1>1. live \in [Starts -> Voices \cup {None}] /\ flags \subseteq Voices
  BY DEF TypeOK
<1>2. CASE tts
  <2>1. live' = [live EXCEPT ![s] = v] /\ flags' = flags \cup ({live[s]} \ {None, v})
    BY <1>2 DEF BargeIn, CancelLive
  <2>2. live[s] \in Voices \cup {None}
    BY <1>1
  <2>3. live' \in [Starts -> Voices \cup {None}]
    BY <1>1, <2>1
  <2> QED  BY <1>1, <2>1, <2>2, <2>3
<1>3. CASE ~tts
  BY <1>1, <1>3 DEF BargeIn, audioVars
<1> QED  BY <1>2, <1>3

(* the answer of a turn,                                                       *)
LEMMA AnswerTyped ==
  ASSUME TypeOK, NEW c \in Events
  PROVE  Answer(c) \in Voices /\ Answer(c).turn = turn[c] /\ Answer(c).part = 0
<1>1. turn[c] \in Turns /\ 0 \in 0..(MaxFillers * Cardinality(Messages))
  BY Bounds DEF TypeOK
<1> QED  BY <1>1, VoiceTyped DEF Answer

(* The voice of a filler that is shown is one of those the model has.          *)
LEMMA NextVoice ==
  ASSUME WorkInv, NEW c \in Events, mine[c] \in Starts, hand[c] # <<>>, hand[c][1].kind = "filler"
  PROVE  Voice(turn[c], fillerN[mine[c]] + 1) \in Voices
<1>1. c \in HeldFillers(mine[c])
  BY DEF HeldFillers
<1>2. Cardinality(HeldFillers(mine[c])) >= 1 /\ Cardinality(HeldFillers(mine[c])) \in Nat
  BY <1>1, Finite, FS_EmptySet
<1>3. fillerN[mine[c]] + 1 <= MaxFillers * Cardinality(Messages) /\ fillerN[mine[c]] \in Nat
  <2>1. /\ fillerN[mine[c]] \in Nat /\ Cardinality(FillersIn(queue[mine[c]])) \in Nat
        /\ Cardinality(Produced(mine[c])) \in Nat
        /\ Cardinality(Produced(mine[c])) <= MaxFillers * Cardinality(Messages)
        /\ fillerN[mine[c]] + Cardinality(FillersIn(queue[mine[c]])) + Cardinality(HeldFillers(mine[c]))
             <= Cardinality(Produced(mine[c]))
    BY StockTyped DEF Stock
  <2> QED  BY <1>2, <2>1, Bounds
<1>4. turn[c] \in Turns
  BY DEF WorkInv, TypeOK
<1>5. fillerN[mine[c]] + 1 \in 0..(MaxFillers * Cardinality(Messages))
  BY <1>3, Bounds
<1> QED  BY <1>4, <1>5, VoiceTyped

(* and the end of the wait change keeps its type.                              *)
LEMMA FinishTyped ==
  ASSUME TypeOK, NEW c \in Events, mine[c] \in Starts, NEW b, Finish(c, b)
  PROVE  /\ at' \in [Events -> Points] /\ line' \in Lines
         /\ live' \in [Starts -> Voices \cup {None}] /\ flags' \subseteq Voices
         /\ getting' \in [Events -> BOOLEAN]
<1>1. CASE task[c] = "raised"
  BY <1>1, LeaveTyped DEF TypeOK, Finish, audioVars
<1>2. CASE task[c] # "raised" /\ b
  BY <1>2, AnswerTyped, BargeTyped DEF TypeOK, Finish, Go, Points, Lines
<1>3. CASE task[c] # "raised" /\ ~b
  BY <1>3 DEF TypeOK, Finish, Go, Points, Lines, audioVars
<1> QED  BY <1>1, <1>2, <1>3

(* What Continue leaves alone and what it may change.                          *)
LEMMA ContinueTyped ==
  ASSUME WorkInv, NEW c \in Events, mine[c] \in Starts, hand[c] # <<>>, NEW b, Continue(c, b)
  PROVE  /\ at' \in [Events -> Points] /\ line' \in Lines
         /\ live' \in [Starts -> Voices \cup {None}] /\ flags' \subseteq Voices
         /\ getting' \in [Events -> BOOLEAN]
         /\ hand' \in [Events -> Seq(Items)] /\ fillerN' \in [Starts -> Nat]
         /\ filler' \in [Events -> Voices \cup {None}]
         /\ talk' \in [Starts -> [Voices -> {"none", "made", "begun", "voiced", "over", "failed"}]]
<1> DEFINE v == Voice(turn[c], fillerN[mine[c]] + 1)
<1>1. TypeOK
  BY DEF WorkInv
<1>2. /\ hand' = [hand EXCEPT ![c] = <<>>]
      /\ fillerN' = [fillerN EXCEPT ![mine[c]] = @ + 1] \/ fillerN' = fillerN
      /\ \/ hand[c][1].kind = "filler" /\ filler' = [filler EXCEPT ![c] = v] /\ talk' = [talk EXCEPT ![mine[c]][v] = "made"]
         \/ UNCHANGED <<filler, talk>>
      /\ \/ \E d : Finish(c, d)
         \/ getting' = [getting EXCEPT ![c] = ~Ended(c)] /\ Go(c, "wait") /\ UNCHANGED <<line, audioVars>>
  BY DEF Continue
<1>3. hand' \in [Events -> Seq(Items)]
  BY <1>1, <1>2 DEF TypeOK
<1>4. fillerN' \in [Starts -> Nat]
  <2>1. fillerN \in [Starts -> Nat] /\ fillerN[mine[c]] + 1 \in Nat
    BY <1>1 DEF TypeOK
  <2>2. fillerN' = [fillerN EXCEPT ![mine[c]] = fillerN[mine[c]] + 1] \/ fillerN' = fillerN
    BY <1>2
  <2>3. [fillerN EXCEPT ![mine[c]] = fillerN[mine[c]] + 1] \in [Starts -> Nat]
    BY <2>1
  <2> QED  BY <2>1, <2>2, <2>3
<1>5. hand[c][1].kind = "filler" => v \in Voices
  BY NextVoice
<1>6. /\ filler' \in [Events -> Voices \cup {None}]
      /\ talk' \in [Starts -> [Voices -> {"none", "made", "begun", "voiced", "over", "failed"}]]
  <2> DEFINE K == {"none", "made", "begun", "voiced", "over", "failed"}
  <2>1. filler \in [Events -> Voices \cup {None}] /\ talk \in [Starts -> [Voices -> K]] /\ "made" \in K
    BY <1>1 DEF TypeOK
  <2> HIDE DEF v, K
  <2>2. CASE UNCHANGED <<filler, talk>>
    BY <2>1, <2>2 DEF K
  <2>3. CASE /\ v \in Voices /\ filler' = [filler EXCEPT ![c] = v]
             /\ talk' = [talk EXCEPT ![mine[c]][v] = "made"]
    <3>1. filler' \in [Events -> Voices \cup {None}]
      BY <2>1, <2>3
    <3>2. talk' \in [Starts -> [Voices -> K]]
      BY <2>1, <2>3
    <3> QED  BY <3>1, <3>2 DEF K
  <2> QED  BY <1>2, <1>5, <2>2, <2>3
<1>7. /\ at' \in [Events -> Points] /\ line' \in Lines
      /\ live' \in [Starts -> Voices \cup {None}] /\ flags' \subseteq Voices
      /\ getting' \in [Events -> BOOLEAN]
  <2>1. CASE \E d : Finish(c, d)
    BY <1>1, <2>1, FinishTyped
  <2>2. CASE getting' = [getting EXCEPT ![c] = ~Ended(c)] /\ Go(c, "wait") /\ UNCHANGED <<line, audioVars>>
    <3>1. (~Ended(c)) \in BOOLEAN
      BY DEF Ended
    <3> QED  BY <1>1, <2>2, <3>1 DEF TypeOK, Go, Points, Lines, audioVars
  <2> QED  BY <1>2, <2>1, <2>2
<1> QED  BY <1>3, <1>4, <1>6, <1>7

(* The iterations keep the types,                                              *)
LEMMA IterationTypes ==
  ASSUME OrderInv, WorkInv, NEW c \in Events, Iterate(c) \/ Disconnect(c)
  PROVE  TypeOK'
<1>0. TypeOK
  BY DEF WorkInv
<1>1. at[c] \in InLine \cup {"greeted"} => mine[c] \in Starts
  BY WebAssumption DEF OrderInv, LineInv, TurnInv, Starts
<1>2. CASE Greeted(c)
  <2>1. at[c] = "greeted"
    BY <1>2 DEF Greeted
  <2>2. at' \in [Events -> Points] /\ line' \in Lines
    <3>1. CASE Owns(c)
      <4>1. Kind[c] = "start" /\ c \in Starts /\ "lock" \in Points
        BY <2>1 DEF OrderInv, TurnInv, Starts, Points
      <4> QED  BY <1>0, <1>2, <3>1, <4>1, GoTyped, JoinTyped DEF Greeted
    <3>2. CASE ~Owns(c)
      BY <1>0, <1>2, <3>2, LeaveTyped DEF Greeted
    <3> QED  BY <3>1, <3>2
  <2> QED  BY <1>0, <1>2, <2>2 DEF Greeted, TypeOK, audioVars, Lines
<1>3. CASE SpeakGreeting(c)
  <2>1. /\ at' \in [Events -> Points] /\ line' \in Lines
        /\ live' \in [Starts -> Voices \cup {None}] /\ flags' \subseteq Voices
        /\ talk' \in [Starts -> [Voices -> {"none", "made", "begun", "voiced", "over", "failed"}]]
    <3>1. CASE Owns(c) /\ tts
      <4>1. Greeting \in Voices /\ c \in Starts /\ "speaking" \in Points
        BY <1>3, ItemTyped DEF SpeakGreeting, Starts, Points
      <4>2. Speak(c, Greeting) /\ Go(c, "speaking") /\ line' = line
        BY <1>3, <3>1 DEF SpeakGreeting
      <4> QED  BY <1>0, <4>1, <4>2, GoTyped, SpeakTyped DEF TypeOK, Lines
    <3>2. CASE ~(Owns(c) /\ tts)
      BY <1>0, <1>3, <3>2, LeaveTyped DEF SpeakGreeting, TypeOK, audioVars
    <3> QED  BY <3>1, <3>2
  <2> QED  BY <1>0, <1>3, <2>1 DEF SpeakGreeting, TypeOK, Lines
<1>4. CASE BeginTurn(c)
  <2>1. at' \in [Events -> Points] /\ line' \in Lines /\ getting' \in [Events -> BOOLEAN]
        /\ task' \in [Events -> {"none", "running", "quiet", "scripted", "generate", "raised"}]
    <3>1. CASE Owns(c)
      BY <1>0, <1>4, <3>1 DEF BeginTurn, TypeOK, Go, Lines, Points
    <3>2. CASE ~Owns(c)
      BY <1>0, <1>4, <3>2, LeaveTyped DEF BeginTurn, TypeOK
    <3> QED  BY <3>1, <3>2
  <2> QED  BY <1>0, <1>4, <2>1 DEF BeginTurn, TypeOK, audioVars, Lines
<1>5. CASE WakeWithItem(c) \/ Resume(c)
  <2>1. mine[c] \in Starts /\ hand[c] # <<>> /\ hand[c][1] \in Items
    BY <1>0, <1>1, <1>5 DEF WakeWithItem, Resume, WorkInv, TasksInv, TasksOf, TypeOK, InLine, Holding, Points
  <2>2. CASE /\ \E b : Continue(c, b)
             /\ UNCHANGED <<tts, registered, turnN, queue, mine, turn, task, put, out>>
    BY <1>0, <2>1, <2>2, ContinueTyped DEF TypeOK, Lines
  <2>3. CASE /\ \E l \in {"mid", "midEnded"} : Yield(c, hand[c][1], l)
             /\ UNCHANGED <<fillerN, audioVars, talk, getting, hand, filler>>
             /\ UNCHANGED <<tts, registered, turnN, queue, mine, turn, task, put>>
    <3>1. at' \in [Events -> Points] /\ line' \in Lines /\ out' \in Shown
      BY <1>0, <2>1, <2>3, YieldTyped DEF Points
    <3> QED  BY <1>0, <2>3, <3>1 DEF TypeOK, audioVars, Lines, Shown
  <2> QED  BY <1>5, <2>2, <2>3 DEF WakeWithItem, Resume
<1>6. CASE WakeAtEnd(c)
  <2>1. mine[c] \in Starts
    BY <1>1, <1>6 DEF WakeAtEnd, InLine, Holding, Points
  <2>2. \E b : Finish(c, b)
    BY <1>6 DEF WakeAtEnd
  <2>3. /\ at' \in [Events -> Points] /\ line' \in Lines
        /\ live' \in [Starts -> Voices \cup {None}] /\ flags' \subseteq Voices
        /\ getting' \in [Events -> BOOLEAN]
    BY <1>0, <2>1, <2>2, FinishTyped
  <2> QED  BY <1>0, <1>6, <2>3 DEF WakeAtEnd, TypeOK, Lines
<1>7. CASE FillerAwaited(c)
  <2>1. /\ at' \in [Events -> Points] /\ line' \in Lines
        /\ getting' \in [Events -> BOOLEAN] /\ hand' \in [Events -> Seq(Items)]
    <3>1. CASE talk[mine[c]][filler[c]] = "failed"
      BY <1>0, <1>7, <3>1, LeaveTyped DEF FillerAwaited, TypeOK
    <3>2. CASE talk[mine[c]][filler[c]] # "failed"
      <4>1. /\ Go(c, "drain") /\ "drain" \in Points /\ UNCHANGED line
            /\ getting' = [getting EXCEPT ![c] = FALSE] /\ hand' = [hand EXCEPT ![c] = <<>>]
        BY <1>7, <3>2 DEF FillerAwaited, Points
      <4>2. hand' \in [Events -> Seq(Items)] /\ getting' \in [Events -> BOOLEAN]
        BY <1>0, <4>1 DEF TypeOK
      <4> QED  BY <1>0, <4>1, <4>2, GoTyped DEF TypeOK, Lines
    <3> QED  BY <3>1, <3>2
  <2> QED  BY <1>0, <1>7, <2>1 DEF FillerAwaited, TypeOK, audioVars, Lines
<1>8. ASSUME NEW l \in Points, mine[c] \in Starts, queue[mine[c]] # <<>>, YieldItem(c, l)
      PROVE  /\ at' \in [Events -> Points] /\ line' \in Lines /\ out' \in Shown
             /\ queue' \in [Starts -> Seq(Items)]
  <2>1. queue[mine[c]] \in Seq(Items)
    BY <1>0, <1>8 DEF TypeOK
  <2>2. Head(queue[mine[c]]) \in Items /\ Tail(queue[mine[c]]) \in Seq(Items)
    BY <1>8, <2>1
  <2>3. queue' \in [Starts -> Seq(Items)]
    BY <1>0, <1>8, <2>2 DEF TypeOK, YieldItem
  <2>4. CASE Go(c, l) /\ UNCHANGED <<line, out>>
    BY <1>0, <1>8, <2>3, <2>4 DEF TypeOK, Go, Lines, Shown
  <2>5. CASE Yield(c, Head(queue[mine[c]]), l)
    BY <1>0, <1>8, <2>2, <2>3, <2>5, YieldTyped
  <2> QED  BY <1>8, <2>4, <2>5 DEF YieldItem
<1>9. CASE Drain(c)
  <2>1. mine[c] \in Starts /\ "drain" \in Points /\ queue[mine[c]] # <<>> /\ YieldItem(c, "drain")
    BY <1>1, <1>9 DEF Drain, InLine, Holding, Points
  <2> QED  BY <1>0, <1>8, <1>9, <2>1 DEF Drain, TypeOK, audioVars, Lines, Shown
<1>10. CASE Answered(c) \/ Generated(c) \/ SpeechFailed(c)
  <2>1. Item("error", Answer(c)) \in Items /\ Item("response", Answer(c)) \in Items
    BY <1>0, AnswerTyped, ItemTyped
  <2>2. /\ \/ \E e \in {Item("error", Answer(c)), Item("response", Answer(c))}, l \in Points : Yield(c, e, l)
           \/ Go(c, "generating") /\ UNCHANGED <<line, out>>
        /\ UNCHANGED <<tts, registered, turnN, fillerN, queue, audioVars, talk, mine, turn, task,
                       put, getting, hand, filler>>
    BY <1>10 DEF Answered, Generated, SpeechFailed, Points
  <2>3. at' \in [Events -> Points] /\ line' \in Lines /\ out' \in Shown
    <3>1. CASE \E e \in {Item("error", Answer(c)), Item("response", Answer(c))}, l \in Points : Yield(c, e, l)
      BY <1>0, <2>1, <3>1, YieldTyped
    <3>2. CASE Go(c, "generating") /\ UNCHANGED <<line, out>>
      BY <1>0, <3>2 DEF TypeOK, Go, Points, Lines, Shown
    <3> QED  BY <2>2, <3>1, <3>2
  <2> QED  BY <1>0, <2>2, <2>3 DEF TypeOK, audioVars, Lines, Shown
<1>11. CASE SpeakAnswer(c)
  <2>1. /\ at' \in [Events -> Points] /\ line' \in Lines
        /\ live' \in [Starts -> Voices \cup {None}] /\ flags' \subseteq Voices
        /\ talk' \in [Starts -> [Voices -> {"none", "made", "begun", "voiced", "over", "failed"}]]
    <3>1. CASE Owns(c) /\ tts
      <4>1. Speak(mine[c], Answer(c)) /\ Go(c, "speaking") /\ line' = line /\ mine[c] \in Starts /\ "speaking" \in Points
        BY <1>1, <1>11, <3>1 DEF SpeakAnswer, InLine, Holding, Points
      <4> QED  BY <1>0, <4>1, AnswerTyped, GoTyped, SpeakTyped DEF TypeOK, Lines
    <3>2. CASE ~(Owns(c) /\ tts)
      BY <1>0, <1>11, <3>2, LeaveTyped DEF SpeakAnswer, TypeOK, audioVars
    <3> QED  BY <3>1, <3>2
  <2> QED  BY <1>0, <1>11, <2>1 DEF SpeakAnswer, TypeOK, Lines
<1>12. CASE EmitAudio(c)
  <2>1. mine[c] \in Starts /\ "emit" \in Points
    BY <1>1, <1>12 DEF EmitAudio, SpeechOver, InLine, Holding, Points
  <2>2. /\ at' \in [Events -> Points] /\ line' \in Lines /\ out' \in Shown
        /\ queue' \in [Starts -> Seq(Items)]
    <3>1. CASE Owns(c) /\ queue[mine[c]] # <<>>
      BY <1>8, <1>12, <2>1, <3>1 DEF EmitAudio
    <3>2. CASE ~(Owns(c) /\ queue[mine[c]] # <<>>)
      BY <1>0, <1>12, <3>2, LeaveTyped DEF EmitAudio, TypeOK, Shown
    <3> QED  BY <3>1, <3>2
  <2> QED  BY <1>0, <1>12, <2>2 DEF EmitAudio, TypeOK, audioVars, Lines, Shown
<1>13. CASE Close(c) \/ Disconnect(c)
  <2>1. at' \in [Events -> Points] /\ line' \in Lines
    BY <1>0, <1>13, LeaveTyped DEF Close, Disconnect
  <2> QED  BY <1>0, <1>13, <2>1 DEF Close, Disconnect, TypeOK, audioVars, Lines
<1> QED  BY <1>2, <1>3, <1>4, <1>5, <1>6, <1>7, <1>9, <1>10, <1>11, <1>12, <1>13 DEF Iterate

(* so do the events that come in,                                              *)
LEMMA OpenTypes ==
  ASSUME OrderInv, WorkInv, NEW c \in Events, Refused(c) \/ Start(c) \/ End(c) \/ Message(c)
  PROVE  TypeOK'
<1>0. TypeOK
  BY DEF WorkInv
<1>1. ASSUME NEW e \in Items, Show(c, e) PROVE out' \in Shown
  <2>1. out \in Shown /\ \A q \in Seq(Items) : Append(q, e) \in Seq(Items)
    BY <1>0 DEF TypeOK, Shown
  <2> QED  BY <1>1, <2>1 DEF Show, Shown
<1>2. Item("error", Greeting) \in Items /\ Item("greeting", Greeting) \in Items
  BY ItemTyped
<1>3. CASE Refused(c)
  <2>1. out' \in Shown
    BY <1>1, <1>2, <1>3 DEF Refused
  <2> QED  BY <1>0, <1>3, <2>1 DEF Refused, TypeOK, Go, Points, audioVars, Shown
<1>4. CASE Start(c)
  <2>1. out' \in Shown
    BY <1>1, <1>2, <1>4 DEF Start
  <2>2. registered' \in Starts \cup {None} /\ mine' \in [Events -> Starts \cup {None}] /\ at' \in [Events -> Points]
    <3>1. /\ \/ registered' = c /\ mine' = [mine EXCEPT ![c] = c]
             \/ UNCHANGED <<registered, mine>>
          /\ Go(c, "over") \/ Go(c, "greeted")
          /\ c \in Starts /\ {"over", "greeted"} \subseteq Points
      BY <1>4 DEF Start, Starts, Points
    <3>2. registered \in Starts \cup {None} /\ mine \in [Events -> Starts \cup {None}]
      BY <1>0 DEF TypeOK
    <3> QED  BY <1>0, <3>1, <3>2, GoTyped
  <2> QED  BY <1>0, <1>4, <2>1, <2>2 DEF Start, TypeOK, audioVars, Shown
<1>5. CASE End(c)
  <2>1. live' \in [Starts -> Voices \cup {None}] /\ flags' \subseteq Voices
    <3>1. live \in [Starts -> Voices \cup {None}] /\ flags \subseteq Voices /\ registered \in Starts \cup {None}
      BY <1>0 DEF TypeOK
    <3>2. CASE registered = None
      BY <1>5, <3>1, <3>2 DEF End, audioVars
    <3>3. CASE registered # None
      <4>1. live' = [live EXCEPT ![registered] = None] /\ flags' = flags \cup ({live[registered]} \ {None, None})
        BY <1>5, <3>3 DEF End, CancelLive
      <4>2. live[registered] \in Voices \cup {None}
        BY <3>1, <3>3
      <4>3. live' \in [Starts -> Voices \cup {None}]
        BY <3>1, <4>1
      <4> QED  BY <3>1, <4>1, <4>2, <4>3
    <3> QED  BY <3>2, <3>3
  <2> QED  BY <1>0, <1>5, <2>1 DEF End, TypeOK, Go, Points
<1>6. CASE Message(c)
  <2>1. CASE registered = None
    <3>1. out' \in Shown
      BY <1>1, <1>2, <1>6, <2>1 DEF Message
    <3> QED  BY <1>0, <1>6, <2>1, <3>1 DEF Message, TypeOK, Go, Points, audioVars, Shown
  <2>2. CASE registered # None
    <3> DEFINE s == registered
    <3>1. s \in Starts /\ c \in Messages /\ mine[c] = None /\ None \notin Starts
      BY <1>0, <1>6, <2>2, WebAssumption DEF Message, TypeOK, Messages, OrderInv, TurnInv, Starts
    <3>2. turnN[s] + 1 \in Turns
      <4>1. Numbered(s) \in SUBSET (Messages \ {c})
        BY <3>1 DEF Numbered
      <4>2. /\ IsFiniteSet(Messages \ {c}) /\ Cardinality(Messages \ {c}) = Cardinality(Messages) - 1
        BY <3>1, Bounds, FS_RemoveElement
      <4>3. Cardinality(Numbered(s)) <= Cardinality(Messages) - 1
        BY <4>1, <4>2, FS_Subset
      <4>4. turnN[s] <= Cardinality(Numbered(s)) /\ turnN[s] \in Nat
        BY <3>1, Bounds DEF WorkInv, TurnCount, TypeOK, Turns
      <4> QED  BY <4>3, <4>4, Bounds, Finite DEF Turns
    <3>3. Voice(turnN[s] + 1, 0) \in Voices
      BY <3>2, ItemTyped
    <3>4. live' \in [Starts -> Voices \cup {None}] /\ flags' \subseteq Voices
      BY <1>0, <1>6, <2>2, <3>1, <3>3, BargeTyped DEF Message
    <3>5. /\ mine' \in [Events -> Starts \cup {None}] /\ turnN' \in [Starts -> Turns] /\ turn' \in [Events -> Turns]
          /\ line' \in [Starts -> Seq(Events)] /\ at' \in [Events -> Points]
      <4>1. /\ mine' = [mine EXCEPT ![c] = s] /\ turnN' = [turnN EXCEPT ![s] = turnN[s] + 1]
            /\ turn' = [turn EXCEPT ![c] = turnN[s] + 1] /\ line' = [line EXCEPT ![s] = Append(@, c)]
            /\ Go(c, "lock") /\ "lock" \in Points
        BY <1>6, <2>2 DEF Message, Points
      <4>2. /\ mine \in [Events -> Starts \cup {None}] /\ turnN \in [Starts -> Turns] /\ turn \in [Events -> Turns]
        BY <1>0 DEF TypeOK
      <4>3. mine' \in [Events -> Starts \cup {None}] /\ turnN' \in [Starts -> Turns] /\ turn' \in [Events -> Turns]
        BY <3>1, <3>2, <4>1, <4>2
      <4> QED  BY <1>0, <3>1, <4>1, <4>3, GoTyped, JoinTyped DEF Lines
    <3> QED  BY <1>0, <1>6, <2>2, <3>4, <3>5 DEF Message, TypeOK
  <2> QED  BY <2>1, <2>2
<1> QED  BY <1>3, <1>4, <1>5, <1>6

(* and the tasks.                                                              *)
LEMMA TaskTypes ==
  ASSUME WorkInv, NEW c \in Events, Take(c) \/ TurnFills(c) \/ TurnEnds(c) \/ TurnRaises(c)
  PROVE  TypeOK'
<1>0. TypeOK
  BY DEF WorkInv
<1>1. CASE Take(c)
  <2>1. mine[c] \in Starts /\ queue[mine[c]] # <<>> /\ queue[mine[c]] \in Seq(Items)
    BY <1>0, <1>1 DEF Take, WorkInv, TasksInv, TasksOf, TypeOK
  <2>2. Head(queue[mine[c]]) \in Items /\ Tail(queue[mine[c]]) \in Seq(Items)
    BY <2>1
  <2>3. /\ hand' \in [Events -> Seq(Items)] /\ queue' \in [Starts -> Seq(Items)] /\ getting' \in [Events -> BOOLEAN]
    BY <1>0, <1>1, <2>1, <2>2 DEF Take, TypeOK
  <2> QED  BY <1>0, <1>1, <2>3 DEF Take, TypeOK, sessionVars, audioVars, callVars
<1>2. ASSUME NEW s \in Starts, NEW x \in Items, queue' = [queue EXCEPT ![s] = Append(@, x)]
      PROVE  queue' \in [Starts -> Seq(Items)]
  <2>1. queue \in [Starts -> Seq(Items)] /\ \A q \in Seq(Items) : Append(q, x) \in Seq(Items)
    BY <1>0 DEF TypeOK
  <2> QED  BY <1>2, <2>1
<1>3. CASE TurnFills(c)
  <2>1. /\ mine[c] \in Starts /\ c \in Messages /\ put[c] < MaxFillers /\ put[c] \in Nat /\ MaxFillers \in Nat
        /\ turn[c] \in Turns
    BY <1>0, <1>3, WebAssumption DEF WorkInv, TypeOK, TasksInv, TasksOf, TurnFills, Messages
  <2>2. put[c] + 1 \in 0..(MaxFillers * Cardinality(Messages)) /\ put[c] + 1 \in 0..MaxFillers
    BY <2>1, Bounds
  <2>3. Item("filler", Voice(turn[c], put[c] + 1)) \in Items
    BY <2>1, <2>2, VoiceTyped, ItemTyped
  <2>4. queue' \in [Starts -> Seq(Items)]
    BY <1>2, <1>3, <2>1, <2>3 DEF TurnFills
  <2>5. put' \in [Events -> 0..MaxFillers]
    BY <1>0, <1>3, <2>2 DEF TurnFills, TypeOK
  <2> QED  BY <1>0, <1>3, <2>4, <2>5 DEF TurnFills, TypeOK, sessionVars, audioVars, callVars
<1>4. CASE TurnEnds(c)
  <2>1. mine[c] \in Starts /\ Item("teardown", Answer(c)) \in Items
    BY <1>0, <1>4, AnswerTyped, ItemTyped DEF WorkInv, TasksInv, TasksOf, TurnEnds
  <2>2. queue' \in [Starts -> Seq(Items)]
    BY <1>0, <1>2, <1>4, <2>1 DEF TurnEnds, TypeOK
  <2>3. task' \in [Events -> {"none", "running", "quiet", "scripted", "generate", "raised"}]
    BY <1>0, <1>4 DEF TurnEnds, TypeOK
  <2> QED  BY <1>0, <1>4, <2>2, <2>3 DEF TurnEnds, TypeOK, sessionVars, audioVars, callVars
<1>5. CASE TurnRaises(c)
  BY <1>0, <1>5 DEF TurnRaises, TypeOK, sessionVars, audioVars, callVars
<1> QED  BY <1>1, <1>3, <1>4, <1>5

(* So does the speech, in every step.                                          *)
LEMMA SpeechTypes ==
  ASSUME WorkInv, NEW s \in Starts, NEW v \in Voices, Play(s, v) \/ FailSpeech(s, v)
  PROVE  TypeOK'
<1>0. TypeOK
  BY DEF WorkInv
<1>1. /\ talk' \in [Starts -> [Voices -> {"none", "made", "begun", "voiced", "over", "failed"}]]
  <2>1. \E k \in {"none", "made", "begun", "voiced", "over", "failed"} : talk' = [talk EXCEPT ![s][v] = k]
    BY DEF Play, StartFiller, Speak, Chunk, EndSpeech, FailSpeech
  <2> QED  BY <1>0, <2>1, SpeechMoves
<1>2. live' \in [Starts -> Voices \cup {None}] /\ flags' \subseteq Voices
  BY <1>0, ZenonT(40) DEF Play, StartFiller, Speak, Chunk, EndSpeech, FailSpeech, TypeOK, audioVars
<1>3. queue' \in [Starts -> Seq(Items)]
  <2>1. queue \in [Starts -> Seq(Items)] /\ Item("audio", v) \in Items
    BY <1>0, ItemTyped DEF TypeOK
  <2>2. queue' = queue \/ queue' = [queue EXCEPT ![s] = Append(@, Item("audio", v))]
    BY DEF Play, StartFiller, Speak, Chunk, EndSpeech, FailSpeech
  <2>3. \A q \in Seq(Items) : Append(q, Item("audio", v)) \in Seq(Items)
    BY <2>1
  <2> QED  BY <2>1, <2>2, <2>3
<1> QED  BY <1>0, <1>1, <1>2, <1>3
         DEF Play, StartFiller, Chunk, EndSpeech, FailSpeech, TypeOK, sessionVars, callVars

(* An iteration and its tasks stay as they are.                                *)
Same(d) ==
    /\ at'[d] = at[d] /\ mine'[d] = mine[d] /\ turn'[d] = turn[d] /\ task'[d] = task[d]
    /\ put'[d] = put[d] /\ getting'[d] = getting[d] /\ hand'[d] = hand[d]

(* What one iteration does leaves the tasks of the others as they are.         *)
LEMMA OthersKept ==
  ASSUME WorkInv, NEW c, \A d \in Events \ {c} : Same(d), c \in Events => TasksOf(c)'
  PROVE  TasksInv'
<1>1. ASSUME NEW d \in Events \ {c} PROVE TasksOf(d)'
  BY DEF WorkInv, TasksInv, TasksOf, Same
<1> QED  BY <1>1 DEF TasksInv

(* An iteration that leaves is over,                                           *)
LEMMA LeaveMoves ==
  ASSUME TypeOK, NEW c \in Events, Leave(c)
  PROVE  at'[c] = "over" /\ \A d \in Events \ {c} : at'[d] = at[d]
BY DEF TypeOK, Leave, Go

(* one that shows an item goes on or is over,                                  *)
LEMMA YieldMoves ==
  ASSUME TypeOK, NEW c \in Events, NEW e, NEW l, Yield(c, e, l)
  PROVE  at'[c] \in {l, "over"} /\ \A d \in Events \ {c} : at'[d] = at[d]
BY DEF TypeOK, Yield, Leave, Go

(* one whose wait ends awaits its filler, drains or is over,                   *)
LEMMA FinishMoves ==
  ASSUME TypeOK, NEW c \in Events, NEW b, Finish(c, b)
  PROVE  /\ at'[c] \in {"over", "awaitFiller", "drain"} /\ \A d \in Events \ {c} : at'[d] = at[d]
         /\ getting'[c] = getting[c] \/ getting'[c] = FALSE
         /\ \A d \in Events \ {c} : getting'[d] = getting[d]
BY DEF TypeOK, Finish, Leave, Go

(* and one that has shown or dropped its item waits on or finishes.            *)
LEMMA ContinueMoves ==
  ASSUME TypeOK, NEW c \in Events, NEW b, Continue(c, b)
  PROVE  /\ at'[c] \in {"over", "awaitFiller", "drain", "wait"} /\ \A d \in Events \ {c} : at'[d] = at[d]
         /\ hand'[c] = <<>> /\ \A d \in Events \ {c} : hand'[d] = hand[d]
         /\ \A d \in Events \ {c} : getting'[d] = getting[d]
<1>1. hand'[c] = <<>> /\ \A d \in Events \ {c} : hand'[d] = hand[d]
  BY DEF TypeOK, Continue
<1>2. \/ \E d : Finish(c, d)
      \/ getting' = [getting EXCEPT ![c] = ~Ended(c)] /\ Go(c, "wait")
  BY DEF Continue
<1> QED  BY <1>1, <1>2, FinishMoves DEF TypeOK, Go

(* The iterations keep what their tasks work with,                             *)
LEMMA IterationTasks ==
  ASSUME OrderInv, WorkInv, NEW c \in Events, Iterate(c) \/ Disconnect(c)
  PROVE  TasksInv'
<1>0. TypeOK /\ TasksOf(c)
  BY DEF WorkInv, TasksInv
<1>1. at[c] \in InLine \cup {"greeted"} => mine[c] \in Starts
  BY WebAssumption DEF OrderInv, LineInv, TurnInv, Starts
<1>2. {"wait", "mid", "midEnded", "awaitFiller", "drain", "generating", "respond", "speaking",
       "emit", "closing"} = Holding
  BY DEF Holding, Points
<1>3. CASE Greeted(c)
  <2>1. /\ at[c] = "greeted" /\ at'[c] \in {"over", "lock"} /\ \A d \in Events \ {c} : at'[d] = at[d]
        /\ UNCHANGED <<mine, turn, task, put, getting, hand>>
    BY <1>0, <1>3, LeaveMoves DEF Greeted, Go, TypeOK
  <2>2. Kind[c] = "start"
    BY <2>1 DEF OrderInv, TurnInv
  <2>3. TasksOf(c)'
    BY <1>0, <1>2, <2>1, <2>2 DEF TasksOf
  <2> QED  BY <2>1, <2>3, OthersKept DEF Same
<1>4. CASE SpeakGreeting(c)
  <2>1. /\ at'[c] \in {"over", "speaking"} /\ \A d \in Events \ {c} : at'[d] = at[d]
        /\ UNCHANGED <<mine, turn, task, put, getting, hand>>
    BY <1>0, <1>4, LeaveMoves DEF SpeakGreeting, Go, TypeOK
  <2>2. TasksOf(c)'
    BY <1>0, <1>2, <2>1 DEF TasksOf
  <2> QED  BY <2>1, <2>2, OthersKept DEF Same
<1>5. CASE BeginTurn(c)
  <2>1. /\ at[c] = "lock" /\ Kind[c] = "message" /\ \A d \in Events \ {c} : at'[d] = at[d]
        /\ UNCHANGED <<mine, turn, put, hand>>
        /\ \/ at'[c] = "over" /\ UNCHANGED <<task, getting>>
           \/ /\ at'[c] = "wait" /\ task'[c] = "running" /\ getting'[c] = TRUE
              /\ \A d \in Events \ {c} : task'[d] = task[d] /\ getting'[d] = getting[d]
    BY <1>0, <1>5, LeaveMoves DEF BeginTurn, HasLock, Go, TypeOK
  <2>2. mine[c] \in Starts
    BY <1>1, <2>1 DEF InLine
  <2>3. TasksOf(c)'
    BY <1>0, <1>2, <2>1, <2>2 DEF TasksOf
  <2> QED  BY <2>1, <2>3, OthersKept DEF Same
<1>6. CASE WakeWithItem(c) \/ Resume(c)
  <2>1. mine[c] \in Starts /\ Kind[c] = "message" /\ hand[c] # <<>> /\ ~getting[c]
    BY <1>0, <1>1, <1>2, <1>6 DEF WakeWithItem, Resume, TasksOf, InLine, Points
  <2>2. CASE /\ \E b : Continue(c, b)
             /\ UNCHANGED <<mine, turn, task, put>>
    <3>1. /\ at'[c] \in {"over", "awaitFiller", "drain", "wait"} /\ \A d \in Events \ {c} : at'[d] = at[d]
          /\ hand'[c] = <<>> /\ \A d \in Events \ {c} : hand'[d] = hand[d]
          /\ \A d \in Events \ {c} : getting'[d] = getting[d]
      BY <1>0, <2>2, ContinueMoves
    <3>2. TasksOf(c)'
      BY <1>0, <2>1, <2>2, <3>1 DEF TasksOf
    <3> QED  BY <2>2, <3>1, <3>2, OthersKept DEF Same
  <2>3. CASE /\ \E l \in {"mid", "midEnded"} : Yield(c, hand[c][1], l)
             /\ UNCHANGED <<getting, hand, mine, turn, task, put>>
    <3>1. at'[c] \in {"mid", "midEnded", "over"} /\ \A d \in Events \ {c} : at'[d] = at[d]
      BY <1>0, <2>3, YieldMoves
    <3>2. TasksOf(c)'
      BY <1>0, <2>1, <2>3, <3>1 DEF TasksOf
    <3> QED  BY <2>3, <3>1, <3>2, OthersKept DEF Same
  <2> QED  BY <1>6, <2>2, <2>3 DEF WakeWithItem, Resume
<1>7. CASE WakeAtEnd(c)
  <2>1. mine[c] \in Starts /\ Kind[c] = "message" /\ hand[c] = <<>>
    BY <1>0, <1>1, <1>2, <1>7 DEF WakeAtEnd, TasksOf, InLine, Points
  <2>2. (\E b : Finish(c, b)) /\ UNCHANGED <<mine, turn, task, put, hand>>
    BY <1>7 DEF WakeAtEnd
  <2>3. /\ at'[c] \in {"over", "awaitFiller", "drain"} /\ \A d \in Events \ {c} : at'[d] = at[d]
        /\ \A d \in Events \ {c} : getting'[d] = getting[d]
    BY <1>0, <2>2, FinishMoves
  <2>4. TasksOf(c)'
    BY <1>0, <2>1, <2>2, <2>3 DEF TasksOf
  <2> QED  BY <2>2, <2>3, <2>4, OthersKept DEF Same
<1>8. CASE FillerAwaited(c)
  <2>1. /\ at[c] = "awaitFiller" /\ UNCHANGED <<mine, turn, task, put>>
        /\ at'[c] \in {"over", "drain"} /\ \A d \in Events \ {c} : at'[d] = at[d]
        /\ \/ UNCHANGED <<getting, hand>>
           \/ /\ getting'[c] = FALSE /\ hand'[c] = <<>>
              /\ \A d \in Events \ {c} : getting'[d] = getting[d] /\ hand'[d] = hand[d]
    BY <1>0, <1>8, LeaveMoves DEF FillerAwaited, Go, TypeOK
  <2>2. TasksOf(c)'
    BY <1>0, <1>2, <2>1 DEF TasksOf
  <2> QED  BY <2>1, <2>2, OthersKept DEF Same
<1>9. ASSUME NEW l, YieldItem(c, l)
      PROVE  at'[c] \in {l, "over"} /\ \A d \in Events \ {c} : at'[d] = at[d]
  <2>1. Go(c, l) \/ \E e : Yield(c, e, l)
    BY <1>9 DEF YieldItem
  <2> QED  BY <1>0, <2>1, YieldMoves DEF Go, TypeOK
<1>10. ASSUME UNCHANGED <<mine, turn, task, put, getting, hand>>, \A d \in Events \ {c} : at'[d] = at[d],
              at'[c] \in {"over", "drain", "generating", "respond", "speaking", "emit", "closing"},
              at'[c] \in {"drain", "generating", "respond"} => at[c] \in {"drain", "generating", "respond"}
       PROVE  TasksInv'
  <2>1. TasksOf(c)'
    BY <1>0, <1>2, <1>10 DEF TasksOf
  <2> QED  BY <1>10, <2>1, OthersKept DEF Same
<1>11. CASE Drain(c)
  <2>1. at[c] = "drain" /\ YieldItem(c, "drain") /\ UNCHANGED <<mine, turn, task, put, getting, hand>>
    BY <1>11 DEF Drain
  <2> QED  BY <1>9, <1>10, <2>1
<1>12. CASE Answered(c) \/ Generated(c) \/ SpeechFailed(c)
  <2>1. /\ at[c] \in {"drain", "generating", "speaking"} /\ UNCHANGED <<mine, turn, task, put, getting, hand>>
        /\ \/ at[c] # "speaking" /\ \E e : Yield(c, e, "respond")
           \/ \E e : Yield(c, e, "closing")
           \/ at[c] = "drain" /\ Go(c, "generating")
    BY <1>12 DEF Answered, Generated, SpeechFailed, Drained
  <2>2. /\ \A d \in Events \ {c} : at'[d] = at[d]
        /\ at'[c] \in {"over", "closing"} \/ (at[c] # "speaking" /\ at'[c] \in {"respond", "generating"})
    BY <1>0, <2>1, YieldMoves DEF Go, TypeOK
  <2> QED  BY <1>10, <2>1, <2>2
<1>13. CASE SpeakAnswer(c)
  <2>1. /\ UNCHANGED <<mine, turn, task, put, getting, hand>>
        /\ at'[c] \in {"over", "speaking"} /\ \A d \in Events \ {c} : at'[d] = at[d]
    BY <1>0, <1>13, LeaveMoves DEF SpeakAnswer, Go, TypeOK
  <2> QED  BY <1>10, <2>1
<1>14. CASE EmitAudio(c)
  <2>1. /\ UNCHANGED <<mine, turn, task, put, getting, hand>>
        /\ at'[c] \in {"over", "emit"} /\ \A d \in Events \ {c} : at'[d] = at[d]
    BY <1>0, <1>9, <1>14, LeaveMoves DEF EmitAudio
  <2> QED  BY <1>10, <2>1
<1>15. CASE Close(c) \/ Disconnect(c)
  <2>1. /\ UNCHANGED <<mine, turn, task, put, getting, hand>>
        /\ at'[c] = "over" /\ \A d \in Events \ {c} : at'[d] = at[d]
    BY <1>0, <1>15, LeaveMoves DEF Close, Disconnect
  <2> QED  BY <1>10, <2>1
<1> QED  BY <1>3, <1>4, <1>5, <1>6, <1>7, <1>8, <1>11, <1>12, <1>13, <1>14, <1>15 DEF Iterate

(* so do the events that come in,                                              *)
LEMMA OpenTasks ==
  ASSUME OrderInv, WorkInv, NEW c \in Events, Refused(c) \/ Start(c) \/ End(c) \/ Message(c)
  PROVE  TasksInv'
<1>0. TypeOK /\ TasksOf(c) /\ at[c] = "idle" /\ mine[c] = None /\ None \notin Starts
  BY WebAssumption DEF WorkInv, TasksInv, OrderInv, TurnInv, Starts, Refused, Start, End, Message
<1>1. UNCHANGED <<task, put, getting, hand>>
  BY DEF Refused, Start, End, Message
<1>2. /\ at'[c] \in {"over", "greeted", "lock"} /\ \A d \in Events \ {c} : at'[d] = at[d]
      /\ at'[c] = "lock" => Kind[c] = "message"
  BY <1>0 DEF Refused, Start, End, Message, Go, TypeOK
<1>3. /\ \A d \in Events \ {c} : mine'[d] = mine[d] /\ turn'[d] = turn[d]
      /\ turn'[c] = turn[c] \/ Kind[c] = "message"
  BY <1>0 DEF Refused, Start, End, Message, TypeOK
<1>4. TasksOf(c)'
  BY <1>0, <1>1, <1>2, <1>3 DEF TasksOf, Holding
<1> QED  BY <1>1, <1>2, <1>3, <1>4, OthersKept DEF Same

(* the tasks themselves                                                        *)
LEMMA TaskTasks ==
  ASSUME WorkInv, NEW c \in Events, Take(c) \/ TurnFills(c) \/ TurnEnds(c) \/ TurnRaises(c)
  PROVE  TasksInv'
<1>0. TypeOK /\ TasksOf(c)
  BY DEF WorkInv, TasksInv
<1>1. UNCHANGED <<at, mine, turn>>
  BY DEF Take, TurnFills, TurnEnds, TurnRaises, callVars
<1>2. CASE Take(c)
  <2>1. /\ UNCHANGED <<task, put>> /\ getting[c] /\ getting'[c] = FALSE /\ hand'[c] # <<>>
        /\ \A d \in Events \ {c} : getting'[d] = getting[d] /\ hand'[d] = hand[d]
    BY <1>0, <1>2 DEF Take, TypeOK
  <2>2. TasksOf(c)'
    <3>1. at[c] \notin {"idle", "lock"} \/ Kind[c] # "message"
      BY <1>0, <2>1 DEF TasksOf
    <3> QED  BY <1>0, <1>1, <2>1, <3>1 DEF TasksOf
  <2> QED  BY <1>1, <2>1, <2>2, OthersKept DEF Same
<1>3. CASE TurnFills(c)
  <2>1. /\ UNCHANGED <<task, getting, hand>> /\ task[c] = "running" /\ \A d \in Events \ {c} : put'[d] = put[d]
    BY <1>0, <1>3 DEF TurnFills, TypeOK
  <2>2. TasksOf(c)'
    BY <1>0, <1>1, <2>1 DEF TasksOf
  <2> QED  BY <1>1, <2>1, <2>2, OthersKept DEF Same
<1>4. CASE TurnEnds(c) \/ TurnRaises(c)
  <2>1. /\ UNCHANGED <<put, getting, hand>> /\ task[c] = "running" /\ task'[c] # "running"
        /\ \A d \in Events \ {c} : task'[d] = task[d]
    BY <1>0, <1>4 DEF TurnEnds, TurnRaises, TypeOK
  <2>2. TasksOf(c)'
    BY <1>0, <1>1, <2>1 DEF TasksOf
  <2> QED  BY <1>1, <2>1, <2>2, OthersKept DEF Same
<1> QED  BY <1>2, <1>3, <1>4

(* and the speech.                                                             *)
LEMMA SpeechTasks ==
  ASSUME WorkInv, NEW s, NEW v, Play(s, v) \/ FailSpeech(s, v) \/ UNCHANGED vars
  PROVE  TasksInv'
<1>1. UNCHANGED <<at, mine, turn, task, put, getting, hand>>
  BY DEF Play, StartFiller, Chunk, EndSpeech, FailSpeech, callVars, vars
<1>2. \A d \in Events : Same(d) /\ TasksOf(d)
  BY <1>1 DEF Same, WorkInv, TasksInv
<1> QED  BY <1>1, <1>2 DEF TasksInv, TasksOf

(* At the start nothing is numbered, put or held.                              *)
LEMMA WorkInit == Init => WorkInv
<1> SUFFICES ASSUME Init PROVE WorkInv
  OBVIOUS
<1>0. 0 \in Turns /\ \A s : Cardinality(Numbered(s)) \in Nat /\ Cardinality(Produced(s)) \in Nat
  BY Bounds, Finite DEF Turns
<1>1. TypeOK
  BY <1>0, WebAssumption DEF Init, TypeOK, Points
<1>2. TasksInv
  BY DEF Init, TasksInv, TasksOf, Holding
<1>3. TurnCount
  BY <1>0 DEF Init, TurnCount
<1>4. FillerCount
  <2> SUFFICES ASSUME NEW s \in Starts
               PROVE  fillerN[s] + Cardinality(FillersIn(queue[s])) + Cardinality(HeldFillers(s)) <= Cardinality(Produced(s))
    BY DEF FillerCount
  <2>1. fillerN[s] = 0 /\ queue[s] = <<>> /\ \A c \in Events : hand[c] = <<>>
    BY DEF Init
  <2>2. FillersIn(queue[s]) = {} /\ HeldFillers(s) = {}
    <3>1. Len(queue[s]) = 0
      BY <2>1
    <3> QED  BY <2>1, <3>1 DEF FillersIn, HeldFillers
  <2>3. Cardinality(FillersIn(queue[s])) = 0 /\ Cardinality(HeldFillers(s)) = 0
    BY <2>2, FS_EmptySet
  <2> QED  BY <1>0, <2>1, <2>3
<1> QED  BY <1>1, <1>2, <1>3, <1>4 DEF WorkInv

(* Every step keeps the counts,                                                *)
LEMMA CountStep ==
  ASSUME OrderInv, WorkInv, [Next]_vars
  PROVE  TurnCount' /\ FillerCount'
<1>0. TypeOK /\ TasksInv
  BY DEF WorkInv
<1>1. ASSUME NEW c \in Events, Refused(c) \/ Start(c) \/ End(c) \/ Message(c)
      PROVE  TurnCount' /\ FillerCount'
  <2>1. UNCHANGED <<hand, put, queue, fillerN>> /\ at[c] = "idle" /\ mine[c] = None
    BY <1>1 DEF Refused, Start, End, Message, OrderInv, TurnInv
  <2>2. \/ UNCHANGED <<mine, turnN>>
        \/ Kind[c] = "start" /\ c \in Starts /\ mine' = [mine EXCEPT ![c] = c] /\ turnN' = turnN
        \/ /\ Kind[c] = "message" /\ registered \in Starts /\ mine' = [mine EXCEPT ![c] = registered]
           /\ turnN' = [turnN EXCEPT ![registered] = @ + 1]
    BY <1>0, <1>1 DEF Refused, Start, End, Message, Starts, TypeOK
  <2> QED  BY <2>1, <2>2, CountSame, CountJoin
<1>2. ASSUME NEW c \in Events, Iterate(c) \/ Disconnect(c)
      PROVE  TurnCount' /\ FillerCount'
  <2>1. /\ UNCHANGED <<mine, put, turnN>>
        /\ at[c] \in InLine => mine[c] \in Starts
    BY <1>2 DEF Iterate, Greeted, SpeakGreeting, BeginTurn, WakeWithItem, Resume, WakeAtEnd, FillerAwaited,
                Drain, Answered, Generated, SpeakAnswer, SpeechFailed, EmitAudio, Close, Disconnect, OrderInv, LineInv
  <2>2. CASE UNCHANGED <<hand, queue, fillerN>>
    BY <2>1, <2>2, CountSame
  <2>3. CASE WakeWithItem(c) \/ Resume(c)
    <3>1. mine[c] \in Starts /\ hand[c] # <<>> /\ queue' = queue
      BY <1>0, <2>1, <2>3 DEF WakeWithItem, Resume, TasksInv, TasksOf, InLine, Holding, Points
    <3>2. UNCHANGED <<fillerN, hand>> \/ \E b : Continue(c, b)
      BY <2>3 DEF WakeWithItem, Resume
    <3>3. ASSUME NEW b, Continue(c, b)
          PROVE  /\ hand' = [hand EXCEPT ![c] = <<>>]
                 /\ \/ fillerN' = fillerN
                    \/ hand[c][1].kind = "filler" /\ fillerN' = [fillerN EXCEPT ![mine[c]] = @ + 1]
      BY <3>3 DEF Continue
    <3> QED  BY <2>1, <3>1, <3>2, <3>3, CountSame, CountShown
  <2>4. CASE FillerAwaited(c)
    <3>1. mine[c] \in Starts /\ UNCHANGED <<queue, fillerN>>
      BY <2>1, <2>4 DEF FillerAwaited, InLine, Holding, Points
    <3>2. hand' = hand \/ hand' = [hand EXCEPT ![c] = <<>>]
      BY <2>4 DEF FillerAwaited
    <3> QED  BY <2>1, <3>1, <3>2, CountSame, CountShown
  <2>5. CASE Drain(c) \/ EmitAudio(c)
    <3>1. mine[c] \in Starts /\ UNCHANGED <<hand, fillerN>>
      BY <2>1, <2>5 DEF Drain, EmitAudio, SpeechOver, InLine, Holding, Points
    <3>2. UNCHANGED queue \/ (queue[mine[c]] # <<>> /\ queue' = [queue EXCEPT ![mine[c]] = Tail(@)])
      BY <2>5 DEF Drain, EmitAudio, YieldItem
    <3> QED  BY <2>1, <3>1, <3>2, CountSame, CountRead
  <2>6. \/ WakeWithItem(c) \/ Resume(c) \/ FillerAwaited(c) \/ Drain(c) \/ EmitAudio(c)
        \/ UNCHANGED <<hand, queue, fillerN>>
    BY <1>2 DEF Iterate, Greeted, SpeakGreeting, BeginTurn, WakeAtEnd,
                Answered, Generated, SpeakAnswer, SpeechFailed, Close, Disconnect
  <2> QED  BY <2>2, <2>3, <2>4, <2>5, <2>6
<1>3. ASSUME NEW c \in Events, TurnEnds(c) \/ TurnRaises(c)
      PROVE  TurnCount' /\ FillerCount'
  <2>1. UNCHANGED <<mine, hand, put, fillerN, turnN>> /\ mine[c] \in Starts
    BY <1>0, <1>3 DEF TurnEnds, TurnRaises, sessionVars, callVars, TasksInv, TasksOf
  <2>2. Item("teardown", Answer(c)) \in Items /\ Item("teardown", Answer(c)).kind # "filler"
    BY <1>0, AnswerTyped, ItemTyped
  <2>3. UNCHANGED queue \/ queue' = [queue EXCEPT ![mine[c]] = Append(@, Item("teardown", Answer(c)))]
    BY <1>3 DEF TurnEnds, TurnRaises
  <2> QED  BY <2>1, <2>2, <2>3, CountSame, CountPut
<1>4. ASSUME NEW s \in Starts, NEW v \in Voices, Play(s, v) \/ FailSpeech(s, v)
      PROVE  TurnCount' /\ FillerCount'
  <2>1. UNCHANGED <<mine, hand, put, fillerN, turnN>>
    BY <1>4 DEF Play, StartFiller, Chunk, EndSpeech, FailSpeech, sessionVars, callVars
  <2>2. Item("audio", v) \in Items /\ Item("audio", v).kind # "filler"
    BY ItemTyped
  <2>3. UNCHANGED queue \/ queue' = [queue EXCEPT ![s] = Append(@, Item("audio", v))]
    BY <1>4 DEF Play, StartFiller, Chunk, EndSpeech, FailSpeech
  <2> QED  BY <2>1, <2>2, <2>3, CountSame, CountPut
<1>5. CASE UNCHANGED vars
  BY <1>5, CountSame DEF vars, sessionVars, callVars
<1> QED  BY <1>1, <1>2, <1>3, <1>4, <1>5, CountTake, CountFills DEF Next

(* and with them the types.                                                    *)
LEMMA WorkStep == OrderInv /\ WorkInv /\ [Next]_vars => WorkInv'
<1> SUFFICES ASSUME OrderInv, WorkInv, [Next]_vars PROVE WorkInv'
  OBVIOUS
<1>1. TurnCount' /\ FillerCount'
  BY CountStep
<1>2. TypeOK'
  <2>1. CASE UNCHANGED vars
    BY <2>1 DEF WorkInv, TypeOK, vars, sessionVars, audioVars, callVars
  <2> QED  BY <2>1, OpenTypes, IterationTypes, TaskTypes, SpeechTypes DEF Next
<1>3. TasksInv'
  BY OpenTasks, IterationTasks, TaskTasks, SpeechTasks DEF Next
<1> QED  BY <1>1, <1>2, <1>3 DEF WorkInv

(* web_session.py: turns and fillers are numbered once each, what a reader     *)
(* holds or a queue keeps was put by a turn, and the state keeps its types,    *)
(* for any number of events and whatever fails.                                *)
THEOREM WorkHolds == Spec => []WorkInv
BY OrderHolds, WorkInit, WorkStep, PTL DEF Spec

(* The invariant of the restart run, types and order of the answers, for every *)
(* number of events, incarnations and fillers and with every fault.            *)
THEOREM RestartHolds == Spec => []RestartInv
<1>1. OrderInv /\ WorkInv => RestartInv
  BY DEF OrderInv, Served, WorkInv, RestartInv, AnswersInOrder
<1> QED  BY <1>1, OrderHolds, WorkHolds, PTL

(* While a session is registered its running turn has the lock; a start that   *)
(* is still to come has no events.                                             *)
TurnsOf(c) ==
    /\ task[c] = "running" /\ registered = mine[c] => at[c] \in {"wait", "mid"}
    /\ at[c] \in {"wait", "mid"} => task[c] # "none"
    /\ at[c] \in Holding \ {"wait", "mid"} /\ Kind[c] = "message" => Ended(c)
    /\ at[c] = "idle" /\ Kind[c] = "start" => registered # c /\ \A d \in Events : mine[d] # c

(* No two turns of a session run, and why.                                     *)
TurnsInv == OneTurnAtATime /\ \A c \in Events : TurnsOf(c)

(* Two iterations of a session do not both have its lock.                      *)
LEMMA OneHolder ==
  ASSUME OrderInv, NEW c \in Events, NEW d \in Events, mine[c] = mine[d],
         at[c] \in Holding, at[d] \in Holding \/ (at[d] = "lock" /\ Head(line[mine[d]]) = d)
  PROVE  c = d
<1>1. mine[c] \in Starts /\ line[mine[c]] \in Seq(Events) /\ line[mine[c]][1] = c
  BY DEF OrderInv, WebTypes, LineInv, InLine
<1>2. line[mine[c]] # <<>>
  <2>1. \E i \in 1..Len(line[mine[c]]) : line[mine[c]][i] = c
    BY DEF OrderInv, LineInv, InLine
  <2> QED  BY <1>1, <2>1
<1>3. line[mine[c]][1] = d
  BY <1>1, <1>2 DEF OrderInv, LineInv
<1> QED  BY <1>1, <1>3

(* At the start no turn runs.                                                  *)
LEMMA TurnsInit == Init => TurnsInv
<1> SUFFICES ASSUME Init PROVE TurnsInv
  OBVIOUS
<1>1. \A c \in Events : at[c] = "idle" /\ task[c] = "none" /\ mine[c] = None /\ registered = None
  BY DEF Init
<1> QED  BY <1>1, WebAssumption DEF TurnsInv, OneTurnAtATime, TurnsOf, Holding, Messages

(* Iterations of which nothing changes.                                        *)
LEMMA TurnsKept ==
  ASSUME TurnsInv, NEW c, UNCHANGED <<registered, mine>>,
         \A d \in Events \ {c} : at'[d] = at[d] /\ task'[d] = task[d],
         c \in Events => TurnsOf(c)' /\ (task'[c] = "running" => task[c] = "running")
  PROVE  TurnsInv'
<1>1. ASSUME NEW d \in Events \ {c} PROVE TurnsOf(d)'
  BY DEF TurnsInv, TurnsOf, Ended
<1>2. OneTurnAtATime'
  BY DEF TurnsInv, OneTurnAtATime, Messages
<1> QED  BY <1>1, <1>2 DEF TurnsInv

(* The iterations: a turn begins behind the lock and its lock is kept while    *)
(* it runs.                                                                    *)
LEMMA IterationTurns ==
  ASSUME OrderInv, WorkInv, TurnsInv, NEW c \in Events, Iterate(c)
  PROVE  TurnsInv'
<1>0. TypeOK /\ TurnsOf(c) /\ TasksOf(c)
  BY DEF WorkInv, TurnsInv, TasksInv
<1>1. UNCHANGED <<registered, mine>>
  BY DEF Iterate, Greeted, SpeakGreeting, BeginTurn, WakeWithItem, Resume, WakeAtEnd, FillerAwaited,
         Drain, Answered, Generated, SpeakAnswer, SpeechFailed, EmitAudio, Close
<1>2. {"wait", "mid", "midEnded", "awaitFiller", "drain", "generating", "respond", "speaking",
       "emit", "closing"} = Holding
  BY DEF Holding, Points
<1>3. ASSUME task' = task, \A d \in Events \ {c} : at'[d] = at[d],
             at'[c] \in {"lock", "over"} \cup (Holding \ {"wait", "mid"}),
             task[c] = "running" => registered # mine[c],
             at'[c] \in Holding /\ Kind[c] = "message" => Ended(c)
      PROVE  TurnsInv'
  <2>1. TurnsOf(c)'
    BY <1>1, <1>2, <1>3 DEF TurnsOf, Ended
  <2> QED  BY <1>1, <1>3, <2>1, TurnsKept
<1>4. CASE Greeted(c)
  <2>1. /\ at[c] = "greeted" /\ at'[c] \in {"over", "lock"} /\ (\A d \in Events \ {c} : at'[d] = at[d])
        /\ task' = task
    BY <1>0, <1>4, LeaveMoves DEF Greeted, Go, TypeOK
  <2>2. Kind[c] = "start"
    BY <2>1 DEF OrderInv, TurnInv
  <2> QED  BY <1>0, <1>2, <1>3, <2>1, <2>2 DEF TasksOf
<1>5. CASE SpeakGreeting(c)
  <2>1. /\ at[c] = "lock" /\ at'[c] \in {"over", "speaking"} /\ (\A d \in Events \ {c} : at'[d] = at[d])
        /\ task' = task /\ Kind[c] = "start"
    BY <1>0, <1>5, LeaveMoves DEF SpeakGreeting, Go, TypeOK
  <2> QED  BY <1>0, <1>2, <1>3, <2>1 DEF TasksOf
<1>6. CASE BeginTurn(c)
  <2>1. HasLock(c) /\ Kind[c] = "message" /\ c \in Messages /\ (\A d \in Events \ {c} : at'[d] = at[d])
    BY <1>0, <1>6, LeaveMoves DEF BeginTurn, Go, TypeOK, Messages
  <2>2. CASE ~Owns(c)
    <3>1. at'[c] = "over" /\ task' = task /\ registered # mine[c]
      BY <1>0, <1>6, <2>2, LeaveMoves DEF BeginTurn, Owns
    <3> QED  BY <1>2, <1>3, <2>1, <3>1
  <2>3. CASE Owns(c)
    <3>1. /\ at'[c] = "wait" /\ task'[c] = "running" /\ (\A d \in Events \ {c} : task'[d] = task[d])
          /\ registered = mine[c]
      BY <1>0, <1>6, <2>3 DEF BeginTurn, Owns, Go, TypeOK
    <3>2. TurnsOf(c)'
      BY <1>2, <3>1 DEF TurnsOf, Ended
    <3>3. ASSUME NEW d \in Events \ {c} PROVE TurnsOf(d)'
      BY <1>1, <2>1, <3>1 DEF TurnsInv, TurnsOf, Ended
    <3>4. ASSUME NEW d \in Messages, task[d] = "running", mine[d] = mine[c] PROVE FALSE
      <4>1. d \in Events /\ at[d] \in {"wait", "mid"}
        BY <3>1, <3>4 DEF TurnsInv, TurnsOf, Messages
      <4>2. c = d
        BY <1>2, <2>1, <3>4, <4>1, OneHolder DEF HasLock
      <4> QED  BY <2>1, <4>1, <4>2 DEF HasLock
    <3>5. OneTurnAtATime'
      BY <1>1, <2>1, <3>1, <3>4 DEF TurnsInv, OneTurnAtATime, Messages
    <3> QED  BY <3>2, <3>3, <3>5 DEF TurnsInv
  <2> QED  BY <2>2, <2>3
<1>7. ASSUME NEW b, Continue(c, b), b => Ended(c), at[c] \in {"wait", "mid", "midEnded"}, task' = task
      PROVE  TurnsInv'
  <2>1. \A d \in Events \ {c} : at'[d] = at[d]
    BY <1>0, <1>7, ContinueMoves
  <2>2. CASE b
    <3>1. at'[c] \in {"over", "awaitFiller", "drain"}
      <4>1. \E d : Finish(c, d)
        BY <1>7, <2>2 DEF Continue
      <4> QED  BY <1>0, <4>1, FinishMoves
    <3> QED  BY <1>2, <1>3, <1>7, <2>1, <2>2, <3>1 DEF Ended
  <2>3. CASE ~b
    <3>1. at'[c] = "wait"
      BY <1>0, <1>7, <2>3 DEF Continue, Go, TypeOK
    <3>2. task[c] # "none"
      BY <1>0, <1>2, <1>7 DEF TurnsOf, TasksOf, Ended
    <3>3. TurnsOf(c)'
      BY <1>1, <1>2, <1>7, <3>1, <3>2 DEF TurnsOf
    <3> QED  BY <1>1, <1>7, <2>1, <3>3, TurnsKept
  <2> QED  BY <2>2, <2>3
<1>8. CASE WakeWithItem(c)
  <2>1. at[c] = "wait" /\ task' = task
    BY <1>8 DEF WakeWithItem
  <2>2. CASE Continue(c, Ended(c))
    BY <1>7, <2>1, <2>2
  <2>3. CASE Yield(c, hand[c][1], IF Ended(c) THEN "midEnded" ELSE "mid")
    <3>1. \A d \in Events \ {c} : at'[d] = at[d]
      BY <1>0, <2>3, YieldMoves
    <3>2. CASE ~Owns(c)
      <4>1. at'[c] = "over" /\ registered # mine[c]
        BY <1>0, <2>3, <3>2, LeaveMoves DEF Yield, Owns
      <4> QED  BY <1>2, <1>3, <2>1, <3>1, <4>1
    <3>3. CASE Owns(c)
      <4>1. at'[c] = (IF Ended(c) THEN "midEnded" ELSE "mid")
        BY <1>0, <2>3, <3>3 DEF Yield, Go, TypeOK
      <4>2. task[c] # "none"
        BY <1>0, <2>1 DEF TurnsOf
      <4>3. TurnsOf(c)'
        BY <1>1, <2>1, <4>1, <4>2 DEF TurnsOf, Ended
      <4> QED  BY <1>1, <2>1, <3>1, <4>3, TurnsKept
    <3> QED  BY <3>2, <3>3
  <2> QED  BY <1>8, <2>2, <2>3 DEF WakeWithItem
<1>9. CASE Resume(c)
  <2>1. at[c] \in {"mid", "midEnded"} /\ task' = task /\ Continue(c, at[c] = "midEnded")
    BY <1>9 DEF Resume
  <2>2. at[c] = "midEnded" => Ended(c)
    BY <1>0, <1>2 DEF TurnsOf, TasksOf
  <2> QED  BY <1>7, <2>1, <2>2
<1>10. CASE WakeAtEnd(c)
  <2>1. task' = task /\ Ended(c) /\ at'[c] \in {"over", "awaitFiller", "drain"} /\ \A d \in Events \ {c} : at'[d] = at[d]
    <3>1. \E b : Finish(c, b)
      BY <1>10 DEF WakeAtEnd
    <3> QED  BY <1>0, <1>10, <3>1, FinishMoves DEF WakeAtEnd
  <2> QED  BY <1>2, <1>3, <2>1 DEF Ended
<1>11. ASSUME at[c] \in Holding \ {"wait", "mid"}, \A d \in Events \ {c} : at'[d] = at[d], task' = task,
              at'[c] \in {"over"} \cup (Holding \ {"wait", "mid"})
       PROVE  TurnsInv'
  <2>1. task[c] = "running" => Kind[c] = "message"
    BY <1>0 DEF TasksOf
  <2>2. Kind[c] = "message" => Ended(c)
    BY <1>0, <1>11 DEF TurnsOf
  <2> QED  BY <1>3, <1>11, <2>1, <2>2 DEF Ended
<1>12. CASE FillerAwaited(c)
  <2>1. /\ at[c] = "awaitFiller" /\ at'[c] \in {"over", "drain"} /\ (\A d \in Events \ {c} : at'[d] = at[d])
        /\ task' = task
    BY <1>0, <1>12, LeaveMoves DEF FillerAwaited, Go, TypeOK
  <2> QED  BY <1>2, <1>11, <2>1
<1>13. ASSUME NEW l, YieldItem(c, l)
      PROVE  at'[c] \in {l, "over"} /\ \A d \in Events \ {c} : at'[d] = at[d]
  <2>1. Go(c, l) \/ \E e : Yield(c, e, l)
    BY <1>13 DEF YieldItem
  <2> QED  BY <1>0, <2>1, YieldMoves DEF Go, TypeOK
<1>14. CASE Drain(c)
  <2>1. at[c] = "drain" /\ YieldItem(c, "drain") /\ task' = task
    BY <1>14 DEF Drain
  <2> QED  BY <1>2, <1>11, <1>13, <2>1
<1>15. CASE Answered(c) \/ Generated(c) \/ SpeechFailed(c)
  <2>1. /\ at[c] \in {"drain", "generating", "speaking"} /\ task' = task
        /\ \/ \E e : Yield(c, e, "respond")
           \/ \E e : Yield(c, e, "closing")
           \/ Go(c, "generating")
    BY <1>15 DEF Answered, Generated, SpeechFailed, Drained
  <2>2. (\A d \in Events \ {c} : at'[d] = at[d]) /\ at'[c] \in {"over", "closing", "respond", "generating"}
    BY <1>0, <2>1, YieldMoves DEF Go, TypeOK
  <2> QED  BY <1>2, <1>11, <2>1, <2>2
<1>16. CASE SpeakAnswer(c)
  <2>1. /\ at[c] = "respond" /\ task' = task
        /\ at'[c] \in {"over", "speaking"} /\ \A d \in Events \ {c} : at'[d] = at[d]
    BY <1>0, <1>16, LeaveMoves DEF SpeakAnswer, Go, TypeOK
  <2> QED  BY <1>2, <1>11, <2>1
<1>17. CASE EmitAudio(c)
  <2>1. /\ at[c] \in {"emit", "speaking"} /\ task' = task
        /\ at'[c] \in {"over", "emit"} /\ \A d \in Events \ {c} : at'[d] = at[d]
    BY <1>0, <1>13, <1>17, LeaveMoves DEF EmitAudio, SpeechOver
  <2> QED  BY <1>2, <1>11, <2>1
<1>18. CASE Close(c)
  <2>1. /\ at[c] = "closing" /\ task' = task
        /\ at'[c] = "over" /\ \A d \in Events \ {c} : at'[d] = at[d]
    BY <1>0, <1>18, LeaveMoves DEF Close
  <2> QED  BY <1>2, <1>11, <2>1
<1> QED  BY <1>4, <1>5, <1>6, <1>8, <1>9, <1>10, <1>12, <1>14, <1>15, <1>16, <1>17, <1>18 DEF Iterate

(* Events that come in begin no turn; one that starts a session has no event   *)
(* yet,                                                                        *)
LEMMA OpenTurns ==
  ASSUME OrderInv, WorkInv, TurnsInv, NEW c \in Events, Refused(c) \/ Start(c) \/ End(c) \/ Message(c)
  PROVE  TurnsInv'
<1>0. TypeOK /\ TasksOf(c) /\ TurnsOf(c) /\ at[c] = "idle" /\ mine[c] = None /\ None \notin Starts
  BY WebAssumption DEF WorkInv, TasksInv, TurnsInv, OrderInv, TurnInv, Starts, Refused, Start, End, Message
<1>1. task' = task
  BY DEF Refused, Start, End, Message
<1>2. at'[c] \in {"over", "greeted", "lock"} /\ \A d \in Events \ {c} : at'[d] = at[d]
  BY <1>0 DEF Refused, Start, End, Message, Go, TypeOK
<1>3. /\ \A d \in Events \ {c} : mine'[d] = mine[d]
      /\ task[c] # "running"
  BY <1>0 DEF Refused, Start, End, Message, TypeOK, TasksOf
<1>4. /\ registered' = registered \/ registered' = None \/ (registered' = c /\ Kind[c] = "start")
      /\ mine'[c] \in {registered', None}
  BY <1>0 DEF Refused, Start, End, Message, TypeOK, Starts
<1>5. ASSUME NEW d \in Events PROVE task[d] = "running" => mine[d] \in Starts
  BY DEF WorkInv, TasksInv, TasksOf
<1>6. TurnsOf(c)'
  BY <1>0, <1>1, <1>2, <1>3, <1>4 DEF TurnsOf, Ended, Holding
<1>7. ASSUME NEW d \in Events \ {c} PROVE TurnsOf(d)'
  <2>1. TurnsOf(d) /\ at'[d] = at[d] /\ mine'[d] = mine[d] /\ task'[d] = task[d]
    BY <1>1, <1>2, <1>3 DEF TurnsInv
  <2>2. task[d] = "running" /\ registered' = mine[d] => registered = mine[d]
    BY <1>0, <1>4, <1>5 DEF TurnsOf
  <2>3. ASSUME at[d] = "idle", Kind[d] = "start" PROVE registered' # d /\ \A e \in Events : mine'[e] # d
    <3>1. registered # d /\ (\A e \in Events : mine[e] # d) /\ d \in Starts
      BY <2>1, <2>3 DEF TurnsOf, Starts
    <3>2. registered' # d
      BY <1>0, <1>4, <3>1
    <3> QED  BY <1>0, <1>3, <1>4, <3>1, <3>2
  <2> QED  BY <2>1, <2>2, <2>3 DEF TurnsOf, Ended
<1>8. OneTurnAtATime'
  BY <1>1, <1>3 DEF TurnsInv, OneTurnAtATime, Messages
<1> QED  BY <1>6, <1>7, <1>8 DEF TurnsInv

(* a turn's own task only ends it,                                             *)
LEMMA TaskTurns ==
  ASSUME WorkInv, TurnsInv, NEW c \in Events, Take(c) \/ TurnFills(c) \/ TurnEnds(c) \/ TurnRaises(c)
  PROVE  TurnsInv'
<1>0. TypeOK /\ TurnsOf(c)
  BY DEF WorkInv, TurnsInv
<1>1. UNCHANGED <<registered, at, mine>>
  BY DEF Take, TurnFills, TurnEnds, TurnRaises, sessionVars, callVars
<1>2. /\ \A d \in Events \ {c} : task'[d] = task[d]
      /\ task'[c] = task[c] \/ task'[c] \notin {"none", "running"}
  BY <1>0 DEF Take, TurnFills, TurnEnds, TurnRaises, TypeOK
<1>3. TurnsOf(c)'
  BY <1>0, <1>1, <1>2 DEF TurnsOf, Ended
<1> QED  BY <1>1, <1>2, <1>3, TurnsKept

(* and the speech leaves turns alone.                                          *)
LEMMA SpeechTurns ==
  ASSUME TurnsInv, NEW s, NEW v, Play(s, v) \/ FailSpeech(s, v) \/ UNCHANGED vars
  PROVE  TurnsInv'
<1>1. UNCHANGED <<registered, at, mine, task>>
  BY DEF Play, StartFiller, Chunk, EndSpeech, FailSpeech, sessionVars, callVars, vars
<1>2. ASSUME NEW d \in Events PROVE TurnsOf(d)'
  BY <1>1 DEF TurnsInv, TurnsOf, Ended
<1>3. OneTurnAtATime'
  BY <1>1 DEF TurnsInv, OneTurnAtATime
<1> QED  BY <1>2, <1>3 DEF TurnsInv

(* So every step keeps what is known of the turns, when no connection drops.   *)
LEMMA TurnsStep ==
  ASSUME ~MayDisconnect
  PROVE  OrderInv /\ WorkInv /\ TurnsInv /\ [Next]_vars => TurnsInv'
<1> SUFFICES ASSUME OrderInv, WorkInv, TurnsInv, [Next]_vars PROVE TurnsInv'
  OBVIOUS
<1>1. \A c \in Events : ~Disconnect(c)
  BY DEF Disconnect
<1> QED  BY <1>1, IterationTurns, OpenTurns, TaskTurns, SpeechTurns DEF Next

(* web_session.py:163-174: the turn that runs for the registered session has   *)
(* the session's lock, in every run in which no connection drops an iteration  *)
(* at a yield (a dropped iteration releases the lock and leaves its turn's     *)
(* task running).                                                              *)
THEOREM TurnsHold ==
  ASSUME ~MayDisconnect
  PROVE  Spec => []TurnsInv
BY OrderHolds, WorkHolds, TurnsInit, TurnsStep, PTL DEF Spec

(* conductor calls of one session never overlap: no two turns of an            *)
(* incarnation run at once, whatever raises, fails, ends or restarts, when no  *)
(* connection drops. The per-call runtime relies on it.                        *)
THEOREM OneTurnAtATimeHolds ==
  ASSUME ~MayDisconnect
  PROVE  Spec => []OneTurnAtATime
<1>1. TurnsInv => OneTurnAtATime
  BY DEF TurnsInv
<1> QED  BY <1>1, TurnsHold, PTL

(* No connection drops, no turn raises and no synthesis fails.                 *)
Faultless == ~MayDisconnect /\ ~TurnsRaise /\ FailingTurns = {}

(* Points at which an iteration has a reader of the queue or what it read.     *)
Reading == {"wait", "mid", "midEnded", "awaitFiller"}

(* A speech that may still put audio on the queue.                             *)
Active(s, v) == talk[s][v] = "made" \/ (talk[s][v] = "begun" /\ live[s] = v)

(* What the voices of a session have said.                                     *)
SpokenOf(s) ==
    /\ at[s] = "idle" => queue[s] = <<>> /\ \A v \in Voices : talk[s][v] = "none"
    /\ \A n \in Turns : talk[s][Voice(n, 0)] # "none" =>
         n = 0 \/ \E c \in Messages : mine[c] = s /\ turn[c] = n /\ at[c] \in {"speaking", "emit", "closing", "over"}
    /\ registered = s => \A v \in Voices : talk[s][v] # "failed"

(* Who speaks, and that numbers are given once.                                *)
SpokenInv ==
    /\ \A s \in Starts : SpokenOf(s)
    /\ \A c, d \in Messages : mine[c] = mine[d] /\ mine[c] # None /\ turn[c] = turn[d] => c = d
    /\ \A c \in Events : task[c] # "raised"

(* Fillers shown (o), at hand (h) and queued (q) are the n that turn t has     *)
(* put, in order.                                                              *)
Told(o, h, q, n, t) ==
    /\ \A i \in 1..Len(q) : q[i].kind = "filler" => q[i].voice.part \in 1..n
    /\ \A i, j \in 1..Len(q) : i < j /\ q[i].kind = "filler" /\ q[j].kind = "filler" => q[i].voice.part < q[j].voice.part
    /\ h # <<>> /\ h[1].kind = "filler" =>
         /\ h[1].voice.part \in 1..n
         /\ \A j \in 1..Len(q) : q[j].kind = "filler" => h[1].voice.part < q[j].voice.part
         /\ \A j \in 1..Len(o) : o[j].kind = "filler" => o[j].voice.part < h[1].voice.part
    /\ \A i \in 1..Len(o), j \in 1..Len(q) : o[i].kind = "filler" /\ q[j].kind = "filler" => o[i].voice.part < q[j].voice.part
    /\ \A k \in 1..n : LET e == Item("filler", Voice(t, k)) IN
         \/ \E i \in 1..Len(o) : o[i] = e
         \/ \E i \in 1..Len(q) : q[i] = e
         \/ h # <<>> /\ h[1] = e

(* The fillers shown are some of the n, in order.                              *)
Ascending(o, n) ==
    /\ \A i \in 1..Len(o) : o[i].kind = "filler" => o[i].voice.part \in 1..n
    /\ \A i, j \in 1..Len(o) : i < j /\ o[i].kind = "filler" /\ o[j].kind = "filler" => o[i].voice.part < o[j].voice.part

(* An item of a turn's queue.                                                  *)
Own(e, t) == e.voice.turn = t /\ e.kind \in {"filler", "audio", "teardown"}

(* No reader of the queue, and nothing read.                                   *)
Off(c) == ~getting[c] /\ hand[c] = <<>>

(* The speech that an iteration lets go on.                                    *)
Speaks(c, v) ==
    LET s == mine[c] IN
    /\ v.turn = turn[c]
    /\ \/ /\ at[c] \in Reading
          /\ v.part > 0
          /\ filler[c] # None
          /\ v = filler[c] \/ (at[c] = "wait" /\ talk[s][filler[c]] = "made" /\ talk[s][v] = "begun")
       \/ at[c] = "speaking" /\ v = Answer(c)

(* What was read and will be shown.                                            *)
AtHand(c) == IF at[c] = "wait" THEN hand[c] ELSE <<>>

(* What the iteration that has the floor of the registered session keeps: its  *)
(* reader, the voices that go on, whose the items are and what was told.       *)
Reads(c) ==
    LET q == queue[mine[c]] IN
    /\ at[c] \notin Reading => Off(c)
    /\ at[c] \in {"generating", "respond", "closing"} => q = <<>>
    /\ at[c] = "awaitFiller" =>
         /\ hand[c] # <<>> => hand[c][1].kind = "audio"
         /\ getting[c] => \A i \in 1..Len(q) : q[i].kind = "audio"

Heard(c) ==
    /\ at[c] = "awaitFiller" => filler[c] # None
    /\ at[c] \in {"mid", "midEnded"} /\ filler[c] # None => talk[mine[c]][filler[c]] # "made"
    /\ \A v \in Voices : Active(mine[c], v) => Speaks(c, v)

Owned(c) ==
    LET q == queue[mine[c]] IN
    /\ \A i \in 1..Len(q) : Own(q[i], turn[c])
    /\ hand[c] # <<>> => Own(hand[c][1], turn[c])

(* The fillers of a message are shown, at hand or queued.                      *)
Tells(c) == Kind[c] = "message" => Told(out[c], AtHand(c), queue[mine[c]], put[c], turn[c])

(* All that an iteration keeps that has the floor.                             *)
Floor(c) == Reads(c) /\ Heard(c) /\ Owned(c) /\ Tells(c)

(* Between two iterations: nothing queued, nobody speaking.                    *)
Settled(s) == queue[s] = <<>> /\ \A v \in Voices : ~Active(s, v)

(* The registered session has one iteration with the floor, or is settled.     *)
FloorInv ==
    \A s \in Starts : registered = s =>
        /\ \A c \in Events : mine[c] = s => IF at[c] \in Holding THEN Floor(c) ELSE Off(c)
        /\ (\A c \in Events : mine[c] = s => at[c] \notin Holding) => Settled(s)

(* What an iteration has shown is its own turn's, the answer last but for      *)
(* audio.                                                                      *)
ShownOf(c) ==
    /\ at[c] = "idle" => out[c] = <<>>
    /\ \A i \in 1..Len(out[c]) : out[c][i].voice.turn = turn[c]
    /\ Kind[c] = "message" =>
         /\ Ascending(out[c], put[c])
         /\ \A i \in 1..Len(out[c]) : out[c][i].kind = "response" =>
              /\ Ended(c)
              /\ \A k \in 1..put[c] : \E j \in 1..i : out[c][j] = Item("filler", Voice(turn[c], k))

(* What all iterations have shown.                                             *)
ShownInv == \A c \in Events : ShownOf(c)

(* A sequence of items, its head and its end.                                  *)
LEMMA Sequences ==
  ASSUME NEW q \in Seq(Items)
  PROVE  /\ Len(q) \in Nat /\ \A i \in 1..Len(q) : q[i] \in Items
         /\ q # <<>> => /\ Head(q) = q[1] /\ Len(q) >= 1 /\ Len(Tail(q)) = Len(q) - 1 /\ Tail(q) \in Seq(Items)
                        /\ Head(q) \in Items /\ \A i \in 1..(Len(q) - 1) : Tail(q)[i] = q[i + 1]
         /\ \A e \in Items : /\ Len(Append(q, e)) = Len(q) + 1 /\ Append(q, e) \in Seq(Items)
                             /\ Append(q, e)[Len(q) + 1] = e
                             /\ \A i \in 1..Len(q) : Append(q, e)[i] = q[i]
OBVIOUS

(* An item is its kind, its turn and its part.                                 *)
LEMMA ItemEqual ==
  ASSUME NEW e \in Items, NEW t, NEW k, e.kind = "filler", e.voice.turn = t, e.voice.part = k
  PROVE  e = Item("filler", Voice(t, k))
BY DEF Items, Voices, Item, Voice

(* A filler's item has the turn and the number it was made of.                 *)
LEMMA ItemParts ==
  ASSUME NEW t, NEW k
  PROVE  /\ Item("filler", Voice(t, k)).kind = "filler"
         /\ Item("filler", Voice(t, k)).voice.turn = t
         /\ Item("filler", Voice(t, k)).voice.part = k
BY DEF Item, Voice

(* The parts of an item have their types.                                      *)
LEMMA PartTyped ==
  ASSUME NEW e \in Items
  PROVE  e.voice \in Voices /\ e.voice.part \in Nat /\ e.voice.turn \in Nat
<1>1. MaxFillers * Cardinality(Messages) \in Nat /\ Cardinality(Messages) \in Nat
  BY Bounds
<1> QED  BY <1>1 DEF Items, Voices, Turns

(* The head of the queue comes to hand,                                        *)
LEMMA ToldTake ==
  ASSUME NEW o \in Seq(Items), NEW q \in Seq(Items), q # <<>>, NEW n \in Nat, NEW t, Told(o, <<>>, q, n, t)
  PROVE  Told(o, <<Head(q)>>, Tail(q), n, t)
<1> DEFINE h == <<Head(q)>>
           r == Tail(q)
<1>1. h # <<>> /\ h[1] = q[1] /\ Len(q) \in Nat /\ Len(q) >= 1 /\ Len(r) = Len(q) - 1
      /\ \A i \in 1..(Len(q) - 1) : r[i] = q[i + 1]
  BY Sequences
<1> HIDE DEF h, r
<1>2. \A i \in 1..Len(r) : i + 1 \in 1..Len(q) /\ r[i] = q[i + 1]
  BY <1>1
<1>3. 1 \in 1..Len(q) /\ \A i \in 1..Len(q) : i = 1 \/ (i > 1 /\ i - 1 \in 1..Len(r) /\ r[i - 1] = q[i])
  BY <1>1
<1>4. \A i \in 1..Len(r) : r[i].kind = "filler" => r[i].voice.part \in 1..n
  BY <1>2 DEF Told
<1>5. \A i, j \in 1..Len(r) : i < j /\ r[i].kind = "filler" /\ r[j].kind = "filler" => r[i].voice.part < r[j].voice.part
  <2> SUFFICES ASSUME NEW i \in 1..Len(r), NEW j \in 1..Len(r), i < j, r[i].kind = "filler", r[j].kind = "filler"
               PROVE  r[i].voice.part < r[j].voice.part
    OBVIOUS
  <2>1. i + 1 < j + 1 /\ i + 1 \in 1..Len(q) /\ j + 1 \in 1..Len(q) /\ r[i] = q[i + 1] /\ r[j] = q[j + 1]
    BY <1>2
  <2>2. q[i + 1].voice.part < q[j + 1].voice.part
    BY <2>1 DEF Told
  <2> QED  BY <2>1, <2>2
<1>6. h[1].kind = "filler" =>
         /\ h[1].voice.part \in 1..n
         /\ \A j \in 1..Len(r) : r[j].kind = "filler" => h[1].voice.part < r[j].voice.part
         /\ \A j \in 1..Len(o) : o[j].kind = "filler" => o[j].voice.part < h[1].voice.part
  <2> SUFFICES ASSUME q[1].kind = "filler"
               PROVE  /\ q[1].voice.part \in 1..n
                      /\ \A j \in 1..Len(r) : r[j].kind = "filler" => q[1].voice.part < r[j].voice.part
                      /\ \A j \in 1..Len(o) : o[j].kind = "filler" => o[j].voice.part < q[1].voice.part
    BY <1>1
  <2>1. \A j \in 1..Len(r) : 1 < j + 1
    BY <1>1
  <2>2. ASSUME NEW j \in 1..Len(r), r[j].kind = "filler" PROVE q[1].voice.part < r[j].voice.part
    <3>1. 1 < j + 1 /\ j + 1 \in 1..Len(q) /\ r[j] = q[j + 1]
      BY <1>2, <2>1
    <3>2. q[1].voice.part < q[j + 1].voice.part
      BY <1>3, <2>2, <3>1 DEF Told
    <3> QED  BY <3>1, <3>2
  <2> QED  BY <1>3, <2>2 DEF Told
<1>7. \A i \in 1..Len(o), j \in 1..Len(r) : o[i].kind = "filler" /\ r[j].kind = "filler" => o[i].voice.part < r[j].voice.part
  BY <1>2 DEF Told
<1>8. ASSUME NEW k \in 1..n, NEW e, e = Item("filler", Voice(t, k))
      PROVE  \/ \E i \in 1..Len(o) : o[i] = e
             \/ \E i \in 1..Len(r) : r[i] = e
             \/ h # <<>> /\ h[1] = e
  <2>1. (\E i \in 1..Len(o) : o[i] = e) \/ (\E i \in 1..Len(q) : q[i] = e)
    BY <1>8 DEF Told
  <2> QED  BY <1>1, <1>3, <2>1
<1> QED  BY <1>1, <1>4, <1>5, <1>6, <1>7, <1>8 DEF Told, h, r

(* and what is at hand is shown:                                               *)
LEMMA ToldShow ==
  ASSUME NEW o \in Seq(Items), NEW q \in Seq(Items), NEW h \in Seq(Items), h # <<>>, NEW n \in Nat, NEW t,
         Told(o, h, q, n, t), Ascending(o, n)
  PROVE  Told(Append(o, h[1]), <<>>, q, n, t) /\ Ascending(Append(o, h[1]), n)
<1> DEFINE p == Append(o, h[1])
<1>1. /\ h[1] \in Items /\ Len(o) \in Nat /\ Len(p) = Len(o) + 1 /\ p[Len(o) + 1] = h[1]
      /\ \A i \in 1..Len(o) : p[i] = o[i]
  <2>1. h[1] \in Items
    OBVIOUS
  <2> QED  BY <2>1, Sequences
<1> HIDE DEF p
<1>2. \A i \in 1..Len(p) : (i \in 1..Len(o) /\ p[i] = o[i]) \/ (i = Len(o) + 1 /\ p[i] = h[1])
  BY <1>1
<1>3. \A i \in 1..Len(o) : i \in 1..Len(p) /\ p[i] = o[i]
  BY <1>1
<1>4. Len(o) + 1 \in 1..Len(p)
  BY <1>1
<1>5. \A i \in 1..Len(p), j \in 1..Len(q) : p[i].kind = "filler" /\ q[j].kind = "filler" => p[i].voice.part < q[j].voice.part
  BY <1>2 DEF Told
<1>6. \A i \in 1..Len(p) : p[i].kind = "filler" => p[i].voice.part \in 1..n
  BY <1>2 DEF Told, Ascending
<1>7. \A i, j \in 1..Len(p) : i < j /\ p[i].kind = "filler" /\ p[j].kind = "filler" => p[i].voice.part < p[j].voice.part
  <2> SUFFICES ASSUME NEW i \in 1..Len(p), NEW j \in 1..Len(p), i < j, p[i].kind = "filler", p[j].kind = "filler"
               PROVE  p[i].voice.part < p[j].voice.part
    OBVIOUS
  <2>1. i \in 1..Len(o) /\ p[i] = o[i]
    BY <1>1
  <2>2. CASE j \in 1..Len(o)
    BY <1>3, <2>1, <2>2 DEF Ascending
  <2>3. CASE j = Len(o) + 1
    <3>1. p[j] = h[1]
      BY <1>1, <2>3
    <3> QED  BY <2>1, <3>1 DEF Told
  <2> QED  BY <1>2, <2>2, <2>3
<1>8. ASSUME NEW k \in 1..n, NEW e, e = Item("filler", Voice(t, k))
      PROVE  \/ \E i \in 1..Len(p) : p[i] = e
             \/ \E i \in 1..Len(q) : q[i] = e
  <2>1. \/ \E i \in 1..Len(o) : o[i] = e
        \/ \E i \in 1..Len(q) : q[i] = e
        \/ h[1] = e
    BY <1>8 DEF Told
  <2> QED  BY <1>1, <1>3, <1>4, <2>1
<1>9. Told(p, <<>>, q, n, t)
  BY <1>5, <1>8 DEF Told
<1>10. Ascending(p, n)
  BY <1>6, <1>7 DEF Ascending
<1> QED  BY <1>9, <1>10 DEF p

(* what is at hand and no filler may be dropped,                               *)
LEMMA ToldDrop ==
  ASSUME NEW o, NEW q, NEW h, NEW n, NEW t, Told(o, h, q, n, t), h # <<>> => h[1].kind # "filler"
  PROVE  Told(o, <<>>, q, n, t)
<1>1. ASSUME NEW k \in 1..n, NEW e, e = Item("filler", Voice(t, k))
      PROVE  \/ \E i \in 1..Len(o) : o[i] = e
             \/ \E i \in 1..Len(q) : q[i] = e
  <2>1. e.kind = "filler"
    BY <1>1, ItemParts
  <2> QED  BY <1>1, <2>1 DEF Told
<1> QED  BY <1>1 DEF Told

(* other items are put on the queue,                                           *)
LEMMA ToldPut ==
  ASSUME NEW o \in Seq(Items), NEW q \in Seq(Items), NEW h, NEW n \in Nat, NEW t,
         Told(o, h, q, n, t), NEW x \in Items, x.kind # "filler"
  PROVE  Told(o, h, Append(q, x), n, t)
<1> DEFINE r == Append(q, x)
<1>1. /\ Len(q) \in Nat /\ Len(r) = Len(q) + 1 /\ r[Len(q) + 1] = x
      /\ \A i \in 1..Len(q) : r[i] = q[i]
  BY Sequences
<1> HIDE DEF r
<1>2. \A i \in 1..Len(r) : r[i].kind = "filler" => i \in 1..Len(q) /\ r[i] = q[i]
  BY <1>1
<1>3. \A i \in 1..Len(q) : i \in 1..Len(r) /\ r[i] = q[i]
  BY <1>1
<1>4. ASSUME NEW k \in 1..n, NEW e, e = Item("filler", Voice(t, k))
      PROVE  \/ \E i \in 1..Len(o) : o[i] = e
             \/ \E i \in 1..Len(r) : r[i] = e
             \/ h # <<>> /\ h[1] = e
  <2>1. \/ \E i \in 1..Len(o) : o[i] = e
        \/ \E i \in 1..Len(q) : q[i] = e
        \/ h # <<>> /\ h[1] = e
    BY <1>4 DEF Told
  <2> QED  BY <1>3, <2>1
<1>5. \A i \in 1..Len(r) : r[i].kind = "filler" => r[i].voice.part \in 1..n
  BY <1>2 DEF Told
<1>6. \A i, j \in 1..Len(r) : i < j /\ r[i].kind = "filler" /\ r[j].kind = "filler" => r[i].voice.part < r[j].voice.part
  BY <1>2 DEF Told
<1>7. h # <<>> /\ h[1].kind = "filler" =>
         /\ h[1].voice.part \in 1..n
         /\ \A j \in 1..Len(r) : r[j].kind = "filler" => h[1].voice.part < r[j].voice.part
         /\ \A j \in 1..Len(o) : o[j].kind = "filler" => o[j].voice.part < h[1].voice.part
  BY <1>2 DEF Told
<1>8. \A i \in 1..Len(o), j \in 1..Len(r) : o[i].kind = "filler" /\ r[j].kind = "filler" => o[i].voice.part < r[j].voice.part
  BY <1>2 DEF Told
<1> QED  BY <1>4, <1>5, <1>6, <1>7, <1>8 DEF Told, r

(* and so is the next filler.                                                  *)
LEMMA ToldFill ==
  ASSUME NEW o \in Seq(Items), NEW q \in Seq(Items), NEW h, NEW n \in Nat, NEW t,
         Told(o, h, q, n, t), Ascending(o, n), Item("filler", Voice(t, n + 1)) \in Items
  PROVE  Told(o, h, Append(q, Item("filler", Voice(t, n + 1))), n + 1, t) /\ Ascending(o, n + 1)
<1> DEFINE x == Item("filler", Voice(t, n + 1))
           r == Append(q, x)
<1>1. /\ Len(q) \in Nat /\ Len(r) = Len(q) + 1 /\ r[Len(q) + 1] = x
      /\ \A i \in 1..Len(q) : r[i] = q[i]
  BY Sequences
<1>2. x.kind = "filler" /\ x.voice.part = n + 1
  BY ItemParts
<1> HIDE DEF r
<1>3. \A i \in 1..Len(r) : (i \in 1..Len(q) /\ r[i] = q[i]) \/ (i = Len(q) + 1 /\ r[i].voice.part = n + 1)
  BY <1>1, <1>2
<1>4. \A i \in 1..Len(q) : i \in 1..Len(r) /\ r[i] = q[i]
  BY <1>1
<1>5. \A m \in 1..n : m < n + 1 /\ m \in 1..(n + 1)
  OBVIOUS
<1>6. \A i \in 1..Len(q) : q[i].kind = "filler" => q[i].voice.part < n + 1 /\ q[i].voice.part \in 1..(n + 1)
  BY <1>5 DEF Told
<1>7. \A i \in 1..Len(o) : o[i].kind = "filler" => o[i].voice.part < n + 1 /\ o[i].voice.part \in 1..(n + 1)
  BY <1>5 DEF Ascending
<1>8. \A k \in 1..(n + 1) : k \in 1..n \/ k = n + 1
  OBVIOUS
<1>9. ASSUME NEW k \in 1..(n + 1), NEW e, e = Item("filler", Voice(t, k))
      PROVE  \/ \E i \in 1..Len(o) : o[i] = e
             \/ \E i \in 1..Len(r) : r[i] = e
             \/ h # <<>> /\ h[1] = e
  <2>1. CASE k = n + 1
    <3>1. Len(q) + 1 \in 1..Len(r)
      BY <1>1
    <3> QED  BY <1>1, <1>9, <2>1, <3>1
  <2>2. CASE k \in 1..n
    <3>1. \/ \E i \in 1..Len(o) : o[i] = e
          \/ \E i \in 1..Len(q) : q[i] = e
          \/ h # <<>> /\ h[1] = e
      BY <1>9, <2>2 DEF Told
    <3> QED  BY <1>4, <3>1
  <2> QED  BY <1>8, <2>1, <2>2
<1> HIDE DEF x
<1>10. \A i \in 1..Len(r) : r[i].kind = "filler" => r[i].voice.part \in 1..(n + 1)
  BY <1>3, <1>6, SMTT(30)
<1>11. \A i, j \in 1..Len(r) : i < j /\ r[i].kind = "filler" /\ r[j].kind = "filler" => r[i].voice.part < r[j].voice.part
  <2> SUFFICES ASSUME NEW i \in 1..Len(r), NEW j \in 1..Len(r), i < j, r[i].kind = "filler", r[j].kind = "filler"
               PROVE  r[i].voice.part < r[j].voice.part
    OBVIOUS
  <2>1. i \in 1..Len(q) /\ r[i] = q[i]
    BY <1>1
  <2>2. CASE j \in 1..Len(q) /\ r[j] = q[j]
    BY <2>1, <2>2 DEF Told
  <2>3. CASE r[j].voice.part = n + 1
    BY <1>6, <2>1, <2>3
  <2> QED  BY <1>3, <2>2, <2>3
<1>12. h # <<>> /\ h[1].kind = "filler" =>
         /\ h[1].voice.part \in 1..(n + 1)
         /\ \A j \in 1..Len(r) : r[j].kind = "filler" => h[1].voice.part < r[j].voice.part
         /\ \A j \in 1..Len(o) : o[j].kind = "filler" => o[j].voice.part < h[1].voice.part
  <2> SUFFICES ASSUME h # <<>>, h[1].kind = "filler"
               PROVE  /\ h[1].voice.part \in 1..(n + 1)
                      /\ \A j \in 1..Len(r) : r[j].kind = "filler" => h[1].voice.part < r[j].voice.part
                      /\ \A j \in 1..Len(o) : o[j].kind = "filler" => o[j].voice.part < h[1].voice.part
    OBVIOUS
  <2>1. h[1].voice.part \in 1..n /\ h[1].voice.part < n + 1
    BY <1>5 DEF Told
  <2>2. \A j \in 1..Len(q) : q[j].kind = "filler" => h[1].voice.part < q[j].voice.part
    BY DEF Told
  <2>3. \A j \in 1..Len(o) : o[j].kind = "filler" => o[j].voice.part < h[1].voice.part
    BY DEF Told
  <2> QED  BY <1>3, <1>5, <2>1, <2>2, <2>3
<1>13. \A i \in 1..Len(o), j \in 1..Len(r) : o[i].kind = "filler" /\ r[j].kind = "filler" => o[i].voice.part < r[j].voice.part
  BY <1>3, <1>7 DEF Told
<1>14. Ascending(o, n + 1)
  BY <1>7 DEF Ascending
<1> QED  BY <1>9, <1>10, <1>11, <1>12, <1>13, <1>14 DEF Told, r, x

(* Something else is shown.                                                    *)
LEMMA ToldElse ==
  ASSUME NEW o \in Seq(Items), NEW q, NEW h, NEW n \in Nat, NEW t, NEW x \in Items, x.kind # "filler"
  PROVE  /\ Told(o, h, q, n, t) => Told(Append(o, x), h, q, n, t)
         /\ Ascending(o, n) => Ascending(Append(o, x), n)
<1> DEFINE p == Append(o, x)
<1>1. /\ Len(o) \in Nat /\ Len(p) = Len(o) + 1 /\ p[Len(o) + 1] = x
      /\ \A i \in 1..Len(o) : p[i] = o[i]
  BY Sequences
<1> HIDE DEF p
<1>2. \A i \in 1..Len(p) : p[i].kind = "filler" => i \in 1..Len(o) /\ p[i] = o[i]
  BY <1>1
<1>3. \A i \in 1..Len(o) : i \in 1..Len(p) /\ p[i] = o[i]
  BY <1>1
<1>4. Ascending(o, n) => Ascending(p, n)
  BY <1>2 DEF Ascending
<1>5. Told(o, h, q, n, t) => Told(p, h, q, n, t)
  <2> SUFFICES ASSUME Told(o, h, q, n, t) PROVE Told(p, h, q, n, t)
    OBVIOUS
  <2>1. ASSUME NEW k \in 1..n, NEW e, e = Item("filler", Voice(t, k))
        PROVE  \/ \E i \in 1..Len(p) : p[i] = e
               \/ \E i \in 1..Len(q) : q[i] = e
               \/ h # <<>> /\ h[1] = e
    <3>1. \/ \E i \in 1..Len(o) : o[i] = e
          \/ \E i \in 1..Len(q) : q[i] = e
          \/ h # <<>> /\ h[1] = e
      BY <2>1 DEF Told
    <3> QED  BY <1>3, <3>1
  <2>2. h # <<>> /\ h[1].kind = "filler" => \A j \in 1..Len(p) : p[j].kind = "filler" => p[j].voice.part < h[1].voice.part
    BY <1>2 DEF Told
  <2>3. \A i \in 1..Len(p), j \in 1..Len(q) : p[i].kind = "filler" /\ q[j].kind = "filler" => p[i].voice.part < q[j].voice.part
    BY <1>2 DEF Told
  <2> QED  BY <2>1, <2>2, <2>3 DEF Told
<1> QED  BY <1>4, <1>5 DEF p

(* What sets one voice's speech leaves the others.                             *)
LEMMA TalkAt ==
  ASSUME TypeOK, NEW t \in Starts, NEW w \in Voices, NEW k, talk' = [talk EXCEPT ![t][w] = k]
  PROVE  \A s \in Starts : \A v \in Voices : talk'[s][v] = IF s = t /\ v = w THEN k ELSE talk[s][v]
<1>1. talk \in [Starts -> [Voices -> {"none", "made", "begun", "voiced", "over", "failed"}]]
  BY DEF TypeOK
<1>2. ASSUME NEW s \in Starts, NEW v \in Voices PROVE talk'[s][v] = IF s = t /\ v = w THEN k ELSE talk[s][v]
  <2>1. CASE s = t
    <3>1. talk'[s] = [talk[s] EXCEPT ![w] = k] /\ talk[s] \in [Voices -> {"none", "made", "begun", "voiced", "over", "failed"}]
      BY <1>1, <2>1
    <3> QED  BY <2>1, <3>1
  <2>2. CASE s # t
    BY <1>1, <2>2
  <2> QED  BY <2>1, <2>2
<1> QED  BY <1>2

(* What an iteration does after an item.                                       *)
LEMMA ContinueTalks ==
  ASSUME WorkInv, NEW c \in Events, mine[c] \in Starts, hand[c] # <<>>, NEW b, Continue(c, b)
  PROVE  \/ UNCHANGED <<talk, filler>>
         \/ /\ hand[c][1].kind = "filler" /\ tts
            /\ \E v \in Voices : /\ v.turn = turn[c] /\ v.part > 0
                                 /\ filler' = [filler EXCEPT ![c] = v]
                                 /\ talk' = [talk EXCEPT ![mine[c]][v] = "made"]
<1> DEFINE v == Voice(turn[c], fillerN[mine[c]] + 1)
<1>1. CASE hand[c][1].kind = "filler" /\ tts
  <2>1. v \in Voices
    BY <1>1, NextVoice
  <2>2. v.turn = turn[c] /\ v.part = fillerN[mine[c]] + 1
    BY DEF Voice
  <2>3. fillerN[mine[c]] + 1 > 0
    BY DEF WorkInv, TypeOK
  <2>4. filler' = [filler EXCEPT ![c] = v] /\ talk' = [talk EXCEPT ![mine[c]][v] = "made"]
    BY <1>1 DEF Continue
  <2> QED  BY <1>1, <2>1, <2>2, <2>3, <2>4
<1>2. CASE ~(hand[c][1].kind = "filler" /\ tts)
  BY <1>2 DEF Continue
<1> QED  BY <1>1, <1>2

(* Only the iterations and the speech itself change what is said,              *)
LEMMA TalkMoves ==
  ASSUME Faultless, OrderInv, WorkInv, [Next]_vars, NEW s \in Starts, NEW v \in Voices, talk'[s][v] # talk[s][v]
  PROVE  /\ \/ talk[s][v] # "none"
            \/ \E c \in Events :
                 /\ mine[c] = s
                 /\ \/ v.part > 0
                    \/ v = Greeting
                    \/ Kind[c] = "message" /\ v = Answer(c) /\ at'[c] = "speaking"
         /\ talk'[s][v] = "failed" => registered = None
         /\ registered' = registered
<1>0. TypeOK
  BY DEF WorkInv
<1>1. ASSUME NEW c \in Events, NEW b, Continue(c, b), mine[c] \in Starts, hand[c] # <<>>
      PROVE  mine[c] = s /\ v.part > 0 /\ talk'[s][v] = "made"
  <2>1. PICK w \in Voices : w.part > 0 /\ talk' = [talk EXCEPT ![mine[c]][w] = "made"]
    BY <1>1, ContinueTalks
  <2> QED  BY <1>0, <1>1, <2>1, TalkAt
<1>2. CASE \E c \in Events : WakeWithItem(c) \/ Resume(c)
  <2>1. PICK c \in Events : WakeWithItem(c) \/ Resume(c)
    BY <1>2
  <2>2. hand[c] # <<>> /\ mine[c] \in Starts /\ registered' = registered
    BY <2>1 DEF WorkInv, TasksInv, TasksOf, WakeWithItem, Resume
  <2>3. talk' = talk \/ \E b : Continue(c, b)
    BY <2>1 DEF WakeWithItem, Resume
  <2> QED  BY <1>1, <2>2, <2>3
<1>3. ASSUME NEW c \in Events, NEW w \in Voices, Speak(mine[c], w), mine[c] \in Starts
      PROVE  mine[c] = s /\ v = w /\ talk'[s][v] = "begun"
  BY <1>0, <1>3, TalkAt DEF Speak
<1>4. CASE \E c \in Events : SpeakGreeting(c)
  <2>1. PICK c \in Events : SpeakGreeting(c)
    BY <1>4
  <2>2. mine[c] \in Starts /\ Kind[c] = "start" /\ c \in Starts /\ registered' = registered
    BY <2>1 DEF SpeakGreeting, OrderInv, LineInv, InLine, Starts
  <2>3. mine[c] = c
    BY <2>2, WebAssumption DEF OrderInv, TurnInv, Starts
  <2>4. talk' = talk \/ Speak(mine[c], Greeting)
    BY <2>1, <2>3 DEF SpeakGreeting
  <2> QED  BY <1>3, <2>2, <2>4, ItemTyped
<1>5. CASE \E c \in Events : SpeakAnswer(c)
  <2>1. PICK c \in Events : SpeakAnswer(c)
    BY <1>5
  <2>2. at[c] = "respond" /\ registered' = registered
    BY <2>1 DEF SpeakAnswer
  <2>3. mine[c] \in Starts /\ Kind[c] = "message"
    BY <2>2 DEF OrderInv, LineInv, InLine, Holding, Points, WorkInv, TasksInv, TasksOf
  <2>4. talk' = talk \/ (Speak(mine[c], Answer(c)) /\ at'[c] = "speaking")
    BY <1>0, <2>1 DEF SpeakAnswer, Go, TypeOK
  <2>5. Answer(c) \in Voices
    BY <1>0, AnswerTyped
  <2> QED  BY <1>3, <2>2, <2>3, <2>4, <2>5
<1>6. CASE \E t \in Starts, w \in Voices : Play(t, w) \/ FailSpeech(t, w)
  <2>1. PICK t \in Starts, w \in Voices : Play(t, w) \/ FailSpeech(t, w)
    BY <1>6
  <2>2. /\ registered' = registered /\ talk[t][w] # "none"
        /\ \E k \in {"begun", "voiced", "over", "failed"} :
             talk' = [talk EXCEPT ![t][w] = k] /\ (k = "failed" => registered = None)
    BY <2>1 DEF Play, StartFiller, Chunk, EndSpeech, FailSpeech, Speak, sessionVars, Faultless
  <2> QED  BY <1>0, <2>2, TalkAt
<1>7. talk' # talk
  OBVIOUS
<1>8. ASSUME NEW c \in Events, Refused(c) \/ Start(c) \/ End(c) \/ Message(c) \/ Disconnect(c) \/ Take(c) \/ TurnFills(c)
                                \/ TurnEnds(c) \/ TurnRaises(c)
      PROVE  FALSE
  BY <1>7, <1>8 DEF Refused, Start, End, Message, Disconnect, Take, TurnFills, TurnEnds, TurnRaises
<1>9. ASSUME NEW c \in Events, Iterate(c)
      PROVE  WakeWithItem(c) \/ Resume(c) \/ SpeakGreeting(c) \/ SpeakAnswer(c)
  BY <1>7, <1>9 DEF Iterate, Greeted, BeginTurn, WakeAtEnd, FillerAwaited, Drain, Answered, Generated, SpeechFailed, EmitAudio, Close
<1>10. ~UNCHANGED vars
  BY <1>7 DEF vars
<1> QED  BY <1>2, <1>4, <1>5, <1>6, <1>8, <1>9, <1>10 DEF Next

(* what is queued,                                                             *)
LEMMA QueueMoves ==
  ASSUME OrderInv, WorkInv, [Next]_vars, NEW s \in Starts, queue'[s] # queue[s]
  PROVE  (\E c \in Events : mine[c] = s) \/ \E v \in Voices : talk[s][v] # "none"
<1>0. queue \in [Starts -> Seq(Items)] /\ queue' # queue
  BY DEF WorkInv, TypeOK
<1>1. ASSUME NEW t, NEW q, queue' = [queue EXCEPT ![t] = q] PROVE t = s
  BY <1>0, <1>1
<1>2. ASSUME NEW c \in Events, Drain(c) \/ EmitAudio(c) \/ Take(c) \/ TurnFills(c) \/ TurnEnds(c) PROVE mine[c] = s
  <2>1. \E q : queue' = [queue EXCEPT ![mine[c]] = q]
    BY <1>0, <1>2 DEF Drain, EmitAudio, Take, TurnFills, TurnEnds, YieldItem
  <2> QED  BY <1>1, <2>1
<1>3. ASSUME NEW t \in Starts, NEW v \in Voices, Play(t, v) \/ FailSpeech(t, v) PROVE talk[s][v] # "none"
  <2>1. Chunk(t, v)
    BY <1>0, <1>3 DEF Play, StartFiller, EndSpeech, FailSpeech
  <2>2. t = s
    BY <1>1, <2>1 DEF Chunk
  <2> QED  BY <2>1, <2>2 DEF Chunk
<1>4. ASSUME NEW c \in Events, Refused(c) \/ Start(c) \/ End(c) \/ Message(c) \/ Disconnect(c) \/ TurnRaises(c)
      PROVE  FALSE
  BY <1>0, <1>4 DEF Refused, Start, End, Message, Disconnect, TurnRaises
<1>5. ASSUME NEW c \in Events, Iterate(c) PROVE Drain(c) \/ EmitAudio(c)
  BY <1>0, <1>5 DEF Iterate, Greeted, SpeakGreeting, BeginTurn, WakeWithItem, Resume, WakeAtEnd, FillerAwaited, Answered,
                    Generated, SpeakAnswer, SpeechFailed, Close
<1>6. ~UNCHANGED vars
  BY <1>0 DEF vars
<1> QED  BY <1>2, <1>3, <1>4, <1>5, <1>6 DEF Next

(* and nothing that has come in comes in again.                                *)
LEMMA EventsMove ==
  ASSUME OrderInv, WorkInv, [Next]_vars, NEW c \in Events
  PROVE  /\ at'[c] = "idle" => at[c] = "idle"
         /\ at[c] # "idle" => mine'[c] = mine[c] /\ turn'[c] = turn[c]
         /\ at[c] \in {"speaking", "emit", "closing", "over"} => at'[c] \in {"speaking", "emit", "closing", "over"}
<1>0. TypeOK
  BY DEF WorkInv
<1>1. ASSUME NEW d \in Events, Refused(d) \/ Start(d) \/ End(d) \/ Message(d)
      PROVE  /\ at[d] = "idle" /\ at'[d] # "idle" /\ \A e \in Events \ {d} : at'[e] = at[e] /\ mine'[e] = mine[e] /\ turn'[e] = turn[e]
  BY <1>0, <1>1 DEF Refused, Start, End, Message, Go, TypeOK
<1>2. ASSUME NEW d \in Events, Iterate(d) \/ Disconnect(d)
      PROVE  /\ \A e \in Events \ {d} : at'[e] = at[e]
             /\ mine' = mine /\ turn' = turn /\ at'[d] # "idle"
             /\ at[d] \in {"speaking", "emit", "closing", "over"} => at'[d] \in {"speaking", "emit", "closing", "over"}
  <2>1. mine' = mine /\ turn' = turn
    BY <1>2 DEF Iterate, Greeted, SpeakGreeting, BeginTurn, WakeWithItem, Resume, WakeAtEnd, FillerAwaited,
                Drain, Answered, Generated, SpeakAnswer, SpeechFailed, EmitAudio, Close, Disconnect
  <2>2. ASSUME NEW l, Go(d, l) PROVE at'[d] = l /\ \A e \in Events \ {d} : at'[e] = at[e]
    BY <1>0, <2>2 DEF Go, TypeOK
  <2>3. CASE \/ Greeted(d) \/ SpeakGreeting(d) \/ BeginTurn(d) \/ FillerAwaited(d) \/ SpeakAnswer(d) \/ Close(d)
             \/ Disconnect(d) \/ Answered(d) \/ Generated(d) \/ SpeechFailed(d)
    <3>1. PICK l : Go(d, l) /\ l # "idle" /\ (at[d] \in {"speaking", "emit", "closing", "over"} => l \in {"speaking", "emit", "closing", "over"})
      BY <2>3 DEF Greeted, SpeakGreeting, BeginTurn, FillerAwaited, SpeakAnswer, Close, Disconnect, Answered, Generated,
                  SpeechFailed, Leave, Yield, HasLock, Drained
    <3> QED  BY <2>1, <2>2, <3>1
  <2>4. CASE WakeWithItem(d) \/ Resume(d) \/ WakeAtEnd(d)
    <3>1. at[d] \in {"wait", "mid", "midEnded"}
      BY <2>4 DEF WakeWithItem, Resume, WakeAtEnd
    <3>2. \/ \E b : Continue(d, b)
          \/ \E b : Finish(d, b)
          \/ \E l \in {"mid", "midEnded"} : \E e : Yield(d, e, l)
      <4>1. CASE WakeWithItem(d)
        <5>1. Continue(d, Ended(d)) \/ Yield(d, hand[d][1], IF Ended(d) THEN "midEnded" ELSE "mid")
          BY <4>1 DEF WakeWithItem
        <5> QED  BY <5>1
      <4>2. CASE Resume(d)
        BY <4>2 DEF Resume
      <4>3. CASE WakeAtEnd(d)
        BY <4>3 DEF WakeAtEnd
      <4> QED  BY <2>4, <4>1, <4>2, <4>3
    <3>3. at'[d] # "idle" /\ \A e \in Events \ {d} : at'[e] = at[e]
      <4>1. ASSUME NEW b, Continue(d, b) PROVE at'[d] # "idle" /\ \A e \in Events \ {d} : at'[e] = at[e]
        BY <1>0, <4>1, ContinueMoves
      <4>2. ASSUME NEW b, Finish(d, b) PROVE at'[d] # "idle" /\ \A e \in Events \ {d} : at'[e] = at[e]
        BY <1>0, <4>2, FinishMoves
      <4>3. ASSUME NEW e, NEW l \in {"mid", "midEnded"}, Yield(d, e, l)
            PROVE  at'[d] # "idle" /\ \A f \in Events \ {d} : at'[f] = at[f]
        BY <1>0, <4>3, YieldMoves
      <4> QED  BY <3>2, <4>1, <4>2, <4>3
    <3> QED  BY <2>1, <3>1, <3>3
  <2>5. CASE Drain(d) \/ EmitAudio(d)
    <3>1. \/ at[d] = "drain" /\ YieldItem(d, "drain")
          \/ at[d] \in {"emit", "speaking"} /\ (YieldItem(d, "emit") \/ Leave(d))
      BY <2>5 DEF Drain, EmitAudio, SpeechOver
    <3>2. PICK l \in {"drain", "emit", "over"} : Go(d, l) /\ (l = "drain" => at[d] = "drain")
      BY <3>1 DEF YieldItem, Yield, Leave
    <3> QED  BY <2>1, <2>2, <3>2
  <2> QED  BY <1>2, <2>3, <2>4, <2>5 DEF Iterate
<1>3. ASSUME \/ \E d \in Events : Take(d) \/ TurnFills(d) \/ TurnEnds(d) \/ TurnRaises(d)
             \/ \E s \in Starts, v \in Voices : Play(s, v) \/ FailSpeech(s, v)
             \/ UNCHANGED vars
      PROVE  at' = at /\ mine' = mine /\ turn' = turn
  BY <1>3 DEF Take, TurnFills, TurnEnds, TurnRaises, Play, StartFiller, Chunk, EndSpeech, FailSpeech, callVars, vars
<1> QED  BY <1>1, <1>2, <1>3 DEF Next

(* A session is registered by its start,                                       *)
LEMMA RegisteredMoves ==
  ASSUME OrderInv, WorkInv, [Next]_vars, registered' # registered
  PROVE  /\ \/ registered' = None
            \/ registered = None /\ registered' \in Starts /\ at[registered'] = "idle"
         /\ UNCHANGED <<queue, talk, turn, task, put, getting, hand, filler>>
         /\ \E c \in Events : \A d \in Events \ {c} : at'[d] = at[d] /\ mine'[d] = mine[d] /\ out'[d] = out[d]
<1>1. PICK c \in Events : Start(c) \/ End(c)
  BY ZenonT(40) DEF Next, vars, sessionVars, Refused, Message, Iterate, Disconnect, Take, TurnFills, TurnEnds, TurnRaises,
         Play, StartFiller, Chunk, EndSpeech, FailSpeech, Greeted, SpeakGreeting, BeginTurn, WakeWithItem, Resume, WakeAtEnd,
         FillerAwaited, Drain, Answered, Generated, SpeakAnswer, SpeechFailed, EmitAudio, Close
<1>2. /\ at \in [Events -> Points] /\ mine \in [Events -> Starts \cup {None}] /\ out \in [Events -> Seq(Items)]
  BY DEF WorkInv, TypeOK
<1>3. \A d \in Events \ {c} : at'[d] = at[d] /\ mine'[d] = mine[d] /\ out'[d] = out[d]
  BY <1>1, <1>2 DEF Start, End, Go, Show
<1> QED  BY <1>1, <1>3 DEF Start, End, Starts

(* and a message is numbered when it comes in.                                 *)
LEMMA NumbersMove ==
  ASSUME OrderInv, WorkInv, [Next]_vars, NEW c \in Messages, at[c] = "idle", mine'[c] # None
  PROVE  /\ mine'[c] \in Starts /\ turn'[c] = turnN[mine'[c]] + 1
         /\ \A d \in Events \ {c} : mine'[d] = mine[d] /\ turn'[d] = turn[d]
<1>0. TypeOK /\ c \in Events /\ Kind[c] = "message" /\ mine[c] = None
  BY DEF WorkInv, Messages, OrderInv, TurnInv
<1>1. mine' # mine
  BY <1>0
<1>2. PICK d \in Events : Start(d) \/ Message(d)
  BY <1>1, ZenonT(40) DEF Next, vars, callVars, Refused, End, Iterate, Disconnect, Take, TurnFills, TurnEnds, TurnRaises,
         Play, StartFiller, Chunk, EndSpeech, FailSpeech, Greeted, SpeakGreeting, BeginTurn, WakeWithItem, Resume, WakeAtEnd,
         FillerAwaited, Drain, Answered, Generated, SpeakAnswer, SpeechFailed, EmitAudio, Close
<1>3. Kind[d] # "start"
  BY <1>0, <1>2 DEF Start, Message, TypeOK
<1>4. Message(d) /\ registered # None /\ mine' = [mine EXCEPT ![d] = registered] /\ turn' = [turn EXCEPT ![d] = turnN[registered] + 1]
  BY <1>1, <1>2, <1>3 DEF Start, Message
<1>5. d = c
  BY <1>0, <1>4 DEF TypeOK
<1> QED  BY <1>0, <1>4, <1>5 DEF TypeOK

(* At the start nothing has been said.                                         *)
LEMMA SpokenInit == Init => SpokenInv
<1> SUFFICES ASSUME Init PROVE SpokenInv
  OBVIOUS
<1>1. /\ \A s \in Starts : queue[s] = <<>> /\ \A v \in Voices : talk[s][v] = "none"
      /\ registered = None /\ None \notin Starts /\ \A c \in Events : mine[c] = None /\ task[c] = "none"
  BY WebAssumption DEF Init, Starts
<1>2. \A n \in Turns : Voice(n, 0) \in Voices
  BY ItemTyped
<1> QED  BY <1>1, <1>2 DEF SpokenInv, SpokenOf, Messages

(* Every step keeps what is known of the voices and of the numbers.            *)
LEMMA SpokenStep ==
  ASSUME Faultless, OrderInv, WorkInv, TurnsInv, SpokenInv, [Next]_vars
  PROVE  SpokenInv'
<1>0. /\ TypeOK /\ None \notin Starts /\ (\A s \in Starts : s \in Events /\ Kind[s] = "start")
      /\ \A n \in Turns : Voice(n, 0) \in Voices /\ Voice(n, 0).part = 0 /\ Voice(n, 0).turn = n
  <2>1. \A n \in Turns : Voice(n, 0) \in Voices
    BY ItemTyped
  <2> QED  BY <2>1, WebAssumption DEF WorkInv, Starts, Voice
<1>1. ASSUME NEW s \in Starts, at[s] = "idle"
      PROVE  /\ queue[s] = <<>> /\ queue'[s] = <<>>
             /\ \A v \in Voices : talk[s][v] = "none" /\ talk'[s][v] = "none"
  <2>1. ~\E c \in Events : mine[c] = s
    BY <1>0, <1>1 DEF TurnsInv, TurnsOf
  <2>2. queue[s] = <<>> /\ \A v \in Voices : talk[s][v] = "none"
    BY <1>1 DEF SpokenInv, SpokenOf
  <2>3. queue'[s] = queue[s]
    BY <2>1, <2>2, QueueMoves
  <2>4. ASSUME NEW v \in Voices PROVE talk'[s][v] = talk[s][v]
    BY <2>1, <2>2, TalkMoves
  <2> QED  BY <2>2, <2>3, <2>4
<1>2. ASSUME NEW s \in Starts, NEW n \in Turns, talk'[s][Voice(n, 0)] # "none", n # 0
      PROVE  \E c \in Messages : mine'[c] = s /\ turn'[c] = n /\ at'[c] \in {"speaking", "emit", "closing", "over"}
  <2>1. CASE talk[s][Voice(n, 0)] # "none"
    <3>1. PICK c \in Messages : mine[c] = s /\ turn[c] = n /\ at[c] \in {"speaking", "emit", "closing", "over"}
      BY <1>2, <2>1 DEF SpokenInv, SpokenOf
    <3>2. c \in Events /\ at[c] # "idle"
      BY <3>1 DEF Messages
    <3> QED  BY <3>1, <3>2, EventsMove
  <2>2. CASE talk[s][Voice(n, 0)] = "none"
    <3>1. Voice(n, 0) \in Voices /\ talk'[s][Voice(n, 0)] # talk[s][Voice(n, 0)]
      BY <1>0, <1>2, <2>2
    <3>2. PICK c \in Events : /\ mine[c] = s
                              /\ \/ Voice(n, 0).part > 0
                                 \/ Voice(n, 0) = Greeting
                                 \/ Kind[c] = "message" /\ Voice(n, 0) = Answer(c) /\ at'[c] = "speaking"
      BY <2>2, <3>1, TalkMoves
    <3>3. Voice(n, 0).part = 0 /\ Voice(n, 0).turn = n /\ Greeting.turn = 0 /\ Answer(c).turn = turn[c]
      BY DEF Voice, Greeting, Answer
    <3>4. Kind[c] = "message" /\ at'[c] = "speaking" /\ turn[c] = n
      BY <1>2, <3>2, <3>3
    <3>5. at[c] # "idle"
      BY <1>0, <3>2 DEF OrderInv, TurnInv
    <3> QED  BY <3>2, <3>4, <3>5, EventsMove DEF Messages
  <2> QED  BY <2>1, <2>2
<1>3. ASSUME NEW s \in Starts, registered' = s, NEW v \in Voices PROVE talk'[s][v] # "failed"
  <2>1. CASE registered = s
    <3>1. talk[s][v] # "failed" /\ registered # None
      BY <1>0, <2>1 DEF SpokenInv, SpokenOf
    <3> QED  BY <3>1, TalkMoves
  <2>2. CASE registered # s
    <3>1. at[s] = "idle"
      BY <1>0, <1>3, <2>2, RegisteredMoves
    <3> QED  BY <1>1, <3>1
  <2> QED  BY <2>1, <2>2
<1>4. ASSUME NEW c \in Messages, NEW d \in Messages, mine'[c] = mine'[d], mine'[c] # None, turn'[c] = turn'[d], c # d,
             at[c] = "idle"
      PROVE  FALSE
  <2>1. c \in Events /\ d \in Events /\ Kind[d] = "message"
    BY DEF Messages
  <2>2. mine'[c] \in Starts /\ turn'[c] = turnN[mine'[c]] + 1 /\ mine'[d] = mine[d] /\ turn'[d] = turn[d]
    BY <1>4, <2>1, NumbersMove
  <2>3. turn[d] \in 1..turnN[mine[d]] /\ turnN[mine[d]] \in Nat
    BY <1>0, <1>4, <2>1, <2>2 DEF OrderInv, TurnInv, WebTypes
  <2>4. turn[d] = turnN[mine[d]] + 1
    BY <1>4, <2>2
  <2> QED  BY <2>3, <2>4
<1>5. ASSUME NEW c \in Messages, NEW d \in Messages, mine'[c] = mine'[d], mine'[c] # None, turn'[c] = turn'[d]
      PROVE  c = d
  <2>1. c \in Events /\ d \in Events
    BY DEF Messages
  <2>2. CASE at[c] # "idle" /\ at[d] # "idle"
    <3>1. mine'[c] = mine[c] /\ turn'[c] = turn[c] /\ mine'[d] = mine[d] /\ turn'[d] = turn[d]
      BY <2>1, <2>2, EventsMove
    <3> QED  BY <1>5, <3>1 DEF SpokenInv
  <2>3. CASE at[c] = "idle"
    BY <1>4, <1>5, <2>3
  <2>4. CASE at[d] = "idle"
    BY <1>4, <1>5, <2>4
  <2> QED  BY <2>2, <2>3, <2>4
<1>6. ASSUME NEW c \in Events PROVE task'[c] # "raised"
  <2>1. task \in [Events -> {"none", "running", "quiet", "scripted", "generate", "raised"}] /\ task[c] # "raised"
    BY <1>0 DEF TypeOK, SpokenInv
  <2>2. CASE task' = task
    BY <2>1, <2>2
  <2>3. ASSUME NEW d \in Events, BeginTurn(d) \/ TurnEnds(d) PROVE task'[c] # "raised"
    <3>1. task' = task \/ \E r \in {"running", "quiet", "scripted", "generate"} : task' = [task EXCEPT ![d] = r]
      BY <2>3 DEF BeginTurn, TurnEnds
    <3> QED  BY <2>1, <3>1
  <2>4. \A d \in Events : ~TurnRaises(d)
    BY DEF TurnRaises, Faultless
  <2>5. ASSUME NEW d \in Events, Iterate(d), ~BeginTurn(d) PROVE task' = task
    BY <2>5 DEF Iterate, Greeted, SpeakGreeting, WakeWithItem, Resume, WakeAtEnd,
         FillerAwaited, Drain, Answered, Generated, SpeakAnswer, SpeechFailed, EmitAudio, Close
  <2>6. ASSUME NEW d \in Events, Refused(d) \/ Start(d) \/ End(d) \/ Message(d) \/ Disconnect(d) \/ Take(d) \/ TurnFills(d)
        PROVE  task' = task
    BY <2>6 DEF Refused, Start, End, Message, Disconnect, Take, TurnFills
  <2>7. ASSUME NEW s \in Starts, NEW v \in Voices, Play(s, v) \/ FailSpeech(s, v) PROVE task' = task
    BY <2>7 DEF Play, StartFiller, Chunk, EndSpeech, FailSpeech
  <2>8. UNCHANGED vars => task' = task
    BY DEF vars
  <2> QED  BY <2>2, <2>3, <2>4, <2>5, <2>6, <2>7, <2>8 DEF Next
<1>7. ASSUME NEW s \in Starts PROVE SpokenOf(s)'
  <2>1. at'[s] = "idle" => at[s] = "idle"
    BY <1>0, EventsMove
  <2> QED  BY <1>1, <1>2, <1>3, <2>1 DEF SpokenOf
<1> QED  BY <1>5, <1>6, <1>7 DEF SpokenInv

(* What an iteration and its tasks leave alone.                                *)
Untouched(c) ==
    /\ UNCHANGED <<registered, mine, turn>>
    /\ \A d \in Events \ {c} : /\ at'[d] = at[d] /\ getting'[d] = getting[d] /\ hand'[d] = hand[d]
                               /\ filler'[d] = filler[d] /\ out'[d] = out[d] /\ put'[d] = put[d] /\ task'[d] = task[d]
    /\ \A s \in Starts \ {mine[c]} : queue'[s] = queue[s] /\ talk'[s] = talk[s] /\ live'[s] = live[s]

(* An iteration changes its own state and its own incarnation's only.          *)
LEMMA IterationAlone ==
  ASSUME OrderInv, WorkInv, NEW c \in Events, Iterate(c) \/ Take(c) \/ TurnFills(c) \/ TurnEnds(c)
  PROVE  Untouched(c)
<1>0. TypeOK
  BY DEF WorkInv
<1>1. UNCHANGED <<registered, mine, turn>>
  BY DEF Iterate, Take, TurnFills, TurnEnds, Greeted, SpeakGreeting, BeginTurn, WakeWithItem, Resume, WakeAtEnd,
         FillerAwaited, Drain, Answered, Generated, SpeakAnswer, SpeechFailed, EmitAudio, Close, sessionVars, callVars
<1>2. ASSUME NEW l, Go(c, l) PROVE \A d \in Events \ {c} : at'[d] = at[d]
  BY <1>0, <1>2 DEF Go, TypeOK
<1>3. ASSUME NEW e, Show(c, e) PROVE \A d \in Events \ {c} : out'[d] = out[d]
  BY <1>0, <1>3 DEF Show, TypeOK
<1>4. ASSUME NEW l, NEW e, Yield(c, e, l)
      PROVE  \A d \in Events \ {c} : at'[d] = at[d] /\ out'[d] = out[d]
  BY <1>2, <1>3, <1>4 DEF Yield, Leave
<1>5. ASSUME NEW l, YieldItem(c, l)
      PROVE  /\ \A d \in Events \ {c} : at'[d] = at[d] /\ out'[d] = out[d]
             /\ \A s \in Starts \ {mine[c]} : queue'[s] = queue[s]
  <2>1. \A s \in Starts \ {mine[c]} : queue'[s] = queue[s]
    BY <1>0, <1>5 DEF YieldItem, TypeOK
  <2>2. (out' = out /\ Go(c, l)) \/ \E e : Yield(c, e, l)
    BY <1>5 DEF YieldItem
  <2> QED  BY <1>2, <1>4, <2>1, <2>2
<1>6. ASSUME NEW v, BargeIn(mine[c], v) PROVE \A s \in Starts \ {mine[c]} : live'[s] = live[s]
  BY <1>0, <1>6 DEF BargeIn, TypeOK, audioVars
<1>7. ASSUME NEW b, Finish(c, b)
      PROVE  /\ \A d \in Events \ {c} : at'[d] = at[d] /\ getting'[d] = getting[d]
             /\ \A s \in Starts \ {mine[c]} : live'[s] = live[s]
  <2>1. \A d \in Events \ {c} : at'[d] = at[d] /\ getting'[d] = getting[d]
    BY <1>0, <1>7, FinishMoves
  <2>2. live' = live \/ \E v : BargeIn(mine[c], v)
    BY <1>7 DEF Finish, audioVars
  <2> QED  BY <1>6, <2>1, <2>2
<1>8. ASSUME NEW b, Continue(c, b)
      PROVE  /\ \A d \in Events \ {c} : at'[d] = at[d] /\ getting'[d] = getting[d] /\ hand'[d] = hand[d] /\ filler'[d] = filler[d]
             /\ \A s \in Starts \ {mine[c]} : live'[s] = live[s] /\ talk'[s] = talk[s]
  <2>1. \A d \in Events \ {c} : at'[d] = at[d] /\ getting'[d] = getting[d] /\ hand'[d] = hand[d]
    BY <1>0, <1>8, ContinueMoves
  <2>2. live' = live \/ \E x : Finish(c, x)
    BY <1>8 DEF Continue, audioVars
  <2>3. /\ filler' = filler \/ \E v : filler' = [filler EXCEPT ![c] = v]
        /\ talk' = talk \/ \E v : talk' = [talk EXCEPT ![mine[c]][v] = "made"]
    BY <1>8 DEF Continue
  <2>4. \A d \in Events \ {c} : filler'[d] = filler[d]
    BY <1>0, <2>3 DEF TypeOK
  <2>5. \A s \in Starts \ {mine[c]} : talk'[s] = talk[s]
    BY <1>0, <2>3 DEF TypeOK
  <2> QED  BY <1>7, <2>1, <2>2, <2>4, <2>5
<1>9. ASSUME NEW v, Speak(mine[c], v) PROVE \A s \in Starts \ {mine[c]} : live'[s] = live[s] /\ talk'[s] = talk[s]
  BY <1>0, <1>9 DEF Speak, TypeOK
<1>10. CASE Greeted(c) \/ Close(c)
  <2>1. \E l : Go(c, l)
    BY <1>10 DEF Greeted, Close, Leave
  <2>2. UNCHANGED <<queue, talk, live, getting, hand, filler, out, put, task>>
    BY <1>10 DEF Greeted, Close, audioVars
  <2> QED  BY <1>1, <1>2, <2>1, <2>2 DEF Untouched
<1>11. CASE SpeakGreeting(c)
  <2>1. \E l : Go(c, l)
    BY <1>11 DEF SpeakGreeting, Leave
  <2>2. UNCHANGED <<queue, getting, hand, filler, out, put, task>> /\ (UNCHANGED <<talk, live>> \/ Speak(c, Greeting))
    BY <1>11 DEF SpeakGreeting, audioVars
  <2>3. mine[c] = c
    BY <1>11, WebAssumption DEF SpeakGreeting, OrderInv, LineInv, InLine, TurnInv, Starts
  <2> QED  BY <1>1, <1>2, <1>9, <2>1, <2>2, <2>3 DEF Untouched
<1>12. CASE SpeakAnswer(c)
  <2>1. \E l : Go(c, l)
    BY <1>12 DEF SpeakAnswer, Leave
  <2>2. UNCHANGED <<queue, getting, hand, filler, out, put, task>> /\ (UNCHANGED <<talk, live>> \/ Speak(mine[c], Answer(c)))
    BY <1>12 DEF SpeakAnswer, audioVars
  <2> QED  BY <1>1, <1>2, <1>9, <2>1, <2>2 DEF Untouched
<1>13. CASE BeginTurn(c) \/ FillerAwaited(c)
  <2>1. \E l : Go(c, l)
    BY <1>13 DEF BeginTurn, FillerAwaited, Leave
  <2>2. UNCHANGED <<queue, talk, live, filler, out, put>>
    BY <1>13 DEF BeginTurn, FillerAwaited, audioVars
  <2>3. \A d \in Events \ {c} : getting'[d] = getting[d] /\ hand'[d] = hand[d] /\ task'[d] = task[d]
    BY <1>0, <1>13 DEF BeginTurn, FillerAwaited, TypeOK
  <2> QED  BY <1>1, <1>2, <2>1, <2>2, <2>3 DEF Untouched
<1>14. CASE Answered(c) \/ Generated(c) \/ SpeechFailed(c)
  <2>1. UNCHANGED <<queue, talk, live, getting, hand, filler, put, task>>
    BY <1>14 DEF Answered, Generated, SpeechFailed, audioVars
  <2>2. (out' = out /\ \E l : Go(c, l)) \/ \E e, l : Yield(c, e, l)
    BY <1>14 DEF Answered, Generated, SpeechFailed
  <2> QED  BY <1>1, <1>2, <1>4, <2>1, <2>2 DEF Untouched
<1>15. CASE Drain(c) \/ EmitAudio(c)
  <2>1. UNCHANGED <<talk, live, getting, hand, filler, put, task>>
    BY <1>15 DEF Drain, EmitAudio, audioVars
  <2>2. (\E l : YieldItem(c, l)) \/ (\E l : Go(c, l) /\ UNCHANGED <<queue, out>>)
    BY <1>15 DEF Drain, EmitAudio, Leave
  <2> QED  BY <1>1, <1>2, <1>5, <2>1, <2>2 DEF Untouched
<1>16. CASE WakeAtEnd(c)
  <2>1. UNCHANGED <<queue, talk, hand, filler, out, put, task>> /\ \E b : Finish(c, b)
    BY <1>16 DEF WakeAtEnd
  <2> QED  BY <1>1, <1>7, <2>1 DEF Untouched
<1>17. CASE WakeWithItem(c)
  <2>1. UNCHANGED <<queue, put, task>>
    BY <1>17 DEF WakeWithItem
  <2>2. \/ out' = out /\ \E b : Continue(c, b)
        \/ UNCHANGED <<talk, live, getting, hand, filler>> /\ \E e, l : Yield(c, e, l)
    <3>1. \/ out' = out /\ Continue(c, Ended(c))
          \/ /\ UNCHANGED <<talk, live, getting, hand, filler>>
             /\ Yield(c, hand[c][1], IF Ended(c) THEN "midEnded" ELSE "mid")
      BY <1>17 DEF WakeWithItem, audioVars
    <3> QED  BY <3>1
  <2> QED  BY <1>1, <1>4, <1>8, <2>1, <2>2 DEF Untouched
<1>18. CASE Resume(c)
  <2>1. UNCHANGED <<queue, out, put, task>> /\ \E b : Continue(c, b)
    BY <1>18 DEF Resume
  <2> QED  BY <1>1, <1>8, <2>1 DEF Untouched
<1>19. CASE Take(c) \/ TurnFills(c) \/ TurnEnds(c)
  <2>1. UNCHANGED <<talk, live, at, filler, out>>
    BY <1>19 DEF Take, TurnFills, TurnEnds, audioVars, callVars
  <2>2. \A d \in Events \ {c} : getting'[d] = getting[d] /\ hand'[d] = hand[d] /\ put'[d] = put[d] /\ task'[d] = task[d]
    BY <1>0, <1>19 DEF Take, TurnFills, TurnEnds, TypeOK
  <2>3. queue' = queue \/ \E q : queue' = [queue EXCEPT ![mine[c]] = q]
    BY <1>19 DEF Take, TurnFills, TurnEnds
  <2>4. \A s \in Starts \ {mine[c]} : queue'[s] = queue[s]
    BY <1>0, <2>3 DEF TypeOK
  <2> QED  BY <1>1, <2>1, <2>2, <2>4 DEF Untouched
<1> QED  BY <1>10, <1>11, <1>12, <1>13, <1>14, <1>15, <1>16, <1>17, <1>18, <1>19 DEF Iterate

(* What iterations of another incarnation do leaves the registered session as  *)
(* it is; so does an iteration of its own that has not the floor.              *)
LEMMA Elsewhere ==
  ASSUME FloorInv, registered' = registered,
         \A c \in Events : mine[c] = registered /\ mine[c] # None => mine'[c] = mine[c],
         \A s \in Starts : registered = s =>
           /\ queue'[s] = queue[s] /\ talk'[s] = talk[s] /\ \A v \in Voices : Active(s, v)' => Active(s, v)
           /\ \A c \in Events : mine'[c] = s =>
                \/ /\ mine[c] = s /\ at'[c] = at[c] /\ turn'[c] = turn[c] /\ getting'[c] = getting[c] /\ hand'[c] = hand[c]
                   /\ filler'[c] = filler[c] /\ out'[c] = out[c] /\ put'[c] = put[c]
                \/ /\ at'[c] \notin Holding /\ (mine[c] = s => at[c] \notin Holding)
                   /\ (mine[c] = s /\ Off(c) => Off(c)') /\ (mine[c] # s => Off(c)')
  PROVE  FloorInv'
<1> SUFFICES ASSUME NEW s \in Starts, registered' = s
             PROVE  /\ \A c \in Events : mine'[c] = s => IF at'[c] \in Holding THEN Floor(c)' ELSE Off(c)'
                    /\ (\A c \in Events : mine'[c] = s => at'[c] \notin Holding) => Settled(s)'
  BY DEF FloorInv, Holding
<1>0. registered = s /\ s # None
  BY WebAssumption DEF Starts
<1>1. ASSUME NEW c \in Events, mine'[c] = s PROVE IF at'[c] \in Holding THEN Floor(c)' ELSE Off(c)'
  <2>1. CASE /\ mine[c] = s /\ at'[c] = at[c] /\ turn'[c] = turn[c] /\ getting'[c] = getting[c] /\ hand'[c] = hand[c]
             /\ filler'[c] = filler[c] /\ out'[c] = out[c] /\ put'[c] = put[c]
    <3>1. CASE at[c] \in Holding
      <4>1. Floor(c)
        BY <1>0, <2>1, <3>1 DEF FloorInv
      <4>2. Reads(c)' /\ Owned(c)' /\ Tells(c)'
        BY <1>0, <1>1, <2>1, <4>1 DEF Floor, Reads, Off, Owned, Tells, AtHand
      <4>3. Heard(c)'
        BY <1>0, <1>1, <2>1, <4>1 DEF Floor, Heard, Speaks, Answer
      <4> QED  BY <2>1, <3>1, <4>2, <4>3 DEF Floor
    <3>2. CASE at[c] \notin Holding
      BY <1>0, <2>1, <3>2 DEF FloorInv, Off
    <3> QED  BY <3>1, <3>2
  <2>2. CASE /\ at'[c] \notin Holding /\ (mine[c] = s => at[c] \notin Holding)
             /\ (mine[c] = s /\ Off(c) => Off(c)') /\ (mine[c] # s => Off(c)')
    BY <1>0, <2>2 DEF FloorInv
  <2> QED  BY <1>0, <1>1, <2>1, <2>2
<1>2. ASSUME \A c \in Events : mine'[c] = s => at'[c] \notin Holding PROVE Settled(s)'
  <2>1. ASSUME NEW c \in Events, mine[c] = s PROVE at[c] \notin Holding
    <3>1. mine'[c] = s
      BY <1>0, <2>1
    <3> QED  BY <1>0, <1>2, <2>1, <3>1
  <2>2. Settled(s)
    BY <1>0, <2>1 DEF FloorInv
  <2> QED  BY <1>0, <2>2 DEF Settled
<1> QED  BY <1>1, <1>2

(* So an iteration of an incarnation that was ended or replaced does not touch *)
(* the floor of the registered one.                                            *)
LEMMA OtherSession ==
  ASSUME OrderInv, FloorInv, NEW c \in Events, registered # mine[c], Untouched(c)
  PROVE  FloorInv'
<1>1. ASSUME NEW s \in Starts, registered = s
      PROVE  /\ queue'[s] = queue[s] /\ talk'[s] = talk[s] /\ \A v \in Voices : Active(s, v)' => Active(s, v)
             /\ \A d \in Events : mine'[d] = s =>
                  /\ mine[d] = s /\ at'[d] = at[d] /\ turn'[d] = turn[d] /\ getting'[d] = getting[d] /\ hand'[d] = hand[d]
                  /\ filler'[d] = filler[d] /\ out'[d] = out[d] /\ put'[d] = put[d]
  <2>1. s # mine[c] /\ queue'[s] = queue[s] /\ talk'[s] = talk[s] /\ live'[s] = live[s]
    BY <1>1 DEF Untouched
  <2>2. \A v \in Voices : Active(s, v)' => Active(s, v)
    BY <2>1 DEF Active
  <2>3. ASSUME NEW d \in Events, mine'[d] = s PROVE d # c /\ mine[d] = s
    BY <2>1, <2>3 DEF Untouched
  <2> QED  BY <2>1, <2>2, <2>3 DEF Untouched
<1>2. registered' = registered /\ mine' = mine
  BY DEF Untouched
<1> QED  BY <1>1, <1>2, Elsewhere

(* The iteration that has or gets the floor answers for the session.           *)
LEMMA Held ==
  ASSUME OrderInv, FloorInv, NEW c \in Events, registered = mine[c], mine[c] \in Starts, Untouched(c),
         at[c] \in Holding \/ (at[c] = "lock" /\ Head(line[mine[c]]) = c),
         IF at'[c] \in Holding THEN Floor(c)' ELSE Off(c)' /\ Settled(mine[c])'
  PROVE  FloorInv'
<1>1. registered' = mine[c] /\ mine' = mine
  BY DEF Untouched
<1>2. ASSUME NEW d \in Events, d # c, mine[d] = mine[c] PROVE at[d] \notin Holding /\ Off(d)'
  <2>1. at[d] \notin Holding
    <3> SUFFICES ASSUME at[d] \in Holding PROVE FALSE
      OBVIOUS
    <3> QED  BY <1>2, OneHolder
  <2>2. Off(d)
    BY <1>2, <2>1 DEF FloorInv
  <2> QED  BY <1>2, <2>1, <2>2 DEF Off, Untouched
<1>3. ASSUME NEW d \in Events, mine'[d] = mine[c] PROVE IF at'[d] \in Holding THEN Floor(d)' ELSE Off(d)'
  <2>1. CASE d = c
    BY <2>1
  <2>2. CASE d # c
    BY <1>1, <1>2, <1>3, <2>2 DEF Untouched
  <2> QED  BY <2>1, <2>2
<1>4. (\A d \in Events : mine'[d] = mine[c] => at'[d] \notin Holding) => Settled(mine[c])'
  BY <1>1
<1>5. \A s \in Starts : registered' = s => s = mine[c]
  BY <1>1
<1> QED  BY <1>1, <1>3, <1>4, <1>5 DEF FloorInv, Holding

(* The iteration between lock and end has the floor.                           *)
LEMMA HasFloor ==
  ASSUME FloorInv, NEW c \in Events, registered = mine[c], mine[c] \in Starts, at[c] \in Holding
  PROVE  Floor(c)
BY DEF FloorInv

(* Whoever gets the lock finds the session settled.                            *)
LEMMA FloorFree ==
  ASSUME OrderInv, FloorInv, NEW c \in Events, registered = mine[c], mine[c] \in Starts,
         at[c] = "lock", Head(line[mine[c]]) = c
  PROVE  Off(c) /\ Settled(mine[c])
<1>1. at[c] \notin Holding
  BY DEF Holding
<1>2. ASSUME NEW d \in Events, mine[d] = mine[c], at[d] \in Holding PROVE FALSE
  <2>1. d = c
    BY <1>2, OneHolder
  <2> QED  BY <1>1, <1>2, <2>1
<1> QED  BY <1>1, <1>2 DEF FloorInv

(* An answer is not spoken before its turn is over.                            *)
LEMMA Unspoken ==
  ASSUME OrderInv, WorkInv, SpokenInv, NEW c \in Events, at[c] \in Reading
  PROVE  talk[mine[c]][Answer(c)] = "none"
<1>1. mine[c] \in Starts /\ mine[c] # None /\ Kind[c] = "message" /\ c \in Messages
  BY WebAssumption DEF OrderInv, LineInv, InLine, Holding, Points, Reading, WorkInv, TasksInv, TasksOf, Starts, Messages
<1>2. turn[c] \in Turns /\ turn[c] # 0
  BY <1>1 DEF WorkInv, TypeOK, OrderInv, TurnInv, WebTypes
<1>3. ASSUME NEW d \in Messages, mine[d] = mine[c], turn[d] = turn[c], at[d] \in {"speaking", "emit", "closing", "over"}
      PROVE  FALSE
  <2>1. d = c
    BY <1>1, <1>3 DEF SpokenInv
  <2> QED  BY <1>3, <2>1 DEF Reading
<1> QED  BY <1>1, <1>2, <1>3 DEF SpokenInv, SpokenOf, Answer

(* Nobody speaks but the one who reads or speaks.                              *)
LEMMA Quiet ==
  ASSUME NEW c \in Events, Heard(c), at[c] \notin Reading, at[c] # "speaking"
  PROVE  \A v \in Voices : ~Active(mine[c], v)
BY DEF Heard, Speaks

(* No voice is the missing one.                                                *)
LEMMA NoVoice == None \notin Voices
<1>1. \A n \in Turns : n \in Nat
  BY Bounds DEF Turns
<1>2. \A v \in Voices : v \in [turn : Nat, part : Nat]
  BY <1>1, Bounds DEF Voices
<1> QED  BY <1>2, WebAssumption

(* Before an item: the filler has begun, and nothing else goes on.             *)
LEMMA Alone ==
  ASSUME NEW c \in Events, Heard(c), at[c] \in Reading \ {"awaitFiller"}, at[c] = "wait" => FillerStarted(c)
  PROVE  \A v \in Voices : Active(mine[c], v) => v.turn = turn[c] /\ v.part > 0 /\ filler[c] # None /\ v = filler[c]
BY DEF Heard, Speaks, FillerStarted, Reading

(* An item is shown and not yet done with.                                     *)
LEMMA FloorYields ==
  ASSUME OrderInv, WorkInv, SpokenInv, ShownInv, FloorInv, NEW c \in Events, registered = mine[c],
         at[c] = "wait", hand[c] # <<>>, FillerStarted(c), NEW l \in {"mid", "midEnded"}, Yield(c, hand[c][1], l),
         Untouched(c), UNCHANGED <<queue, live, talk, getting, hand, filler, put>>
  PROVE  FloorInv'
<1>0. TypeOK /\ mine[c] \in Starts /\ at[c] \in Holding /\ Kind[c] = "message"
  BY DEF WorkInv, TasksInv, TasksOf, Holding, Points
<1>1. Floor(c)
  BY <1>0, HasFloor
<1>2. at'[c] = l /\ out'[c] = Append(out[c], hand[c][1]) /\ UNCHANGED <<registered, mine, turn>>
  BY <1>0 DEF Yield, Owns, Go, Show, TypeOK, Untouched
<1>3. Reads(c)'
  BY <1>2 DEF Reads, Reading
<1>4. Heard(c)'
  <2>1. \A v \in Voices : Active(mine[c], v) => v.turn = turn[c] /\ v.part > 0 /\ filler[c] # None /\ v = filler[c]
    BY <1>1, Alone DEF Floor, Reading
  <2>2. \A v \in Voices : Active(mine[c], v)' => Active(mine[c], v)
    BY <1>2 DEF Active
  <2> QED  BY <1>2, <2>1, <2>2 DEF Heard, Speaks, FillerStarted, Reading
<1>5. Owned(c)'
  BY <1>1, <1>2 DEF Floor, Owned
<1>6. Tells(c)'
  <2>1. out[c] \in Seq(Items) /\ queue[mine[c]] \in Seq(Items) /\ hand[c] \in Seq(Items) /\ put[c] \in Nat
    BY <1>0, WebAssumption DEF TypeOK
  <2>2. Told(out[c], hand[c], queue[mine[c]], put[c], turn[c]) /\ Ascending(out[c], put[c])
    BY <1>0, <1>1 DEF Floor, Tells, AtHand, ShownInv, ShownOf
  <2>3. Told(Append(out[c], hand[c][1]), <<>>, queue[mine[c]], put[c], turn[c])
    BY <2>1, <2>2, ToldShow
  <2> QED  BY <1>2, <2>3 DEF Tells, AtHand
<1>7. at'[c] \in Holding
  BY <1>2 DEF Holding, Points
<1> QED  BY <1>0, <1>3, <1>4, <1>5, <1>6, <1>7, Held DEF Floor

(* It is done with: the turn is waited for on or over.                         *)
LEMMA FloorContinues ==
  ASSUME OrderInv, WorkInv, SpokenInv, FloorInv, NEW c \in Events, registered = mine[c],
         at[c] \in {"wait", "mid", "midEnded"}, hand[c] # <<>>, at[c] = "wait" => hand[c][1].kind = "teardown",
         at[c] = "wait" => FillerStarted(c), NEW b, Continue(c, b),
         Untouched(c), UNCHANGED <<queue, out, put, task>>
  PROVE  FloorInv'
<1> DEFINE s == mine[c]
<1>0. /\ TypeOK /\ s \in Starts /\ at[c] \in Holding /\ Kind[c] = "message" /\ ~getting[c] /\ task[c] # "raised"
      /\ at[c] \in Reading \ {"awaitFiller"}
  BY DEF WorkInv, TasksInv, TasksOf, Holding, Points, SpokenInv, Reading
<1>1. Floor(c)
  BY <1>0, HasFloor
<1>2. UNCHANGED <<registered, mine, turn>> /\ hand'[c] = <<>>
  BY <1>0, ContinueMoves DEF Untouched
<1>3. \A v \in Voices : Active(s, v) => v.turn = turn[c] /\ v.part > 0 /\ filler[c] # None /\ v = filler[c]
  BY <1>0, <1>1, Alone DEF Floor
<1>4. Owned(c)'
  BY <1>1, <1>2 DEF Floor, Owned
<1>5. Tells(c)'
  <2>1. Told(out[c], AtHand(c), queue[s], put[c], turn[c])
    BY <1>0, <1>1 DEF Floor, Tells
  <2>2. AtHand(c) # <<>> => AtHand(c)[1].kind # "filler"
    BY DEF AtHand
  <2>3. Told(out[c], <<>>, queue[s], put[c], turn[c])
    BY <2>1, <2>2, ToldDrop
  <2>4. AtHand(c)' = <<>>
    BY <1>2 DEF AtHand
  <2> QED  BY <1>2, <2>3, <2>4 DEF Tells
<1>6. /\ talk \in [Starts -> [Voices -> {"none", "made", "begun", "voiced", "over", "failed"}]]
      /\ filler \in [Events -> Voices \cup {None}] /\ None \notin Voices
  BY <1>0, NoVoice DEF TypeOK
<1>7. \/ UNCHANGED <<talk, filler>>
      \/ /\ tts /\ hand[c][1].kind = "filler"
         /\ \E v \in Voices : /\ v.turn = turn[c] /\ v.part > 0
                              /\ filler'[c] = v
                              /\ \A w \in Voices : talk'[s][w] = IF w = v THEN "made" ELSE talk[s][w]
  <2>1. CASE UNCHANGED <<talk, filler>>
    BY <2>1
  <2>2. ASSUME tts, hand[c][1].kind = "filler", NEW v \in Voices, v.turn = turn[c], v.part > 0,
               filler' = [filler EXCEPT ![c] = v], talk' = [talk EXCEPT ![s][v] = "made"]
        PROVE  /\ filler'[c] = v
               /\ \A w \in Voices : talk'[s][w] = IF w = v THEN "made" ELSE talk[s][w]
    <3>1. filler'[c] = v
      BY <1>6, <2>2
    <3>2. \A w \in Voices : talk'[s][w] = IF w = v THEN "made" ELSE talk[s][w]
      <4>1. TypeOK /\ s \in Starts /\ v \in Voices /\ talk' = [talk EXCEPT ![s][v] = "made"]
        BY <1>0, <2>2
      <4>2. talk'[s] = [talk[s] EXCEPT ![v] = "made"]
        BY <1>6, <4>1
      <4> QED  BY <1>6, <4>1, <4>2
    <3> QED  BY <3>1, <3>2
  <2> QED  BY <1>0, <2>1, <2>2, ContinueTalks, ZenonT(40)
<1>8. ASSUME at'[c] = "wait", UNCHANGED audioVars PROVE Heard(c)'
  <2>1. ASSUME NEW v \in Voices, Active(s, v)' PROVE Speaks(c, v)'
    <3>1. CASE UNCHANGED <<talk, filler>>
      <4>1. Active(s, v)
        BY <1>2, <1>8, <2>1, <3>1 DEF Active, audioVars
      <4> QED  BY <1>2, <1>3, <1>8, <3>1, <4>1 DEF Speaks, Reading
    <3>2. CASE \E w \in Voices : /\ w.turn = turn[c] /\ w.part > 0 /\ filler'[c] = w
                                 /\ \A x \in Voices : talk'[s][x] = IF x = w THEN "made" ELSE talk[s][x]
      <4>1. PICK w \in Voices : /\ w.turn = turn[c] /\ w.part > 0 /\ filler'[c] = w
                                /\ \A x \in Voices : talk'[s][x] = IF x = w THEN "made" ELSE talk[s][x]
        BY <3>2
      <4>2. CASE v = w
        BY <1>2, <1>6, <1>8, <4>1, <4>2 DEF Speaks, Reading
      <4>3. CASE v # w
        <5>1. Active(s, v) /\ talk'[s][v] = talk[s][v]
          BY <1>2, <1>8, <2>1, <4>1, <4>3 DEF Active, audioVars
        <5>2. v = filler[c] /\ filler[c] # None /\ v.turn = turn[c] /\ v.part > 0
          BY <1>3, <5>1
        <5>3. talk[s][v] # "made"
          BY <1>0, <1>1, <5>2 DEF Floor, Heard, FillerStarted, Reading
        <5>4. talk'[s][v] = "begun" /\ talk'[s][filler'[c]] = "made" /\ filler'[c] # None
          BY <1>6, <4>1, <5>1, <5>3 DEF Active
        <5> QED  BY <1>2, <1>8, <5>2, <5>4 DEF Speaks, Reading
      <4> QED  BY <4>2, <4>3
    <3> QED  BY <1>7, <3>1, <3>2
  <2> QED  BY <1>2, <1>8, <2>1 DEF Heard
<1>9. talk[s][Answer(c)] = "none" /\ Answer(c) \in Voices /\ Answer(c).part = 0
  BY <1>0, Unspoken, AnswerTyped DEF Reading
<1>10. ASSUME at'[c] = "awaitFiller", filler'[c] # None, BargeIn(s, Answer(c)) PROVE Heard(c)'
  <2>1. UNCHANGED live \/ (tts /\ live'[s] = Answer(c))
    BY <1>0, <1>10 DEF BargeIn, TypeOK, audioVars
  <2>2. ASSUME NEW v \in Voices, Active(s, v)' PROVE Speaks(c, v)'
    <3>1. CASE UNCHANGED <<talk, filler>>
      <4>1. Active(s, v)
        BY <1>2, <1>9, <2>1, <2>2, <3>1 DEF Active
      <4> QED  BY <1>2, <1>3, <1>10, <3>1, <4>1 DEF Speaks, Reading
    <3>2. CASE /\ tts
               /\ \E w \in Voices : /\ w.turn = turn[c] /\ w.part > 0 /\ filler'[c] = w
                                    /\ \A x \in Voices : talk'[s][x] = IF x = w THEN "made" ELSE talk[s][x]
      <4>1. PICK w \in Voices : /\ w.turn = turn[c] /\ w.part > 0 /\ filler'[c] = w
                                /\ \A x \in Voices : talk'[s][x] = IF x = w THEN "made" ELSE talk[s][x]
        BY <3>2
      <4>2. CASE v = w
        BY <1>2, <1>6, <1>10, <4>1, <4>2 DEF Speaks, Reading
      <4>3. CASE v # w
        <5>1. talk'[s][v] = talk[s][v]
          BY <4>1, <4>3
        <5>2. live'[s] = Answer(c)
          BY <1>10, <3>2, <1>0 DEF BargeIn, TypeOK
        <5>3. talk[s][v] = "made"
          BY <1>2, <1>9, <2>2, <5>1, <5>2 DEF Active
        <5>4. v = filler[c] /\ filler[c] # None
          BY <1>3, <5>3 DEF Active
        <5>5. talk[s][v] # "made"
          BY <1>0, <1>1, <5>4 DEF Floor, Heard, FillerStarted, Reading
        <5> QED  BY <5>3, <5>5
      <4> QED  BY <4>2, <4>3
    <3> QED  BY <1>7, <3>1, <3>2
  <2> QED  BY <1>2, <1>10, <2>2 DEF Heard
<1>11. ASSUME at'[c] = "drain", UNCHANGED <<talk, live>>, ~(filler[c] # None /\ Underway(s, filler[c])) PROVE Heard(c)'
  <2>1. ASSUME NEW v \in Voices, Active(s, v)' PROVE FALSE
    <3>1. Active(s, v)
      BY <1>2, <1>11, <2>1 DEF Active
    <3>2. v = filler[c] /\ filler[c] # None
      BY <1>3, <3>1
    <3> QED  BY <1>11, <3>1, <3>2 DEF Active, Underway
  <2> QED  BY <1>2, <1>11, <2>1 DEF Heard
<1>12. CASE ~b
  <2>1. at'[c] = "wait" /\ UNCHANGED audioVars
    BY <1>0, <1>12 DEF Continue, Go, TypeOK
  <2>2. Reads(c)'
    BY <2>1 DEF Reads, Reading
  <2>3. at'[c] \in Holding
    BY <2>1 DEF Holding, Points
  <2> QED  BY <1>0, <1>4, <1>5, <1>8, <2>1, <2>2, <2>3, Held DEF Floor
<1>13. CASE /\ b /\ Finish(c, TRUE)
            /\ (hand[c][1].kind = "filler" /\ tts) \/ (filler[c] # None /\ Underway(s, filler[c]))
  <2>1. at'[c] = "awaitFiller" /\ BargeIn(s, Answer(c)) /\ getting' = getting
    BY <1>0, <1>13 DEF Finish, Go, TypeOK
  <2>2. Reads(c)'
    BY <1>0, <1>2, <2>1 DEF Reads, Reading
  <2>3. at'[c] \in Holding
    BY <2>1 DEF Holding, Points
  <2>4. filler'[c] # None
    <3>1. CASE filler[c] # None
      BY <1>6, <1>7, <3>1
    <3>2. CASE hand[c][1].kind = "filler" /\ tts
      BY <1>13, <3>2, <1>0, <1>6, NextVoice DEF Continue
    <3> QED  BY <1>13, <3>1, <3>2
  <2> QED  BY <1>0, <1>4, <1>5, <1>10, <2>1, <2>2, <2>3, <2>4, Held DEF Floor
<1>14. CASE /\ b /\ Finish(c, FALSE) /\ ~(hand[c][1].kind = "filler" /\ tts)
            /\ ~(filler[c] # None /\ Underway(s, filler[c]))
  <2>1. at'[c] = "drain" /\ UNCHANGED audioVars /\ getting' = [getting EXCEPT ![c] = FALSE]
    BY <1>0, <1>14 DEF Finish, Go, TypeOK
  <2>2. UNCHANGED <<talk, live>>
    BY <1>7, <1>14, <2>1 DEF audioVars
  <2>3. ~getting'[c]
    BY <1>0, <2>1 DEF TypeOK
  <2>4. Reads(c)'
    BY <1>2, <2>1, <2>3 DEF Reads, Reading, Off
  <2>5. at'[c] \in Holding
    BY <2>1 DEF Holding, Points
  <2> QED  BY <1>0, <1>4, <1>5, <1>11, <1>14, <2>1, <2>2, <2>4, <2>5, Held DEF Floor
<1>15. b => \/ /\ Finish(c, TRUE)
               /\ (hand[c][1].kind = "filler" /\ tts) \/ (filler[c] # None /\ Underway(s, filler[c]))
            \/ /\ Finish(c, FALSE) /\ ~(hand[c][1].kind = "filler" /\ tts)
               /\ ~(filler[c] # None /\ Underway(s, filler[c]))
  <2> DEFINE x == hand[c][1].kind = "filler" /\ tts
             y == filler[c] # None /\ Underway(s, filler[c])
  <2>1. b => Finish(c, x \/ y)
    BY DEF Continue
  <2>2. CASE x \/ y
    <3>1. (x \/ y) = TRUE
      BY <2>2
    <3> QED  BY <2>1, <2>2, <3>1
  <2>3. CASE ~(x \/ y)
    <3>1. (x \/ y) = FALSE
      BY <2>3
    <3> QED  BY <2>1, <2>3, <3>1
  <2> QED  BY <2>2, <2>3
<1> QED  BY <1>12, <1>13, <1>14, <1>15

(* An iteration that has the floor.                                            *)
LEMMA OnFloor ==
  ASSUME OrderInv, WorkInv, SpokenInv, FloorInv, NEW c \in Events, registered = mine[c], at[c] \in Holding
  PROVE  /\ TypeOK /\ mine[c] \in Starts /\ Floor(c) /\ task[c] # "raised"
         /\ queue[mine[c]] \in Seq(Items) /\ out[c] \in Seq(Items) /\ hand[c] \in Seq(Items) /\ put[c] \in Nat
         /\ Answer(c) \in Voices /\ Answer(c).turn = turn[c] /\ Answer(c).part = 0
         /\ talk \in [Starts -> [Voices -> {"none", "made", "begun", "voiced", "over", "failed"}]]
         /\ \A v \in Voices : talk[mine[c]][v] # "failed"
         /\ filler[c] \in Voices \cup {None} /\ None \notin Voices
<1>1. mine[c] \in Starts
  BY DEF OrderInv, LineInv, InLine
<1>2. Floor(c)
  BY <1>1, HasFloor
<1>3. \A v \in Voices : talk[mine[c]][v] # "failed"
  BY <1>1 DEF SpokenInv, SpokenOf
<1> QED  BY <1>1, <1>2, <1>3, AnswerTyped, NoVoice, WebAssumption DEF WorkInv, TypeOK, SpokenInv

(* The turn is over and no item is at hand.                                    *)
LEMMA FloorEnds ==
  ASSUME OrderInv, WorkInv, SpokenInv, FloorInv, NEW c \in Events, registered = mine[c], WakeAtEnd(c), Untouched(c)
  PROVE  FloorInv'
<1> DEFINE s == mine[c]
           y == filler[c] # None /\ Underway(s, filler[c])
<1>0. /\ at[c] = "wait" /\ at[c] \in Holding /\ hand[c] = <<>> /\ FillerStarted(c) /\ Finish(c, y)
      /\ getting[c] => \A i \in DOMAIN queue[s] : queue[s][i].kind = "audio"
      /\ UNCHANGED <<queue, talk, hand, filler, out, put>>
  BY DEF WakeAtEnd, Holding, Points
<1>1. /\ TypeOK /\ s \in Starts /\ Floor(c) /\ task[c] # "raised" /\ queue[s] \in Seq(Items)
      /\ talk[s][Answer(c)] = "none"
  <2>1. talk[s][Answer(c)] = "none"
    BY <1>0, Unspoken DEF Reading
  <2> QED  BY <1>0, <2>1, OnFloor
<1>2. UNCHANGED <<registered, mine, turn>>
  BY DEF Untouched
<1>3. \A v \in Voices : Active(s, v) => v.turn = turn[c] /\ v.part > 0 /\ filler[c] # None /\ v = filler[c]
  BY <1>0, <1>1, Alone DEF Floor, Reading
<1>4. Owned(c)'
  BY <1>0, <1>1, <1>2 DEF Floor, Owned
<1>5. Tells(c)'
  <2>1. AtHand(c) = <<>> /\ AtHand(c)' = <<>>
    BY <1>0 DEF AtHand
  <2> QED  BY <1>0, <1>1, <1>2, <2>1 DEF Floor, Tells
<1>6. \A i \in 1..Len(queue[s]) : i \in DOMAIN queue[s]
  BY <1>1
<1>7. CASE y
  <2>1. y = TRUE
    BY <1>7
  <2>2. Finish(c, TRUE)
    BY <1>0, <2>1
  <2>3. at'[c] = "awaitFiller" /\ BargeIn(s, Answer(c)) /\ getting' = getting
    BY <1>1, <2>2 DEF Finish, Go, TypeOK
  <2>4. UNCHANGED live \/ live'[s] = Answer(c)
    BY <1>1, <2>3 DEF BargeIn, TypeOK, audioVars
  <2>5. Reads(c)'
    BY <1>0, <1>2, <1>6, <2>3 DEF Reads, Reading
  <2>6. ASSUME NEW v \in Voices, Active(s, v)' PROVE Active(s, v)
    BY <1>0, <1>1, <1>2, <2>4, <2>6 DEF Active
  <2>7. Heard(c)'
    BY <1>0, <1>2, <1>3, <1>7, <2>3, <2>6 DEF Heard, Speaks, Reading
  <2>8. at'[c] \in Holding
    BY <2>3 DEF Holding, Points
  <2> QED  BY <1>0, <1>1, <1>4, <1>5, <2>5, <2>7, <2>8, Held DEF Floor
<1>8. CASE ~y
  <2>1. y = FALSE
    BY <1>8
  <2>2. Finish(c, FALSE)
    BY <1>0, <2>1
  <2>3. at'[c] = "drain" /\ UNCHANGED live /\ ~getting'[c]
    BY <1>1, <2>2 DEF Finish, Go, TypeOK, audioVars
  <2>4. Reads(c)'
    BY <1>0, <1>2, <2>3 DEF Reads, Reading, Off
  <2>5. ASSUME NEW v \in Voices, Active(s, v)' PROVE FALSE
    <3>1. Active(s, v)
      BY <1>0, <1>2, <2>3, <2>5 DEF Active
    <3>2. v = filler[c] /\ filler[c] # None
      BY <1>3, <3>1
    <3> QED  BY <1>8, <3>1, <3>2 DEF Active, Underway
  <2>6. Heard(c)'
    BY <1>2, <2>3, <2>5 DEF Heard
  <2>7. at'[c] \in Holding
    BY <2>3 DEF Holding, Points
  <2> QED  BY <1>0, <1>1, <1>4, <1>5, <2>4, <2>6, <2>7, Held DEF Floor
<1> QED  BY <1>7, <1>8

(* The filler that was cut is over.                                            *)
LEMMA FloorAwaits ==
  ASSUME OrderInv, WorkInv, SpokenInv, FloorInv, NEW c \in Events, registered = mine[c], FillerAwaited(c), Untouched(c)
  PROVE  FloorInv'
<1> DEFINE s == mine[c]
<1>0. /\ at[c] = "awaitFiller" /\ at[c] \in Holding /\ ~Underway(s, filler[c])
      /\ UNCHANGED <<queue, talk, live, filler, out, put>>
  BY DEF FillerAwaited, Holding, Points, audioVars
<1>1. TypeOK /\ s \in Starts /\ Floor(c)
  BY <1>0, OnFloor
<1>2. UNCHANGED <<registered, mine, turn>>
  BY DEF Untouched
<1>3. CASE talk[s][filler[c]] = "failed" /\ Leave(c) /\ UNCHANGED <<getting, hand>>
  <2>1. filler[c] \in Voices \cup {None} /\ filler[c] \notin Voices
    BY <1>0, <1>3, OnFloor
  <2>2. at[c] = "awaitFiller" => filler[c] # None
    BY <1>1 DEF Floor, Heard
  <2> QED  BY <1>0, <2>1, <2>2
<1>4. CASE at'[c] = "drain" /\ getting'[c] = FALSE /\ hand'[c] = <<>>
  <2>1. Reads(c)'
    BY <1>4 DEF Reads, Reading, Off
  <2>2. ASSUME NEW v \in Voices, Active(s, v)' PROVE FALSE
    <3>1. Active(s, v)
      BY <1>0, <1>2, <2>2 DEF Active
    <3>2. v = filler[c]
      BY <1>0, <1>1, <3>1 DEF Floor, Heard, Speaks
    <3> QED  BY <1>0, <3>1, <3>2 DEF Active, Underway
  <2>3. Heard(c)'
    BY <1>2, <1>4, <2>2 DEF Heard
  <2>4. Owned(c)'
    BY <1>0, <1>1, <1>2, <1>4 DEF Floor, Owned
  <2>5. AtHand(c) = <<>> /\ AtHand(c)' = <<>>
    BY <1>0, <1>4 DEF AtHand
  <2>6. Tells(c)'
    BY <1>0, <1>1, <1>2, <2>5 DEF Floor, Tells
  <2>7. at'[c] \in Holding
    BY <1>4 DEF Holding, Points
  <2> QED  BY <1>0, <1>1, <2>1, <2>3, <2>4, <2>6, <2>7, Held DEF Floor
<1> QED  BY <1>1, <1>3, <1>4 DEF FillerAwaited, Go, TypeOK

(* An item of the queue is shown or dropped.                                   *)
LEMMA FloorDrains ==
  ASSUME OrderInv, WorkInv, SpokenInv, ShownInv, FloorInv, NEW c \in Events, registered = mine[c],
         at[c] \in {"drain", "emit"} \/ SpeechOver(c), NEW l \in {"drain", "emit"}, YieldItem(c, l), queue[mine[c]] # <<>>,
         Untouched(c), UNCHANGED <<talk, live, getting, hand, filler, put>>
  PROVE  FloorInv'
<1> DEFINE s == mine[c]
           q == queue[s]
<1>0. at[c] \in Holding /\ at[c] \notin Reading
  BY DEF SpeechOver, Holding, Points, Reading
<1>1. /\ TypeOK /\ s \in Starts /\ Floor(c) /\ q \in Seq(Items) /\ out[c] \in Seq(Items) /\ put[c] \in Nat
  BY <1>0, OnFloor
<1>2. /\ UNCHANGED <<registered, mine, turn>> /\ queue'[s] = Tail(q) /\ at'[c] = l
      /\ \/ Head(q).kind = "teardown" /\ out'[c] = out[c]
         \/ out'[c] = Append(out[c], Head(q))
  BY <1>1 DEF Untouched, YieldItem, Yield, Owns, Go, Show, TypeOK
<1>3. Reads(c)'
  BY <1>0, <1>1, <1>2 DEF Floor, Reads, Reading, Off
<1>4. Heard(c)'
  <2>1. ASSUME NEW v \in Voices, Active(s, v)' PROVE FALSE
    <3>1. Active(s, v)
      BY <1>2, <2>1 DEF Active
    <3>2. at[c] = "speaking" /\ v = Answer(c)
      BY <1>0, <1>1, <3>1 DEF Floor, Heard, Speaks
    <3>3. talk[s][v] = "over"
      BY <3>2 DEF SpeechOver
    <3> QED  BY <3>1, <3>3 DEF Active
  <2> QED  BY <1>2, <2>1 DEF Heard
<1>5. Owned(c)'
  <2>1. Len(q) \in Nat /\ Len(Tail(q)) = Len(q) - 1 /\ \A i \in 1..(Len(q) - 1) : Tail(q)[i] = q[i + 1]
    BY <1>1, Sequences
  <2>2. \A i \in 1..Len(Tail(q)) : i + 1 \in 1..Len(q) /\ Tail(q)[i] = q[i + 1]
    BY <2>1
  <2>3. \A i \in 1..Len(q) : Own(q[i], turn[c])
    BY <1>1 DEF Floor, Owned
  <2> QED  BY <1>1, <1>2, <2>2, <2>3 DEF Floor, Owned
<1>6. Tells(c)'
  <2> SUFFICES ASSUME Kind[c] = "message" PROVE Told(out'[c], <<>>, Tail(q), put[c], turn[c])
    BY <1>2 DEF Tells, AtHand
  <2>1. Told(out[c], <<>>, q, put[c], turn[c]) /\ Ascending(out[c], put[c])
    BY <1>0, <1>1 DEF Floor, Tells, AtHand, Reading, ShownInv, ShownOf
  <2>2. Told(out[c], <<Head(q)>>, Tail(q), put[c], turn[c])
    BY <1>1, <2>1, ToldTake
  <2>3. <<Head(q)>> # <<>> /\ <<Head(q)>>[1] = Head(q) /\ Head(q) \in Items /\ <<Head(q)>> \in Seq(Items) /\ Tail(q) \in Seq(Items)
    BY <1>1, Sequences
  <2>4. CASE Head(q).kind = "teardown" /\ out'[c] = out[c]
    BY <2>2, <2>3, <2>4, ToldDrop
  <2>5. CASE out'[c] = Append(out[c], Head(q))
    <3>1. Told(Append(out[c], <<Head(q)>>[1]), <<>>, Tail(q), put[c], turn[c])
      BY <1>1, <2>1, <2>2, <2>3, ToldShow
    <3> QED  BY <2>3, <2>5, <3>1
  <2> QED  BY <1>2, <2>4, <2>5
<1>7. at'[c] \in Holding
  BY <1>2 DEF Holding, Points
<1> QED  BY <1>0, <1>1, <1>3, <1>4, <1>5, <1>6, <1>7, Held DEF Floor

(* The iteration leaves: nothing is queued and nobody speaks.                  *)
LEMMA FloorLeaves ==
  ASSUME OrderInv, WorkInv, SpokenInv, FloorInv, NEW c \in Events, registered = mine[c],
         at[c] \in {"respond", "closing", "emit"} \/ SpeechOver(c), queue[mine[c]] = <<>>, Leave(c),
         Untouched(c), UNCHANGED <<queue, talk, live, getting, hand>>
  PROVE  FloorInv'
<1>0. at[c] \in Holding /\ at[c] \notin Reading
  BY DEF SpeechOver, Holding, Points, Reading
<1>1. TypeOK /\ mine[c] \in Starts /\ Floor(c)
  BY <1>0, OnFloor
<1>2. at'[c] = "over" /\ UNCHANGED <<registered, mine>>
  BY <1>1, LeaveMoves DEF Untouched
<1>3. Off(c)'
  BY <1>0, <1>1 DEF Floor, Reads, Off
<1>4. ASSUME NEW v \in Voices, Active(mine[c], v) PROVE FALSE
  <2>1. at[c] = "speaking" /\ v = Answer(c)
    BY <1>0, <1>1, <1>4 DEF Floor, Heard, Speaks
  <2>2. talk[mine[c]][v] = "over"
    BY <2>1 DEF SpeechOver
  <2> QED  BY <1>4, <2>2 DEF Active
<1>5. Settled(mine[c])'
  BY <1>2, <1>4 DEF Settled, Active
<1> QED  BY <1>0, <1>1, <1>2, <1>3, <1>5, Held DEF Holding

(* The queue is empty: the answer is given.                                    *)
LEMMA FloorAnswers ==
  ASSUME OrderInv, WorkInv, SpokenInv, FloorInv, NEW c \in Events, registered = mine[c],
         Answered(c) \/ Generated(c), Untouched(c)
  PROVE  FloorInv'
<1>0. /\ at[c] \in {"drain", "generating"} /\ at[c] \in Holding /\ at[c] \notin Reading
      /\ UNCHANGED <<queue, talk, live, getting, hand, filler, put>>
  BY DEF Answered, Generated, Drained, Holding, Points, Reading, audioVars
<1>1. /\ TypeOK /\ mine[c] \in Starts /\ Floor(c) /\ out[c] \in Seq(Items) /\ put[c] \in Nat
      /\ Answer(c) \in Voices
  BY <1>0, OnFloor
<1>2. queue[mine[c]] = <<>>
  BY <1>0, <1>1 DEF Answered, Generated, Drained, Floor, Reads
<1>3. UNCHANGED <<registered, mine, turn>>
  BY DEF Untouched
<1>4. /\ at'[c] \in {"generating", "respond", "closing"}
      /\ \/ out'[c] = out[c]
         \/ \E e \in {Item("error", Answer(c)), Item("response", Answer(c))} : out'[c] = Append(out[c], e)
  BY <1>1 DEF Answered, Generated, Yield, Owns, Show, Go, TypeOK
<1>5. Reads(c)'
  BY <1>0, <1>1, <1>2, <1>3, <1>4 DEF Floor, Reads, Reading, Off
<1>6. \A v \in Voices : ~Active(mine[c], v)
  BY <1>0, <1>1, Quiet DEF Floor
<1>7. Heard(c)'
  BY <1>0, <1>3, <1>4, <1>6 DEF Heard, Active
<1>8. Owned(c)'
  BY <1>0, <1>1, <1>3 DEF Floor, Owned
<1>9. Tells(c)'
  <2> SUFFICES ASSUME Kind[c] = "message" PROVE Told(out'[c], <<>>, queue[mine[c]], put[c], turn[c])
    BY <1>0, <1>3, <1>4 DEF Tells, AtHand
  <2>1. Told(out[c], <<>>, queue[mine[c]], put[c], turn[c])
    BY <1>0, <1>1 DEF Floor, Tells, AtHand, Reading
  <2>2. ASSUME NEW e \in {Item("error", Answer(c)), Item("response", Answer(c))}, out'[c] = Append(out[c], e)
        PROVE  Told(out'[c], <<>>, queue[mine[c]], put[c], turn[c])
    <3>1. e \in Items /\ e.kind # "filler"
      BY <1>1, ItemTyped
    <3> QED  BY <1>1, <2>1, <2>2, <3>1, ToldElse
  <2> QED  BY <1>4, <2>1, <2>2
<1>10. at'[c] \in Holding
  BY <1>4 DEF Holding, Points
<1> QED  BY <1>0, <1>1, <1>5, <1>7, <1>8, <1>9, <1>10, Held DEF Floor

(* It is spoken.                                                               *)
LEMMA FloorSpeaks ==
  ASSUME OrderInv, WorkInv, SpokenInv, FloorInv, NEW c \in Events, registered = mine[c], SpeakAnswer(c), Untouched(c)
  PROVE  FloorInv'
<1> DEFINE s == mine[c]
<1>0. /\ at[c] = "respond" /\ at[c] \in Holding /\ at[c] \notin Reading
      /\ UNCHANGED <<queue, getting, hand, filler, put, out>>
  BY DEF SpeakAnswer, Holding, Points, Reading
<1>1. TypeOK /\ s \in Starts /\ Floor(c) /\ Answer(c) \in Voices /\ Answer(c).turn = turn[c]
  BY <1>0, OnFloor
<1>2. queue[s] = <<>> /\ UNCHANGED <<registered, mine, turn>>
  BY <1>0, <1>1 DEF Floor, Reads, Untouched
<1>3. CASE Leave(c) /\ UNCHANGED <<audioVars, talk>>
  BY <1>0, <1>2, <1>3, FloorLeaves DEF audioVars
<1>4. CASE Speak(s, Answer(c)) /\ Go(c, "speaking")
  <2>1. at'[c] = "speaking" /\ live'[s] = Answer(c)
    BY <1>1, <1>4 DEF Speak, Go, TypeOK
  <2>2. \A v \in Voices : v # Answer(c) => talk'[s][v] = talk[s][v]
    BY <1>1, <1>4, TalkAt DEF Speak
  <2>3. \A v \in Voices : ~Active(s, v)
    BY <1>0, <1>1, Quiet DEF Floor
  <2>4. ASSUME NEW v \in Voices, Active(s, v)' PROVE v = Answer(c)
    BY <1>2, <2>1, <2>2, <2>3, <2>4 DEF Active
  <2>5. Heard(c)'
    BY <1>1, <1>2, <2>1, <2>4 DEF Heard, Speaks, Answer
  <2>6. Reads(c)'
    BY <1>0, <1>1, <2>1 DEF Floor, Reads, Reading, Off
  <2>7. Owned(c)'
    BY <1>0, <1>1, <1>2 DEF Floor, Owned
  <2>8. Tells(c)'
    <3>1. AtHand(c) = <<>> /\ AtHand(c)' = <<>>
      BY <1>0, <2>1 DEF AtHand
    <3> QED  BY <1>0, <1>1, <1>2, <3>1 DEF Floor, Tells
  <2>9. at'[c] \in Holding
    BY <2>1 DEF Holding, Points
  <2> QED  BY <1>0, <1>1, <2>5, <2>6, <2>7, <2>8, <2>9, Held DEF Floor
<1> QED  BY <1>3, <1>4 DEF SpeakAnswer

(* A turn or a greeting gets the floor.                                        *)
LEMMA FloorBegins ==
  ASSUME OrderInv, WorkInv, SpokenInv, FloorInv, NEW c \in Events, registered = mine[c],
         BeginTurn(c) \/ SpeakGreeting(c), Untouched(c)
  PROVE  FloorInv'
<1> DEFINE s == mine[c]
<1>1. at[c] = "lock" /\ s \in Starts /\ TypeOK
  BY DEF WorkInv, BeginTurn, SpeakGreeting, HasLock, OrderInv, LineInv, InLine
<1>2. /\ Kind[c] = "start" => s = c
      /\ Head(line[s]) = c
  <2>1. Kind[c] = "start" => s = c
    BY <1>1, WebAssumption DEF OrderInv, TurnInv, Starts
  <2> QED  BY <1>1, <2>1 DEF BeginTurn, SpeakGreeting, HasLock
<1>3. Off(c) /\ Settled(s) /\ UNCHANGED <<registered, mine, turn>>
  BY <1>1, <1>2, FloorFree DEF Untouched
<1>4. CASE BeginTurn(c)
  <2>1. /\ Kind[c] = "message" /\ at'[c] = "wait"
        /\ UNCHANGED <<queue, live, talk, hand, filler, put, out>>
    BY <1>1, <1>4 DEF BeginTurn, Owns, Go, TypeOK, audioVars
  <2>2. Reads(c)'
    BY <2>1 DEF Reads, Reading
  <2>3. Heard(c)'
    BY <1>3, <2>1 DEF Heard, Settled, Active
  <2>4. queue[s] = <<>> /\ Len(queue[s]) = 0 /\ hand[c] = <<>>
    BY <1>3 DEF Settled, Off
  <2>5. Owned(c)'
    BY <1>3, <2>1, <2>4 DEF Owned
  <2>6. put[c] = 0
    BY <1>1, <2>1 DEF WorkInv, TasksInv, TasksOf
  <2>7. Told(out[c], <<>>, <<>>, 0, turn[c])
    BY DEF Told
  <2>8. Tells(c)'
    BY <1>3, <2>1, <2>4, <2>6, <2>7 DEF Tells, AtHand
  <2>9. at'[c] \in Holding
    BY <2>1 DEF Holding, Points
  <2> QED  BY <1>1, <1>2, <2>2, <2>3, <2>5, <2>8, <2>9, Held DEF Floor
<1>5. CASE SpeakGreeting(c)
  <2>1. UNCHANGED <<queue, getting, hand, filler, put, out>> /\ Kind[c] = "start" /\ s = c /\ Kind[c] # "message"
    BY <1>2, <1>5 DEF SpeakGreeting
  <2>2. CASE Leave(c) /\ UNCHANGED <<audioVars, talk>>
    <3>1. at'[c] = "over"
      BY <1>1, <2>2, LeaveMoves
    <3>2. Off(c)' /\ Settled(s)'
      BY <1>3, <2>1, <2>2 DEF Off, Settled, Active, audioVars
    <3> QED  BY <1>1, <1>2, <3>1, <3>2, Held DEF Holding
  <2>3. CASE Speak(c, Greeting) /\ Go(c, "speaking")
    <3>1. at'[c] = "speaking" /\ live'[s] = Greeting
      BY <1>1, <2>1, <2>3 DEF Speak, Go, TypeOK
    <3>2. Greeting = Answer(c) /\ Greeting \in Voices /\ Greeting.turn = turn[c]
      <4>1. turn[c] = 0
        BY <2>1 DEF WorkInv, TasksInv, TasksOf
      <4> QED  BY <4>1, ItemTyped DEF Greeting, Answer, Voice
    <3>3. \A v \in Voices : v # Greeting => talk'[s][v] = talk[s][v]
      BY <1>1, <2>1, <2>3, <3>2, TalkAt DEF Speak
    <3>4. ASSUME NEW v \in Voices, Active(s, v)' PROVE v = Greeting
      BY <1>3, <3>1, <3>3, <3>4 DEF Active, Settled
    <3>5. Heard(c)'
      BY <1>3, <3>1, <3>2, <3>4 DEF Heard, Speaks, Answer
    <3>6. Reads(c)'
      BY <1>3, <2>1, <3>1 DEF Reads, Reading, Off
    <3>7. Owned(c)'
      BY <1>3, <2>1 DEF Owned, Settled, Off
    <3>8. Tells(c)'
      BY <2>1 DEF Tells
    <3>9. at'[c] \in Holding
      BY <3>1 DEF Holding, Points
    <3> QED  BY <1>1, <1>2, <3>5, <3>6, <3>7, <3>8, <3>9, Held DEF Floor
  <2> QED  BY <1>5, <2>2, <2>3 DEF SpeakGreeting
<1> QED  BY <1>4, <1>5

(* A queue's reader reads, a turn fills and ends.                              *)
LEMMA FloorTasks ==
  ASSUME OrderInv, WorkInv, TurnsInv, SpokenInv, ShownInv, FloorInv, NEW c \in Events, registered = mine[c],
         Take(c) \/ TurnFills(c) \/ TurnEnds(c), Untouched(c)
  PROVE  FloorInv'
<1> DEFINE s == mine[c]
           q == queue[s]
<1>0. s \in Starts /\ TasksOf(c) /\ (getting[c] \/ task[c] = "running")
  BY DEF WorkInv, TasksInv, TasksOf, Take, TurnFills, TurnEnds
<1>1. at[c] \in Holding
  <2>1. CASE getting[c]
    BY <1>0, <2>1 DEF FloorInv, Off
  <2>2. CASE task[c] = "running"
    BY <2>2 DEF TurnsInv, TurnsOf, Holding, Points
  <2> QED  BY <1>0, <2>1, <2>2
<1>2. /\ TypeOK /\ Floor(c) /\ q \in Seq(Items) /\ out[c] \in Seq(Items) /\ put[c] \in Nat
      /\ Answer(c) \in Voices /\ Answer(c).turn = turn[c]
  BY <1>1, OnFloor
<1>3. UNCHANGED <<registered, mine, turn, at, talk, live, filler, out>>
  BY DEF Untouched, Take, TurnFills, TurnEnds, audioVars, callVars
<1>4. Heard(c)'
  BY <1>2, <1>3 DEF Floor, Heard, Active, Speaks, Answer
<1>5. CASE Take(c)
  <2>1. /\ getting[c] /\ hand[c] = <<>> /\ q # <<>> /\ at[c] \in {"wait", "awaitFiller"}
        /\ hand'[c] = <<Head(q)>> /\ queue'[s] = Tail(q) /\ getting'[c] = FALSE /\ put' = put
    BY <1>0, <1>2, <1>5 DEF Take, TypeOK, TasksOf, Floor, Reads, Off, Reading
  <2>2. /\ Len(q) \in Nat /\ Len(q) >= 1 /\ Len(Tail(q)) = Len(q) - 1 /\ Head(q) = q[1] /\ Head(q) \in Items
        /\ Tail(q) \in Seq(Items) /\ \A i \in 1..(Len(q) - 1) : Tail(q)[i] = q[i + 1]
    BY <1>2, <2>1, Sequences
  <2>3. 1 \in 1..Len(q) /\ \A i \in 1..Len(Tail(q)) : i + 1 \in 1..Len(q) /\ Tail(q)[i] = q[i + 1]
    BY <2>2
  <2>4. <<Head(q)>> # <<>> /\ <<Head(q)>>[1] = q[1]
    BY <2>2
  <2>5. Reads(c)'
    BY <1>2, <1>3, <2>1, <2>3, <2>4 DEF Floor, Reads, Reading, Off
  <2>6. \A i \in 1..Len(q) : Own(q[i], turn[c])
    BY <1>2 DEF Floor, Owned
  <2>7. Owned(c)'
    BY <1>3, <2>1, <2>3, <2>4, <2>6 DEF Owned
  <2>8. Tells(c)'
    <3> SUFFICES ASSUME Kind[c] = "message" PROVE Told(out[c], AtHand(c)', Tail(q), put[c], turn[c])
      BY <1>3, <2>1 DEF Tells
    <3>1. Told(out[c], <<>>, q, put[c], turn[c])
      BY <1>2, <2>1 DEF Floor, Tells, AtHand
    <3>2. Told(out[c], <<Head(q)>>, Tail(q), put[c], turn[c])
      BY <1>2, <2>1, <3>1, ToldTake
    <3>3. CASE at[c] = "wait"
      BY <1>3, <2>1, <3>2, <3>3 DEF AtHand
    <3>4. CASE at[c] = "awaitFiller"
      <4>1. q[1].kind = "audio"
        BY <1>2, <2>1, <2>3, <3>4 DEF Floor, Reads
      <4>2. Told(out[c], <<>>, Tail(q), put[c], turn[c])
        BY <2>4, <3>2, <4>1, ToldDrop
      <4> QED  BY <1>3, <3>4, <4>2 DEF AtHand
    <3> QED  BY <2>1, <3>3, <3>4
  <2> QED  BY <1>0, <1>1, <1>3, <1>4, <2>5, <2>7, <2>8, Held DEF Floor
<1>6. ASSUME UNCHANGED <<getting, hand>>, at[c] \in {"wait", "mid"}, NEW x \in Items, Own(x, turn[c]),
             queue'[s] = Append(q, x),
             \/ put'[c] = put[c] /\ x.kind # "filler"
             \/ put'[c] = put[c] + 1 /\ x = Item("filler", Voice(turn[c], put[c] + 1))
      PROVE  FloorInv'
  <2>1. /\ Len(q) \in Nat /\ Len(Append(q, x)) = Len(q) + 1 /\ Append(q, x)[Len(q) + 1] = x
        /\ \A i \in 1..Len(q) : Append(q, x)[i] = q[i]
    BY <1>2, <1>6, Sequences
  <2>2. \A i \in 1..Len(Append(q, x)) : (i \in 1..Len(q) /\ Append(q, x)[i] = q[i]) \/ Append(q, x)[i] = x
    BY <2>1
  <2>3. Reads(c)'
    BY <1>3, <1>6 DEF Reads, Reading
  <2>4. Owned(c)'
    <3>1. (\A i \in 1..Len(q) : Own(q[i], turn[c])) /\ (hand[c] # <<>> => Own(hand[c][1], turn[c]))
      BY <1>2 DEF Floor, Owned
    <3> HIDE DEF q
    <3>2. \A i \in 1..Len(Append(q, x)) : Own(Append(q, x)[i], turn[c])
      BY <1>6, <2>2, <3>1
    <3> QED  BY <1>3, <1>6, <3>1, <3>2 DEF Owned
  <2>5. Tells(c)'
    <3> SUFFICES ASSUME Kind[c] = "message" PROVE Told(out[c], AtHand(c), Append(q, x), put'[c], turn[c])
      BY <1>3, <1>6 DEF Tells, AtHand
    <3>1. Told(out[c], AtHand(c), q, put[c], turn[c]) /\ Ascending(out[c], put[c])
      BY <1>2 DEF Floor, Tells, ShownInv, ShownOf
    <3>2. CASE put'[c] = put[c] /\ x.kind # "filler"
      BY <1>2, <1>6, <3>1, <3>2, ToldPut
    <3>3. CASE put'[c] = put[c] + 1 /\ x = Item("filler", Voice(turn[c], put[c] + 1))
      BY <1>2, <1>6, <3>1, <3>3, ToldFill
    <3> QED  BY <1>6, <3>2, <3>3
  <2> QED  BY <1>0, <1>1, <1>3, <1>4, <2>3, <2>4, <2>5, Held DEF Floor
<1>7. CASE TurnFills(c)
  <2> DEFINE x == Item("filler", Voice(turn[c], put[c] + 1))
  <2>1. /\ queue'[s] = Append(q, x) /\ put'[c] = put[c] + 1 /\ put[c] + 1 <= MaxFillers /\ UNCHANGED <<getting, hand>>
        /\ at[c] \in {"wait", "mid"} /\ c \in Messages
    BY <1>0, <1>2, <1>7, WebAssumption DEF TurnFills, TypeOK, TurnsInv, TurnsOf, TasksOf, Messages
  <2>2. put[c] + 1 \in 0..(MaxFillers * Cardinality(Messages)) /\ turn[c] \in Turns
    BY <1>2, <2>1, Bounds, WebAssumption, SMTT(30) DEF TypeOK
  <2>3. x \in Items
    BY <2>2, VoiceTyped, ItemTyped
  <2>4. Own(x, turn[c])
    BY ItemParts DEF Own
  <2> HIDE DEF x
  <2>5. x = Item("filler", Voice(turn[c], put[c] + 1))
    BY DEF x
  <2> QED  BY <1>6, <2>1, <2>3, <2>4, <2>5
<1>8. CASE TurnEnds(c)
  <2> DEFINE x == Item("teardown", Answer(c))
  <2>1. /\ UNCHANGED <<getting, hand, put>> /\ at[c] \in {"wait", "mid"}
        /\ queue' = queue \/ queue'[s] = Append(q, x)
    BY <1>0, <1>2, <1>8 DEF TurnEnds, TypeOK, TurnsInv, TurnsOf
  <2>2. x \in Items /\ x.kind = "teardown" /\ x.voice.turn = turn[c]
    BY <1>2, ItemTyped
  <2>3. CASE queue' = queue
    <3>1. Reads(c)' /\ Owned(c)' /\ Tells(c)'
      BY <1>2, <1>3, <2>1, <2>3 DEF Floor, Reads, Reading, Owned, Tells, AtHand
    <3> QED  BY <1>0, <1>1, <1>3, <1>4, <3>1, Held DEF Floor
  <2>4. CASE queue'[s] = Append(q, x)
    BY <1>6, <2>1, <2>2, <2>4 DEF Own
  <2> QED  BY <2>1, <2>3, <2>4
<1> QED  BY <1>5, <1>7, <1>8

(* A speech that can still be heard has an iteration that lets it go on.       *)
LEMMA SpeechHasFloor ==
  ASSUME FloorInv, NEW s \in Starts, registered = s, NEW v \in Voices, Active(s, v)
  PROVE  \E c \in Events : mine[c] = s /\ at[c] \in Holding /\ Floor(c) /\ Speaks(c, v)
<1>1. PICK c \in Events : mine[c] = s /\ at[c] \in Holding
  BY DEF FloorInv, Settled
<1>2. Floor(c)
  BY <1>1 DEF FloorInv
<1> QED  BY <1>1, <1>2 DEF Floor, Heard

(* A filler's task that starts to speak is the one its iteration lets go on,   *)
(* and cuts what was speaking before;                                          *)
LEMMA FloorStarts ==
  ASSUME OrderInv, WorkInv, SpokenInv, FloorInv, NEW s \in Starts, registered = s, NEW v \in Voices, StartFiller(s, v)
  PROVE  FloorInv'
<1>1. TypeOK /\ Active(s, v) /\ talk[s][v] = "made"
  BY DEF WorkInv, StartFiller, Active
<1>2. PICK c \in Events : mine[c] = s /\ at[c] \in Holding /\ Floor(c) /\ Speaks(c, v)
  BY <1>1, SpeechHasFloor
<1>3. /\ UNCHANGED <<registered, mine, turn, at, queue, task, put, getting, hand, filler, out>>
      /\ live' = [live EXCEPT ![s] = v] /\ talk' = [talk EXCEPT ![s][v] = "begun"]
  BY DEF StartFiller, Speak, sessionVars, callVars
<1>4. \A w \in Voices : talk'[s][w] = IF w = v THEN "begun" ELSE talk[s][w]
  BY <1>1, <1>3 DEF TypeOK
<1>5. live'[s] = v /\ \A z \in Starts \ {s} : live'[z] = live[z] /\ talk'[z] = talk[z]
  BY <1>1, <1>3 DEF TypeOK
<1>6. Untouched(c)
  BY <1>2, <1>3, <1>5 DEF Untouched
<1>7. (v = filler[c] /\ at[c] \in Reading) \/ (v = Answer(c) /\ at[c] = "speaking")
  <2>1. talk[mine[c]][v] # "begun"
    BY <1>1, <1>2
  <2> QED  BY <1>2, <2>1 DEF Speaks
<1>8. ASSUME NEW w \in Voices, Active(s, w)' PROVE w = v
  <2>1. CASE w # v
    <3>1. talk[s][w] = "made"
      BY <1>4, <1>5, <1>8, <2>1 DEF Active
    <3>2. Speaks(c, w)
      BY <1>2, <3>1 DEF Floor, Heard, Active
    <3> QED  BY <1>2, <1>7, <3>1, <3>2 DEF Speaks, Reading
  <2> QED  BY <2>1
<1>9. Speaks(c, v)'
  BY <1>2, <1>3, <1>7 DEF Speaks, Answer, Reading
<1>10. Heard(c)'
  BY <1>2, <1>3, <1>4, <1>8, <1>9, NoVoice DEF Floor, Heard
<1>11. Reads(c)' /\ Owned(c)' /\ Tells(c)'
  BY <1>2, <1>3 DEF Floor, Reads, Off, Owned, Tells, AtHand
<1> QED  BY <1>2, <1>3, <1>6, <1>10, <1>11, Held DEF Floor

(* a chunk put on the queue is of the turn that has the floor,                 *)
LEMMA FloorVoiced ==
  ASSUME OrderInv, WorkInv, SpokenInv, FloorInv, NEW s \in Starts, registered = s, NEW v \in Voices, Chunk(s, v)
  PROVE  FloorInv'
<1> DEFINE x == Item("audio", v)
           q == queue[s]
<1>1. TypeOK /\ Active(s, v) /\ talk[s][v] = "begun"
  BY DEF WorkInv, Chunk, Active
<1>2. PICK c \in Events : mine[c] = s /\ at[c] \in Holding /\ Floor(c) /\ Speaks(c, v)
  BY <1>1, SpeechHasFloor
<1>3. /\ UNCHANGED <<registered, mine, turn, at, live, task, put, getting, hand, filler, out>>
      /\ talk' = [talk EXCEPT ![s][v] = "voiced"] /\ queue' = [queue EXCEPT ![s] = Append(@, x)]
  BY DEF Chunk, sessionVars, callVars, audioVars
<1>4. \A w \in Voices : talk'[s][w] = IF w = v THEN "voiced" ELSE talk[s][w]
  BY <1>1, <1>3 DEF TypeOK
<1>5. queue'[s] = Append(q, x) /\ \A z \in Starts \ {s} : queue'[z] = queue[z] /\ talk'[z] = talk[z]
  BY <1>1, <1>3 DEF TypeOK
<1>6. Untouched(c)
  BY <1>2, <1>3, <1>5 DEF Untouched
<1>7. /\ q \in Seq(Items) /\ out[c] \in Seq(Items) /\ x \in Items /\ x.kind = "audio" /\ x.voice = v
      /\ v.turn = turn[c] /\ at[c] \in Reading \cup {"speaking"}
  BY <1>1, <1>2, ItemTyped DEF TypeOK, Speaks
<1>8. /\ Len(q) \in Nat /\ Len(Append(q, x)) = Len(q) + 1 /\ Append(q, x)[Len(q) + 1] = x
      /\ \A i \in 1..Len(q) : Append(q, x)[i] = q[i]
  BY <1>7, Sequences
<1>9. \A i \in 1..Len(Append(q, x)) : (i \in 1..Len(q) /\ Append(q, x)[i] = q[i]) \/ Append(q, x)[i] = x
  BY <1>8
<1>10. Heard(c)'
  <2>1. ASSUME NEW w \in Voices, Active(s, w)' PROVE Speaks(c, w)'
    <3>1. w # v /\ Active(s, w)
      BY <1>3, <1>4, <2>1 DEF Active
    <3>2. Speaks(c, w)
      BY <1>2, <3>1 DEF Floor, Heard
    <3>3. filler[c] \in Voices \cup {None}
      BY <1>1 DEF TypeOK
    <3> QED  BY <1>1, <1>2, <1>3, <1>4, <3>1, <3>2, <3>3 DEF Speaks, Answer
  <2>2. filler[c] \in Voices \cup {None}
    BY <1>1 DEF TypeOK
  <2> QED  BY <1>2, <1>3, <1>4, <2>1, <2>2 DEF Floor, Heard
<1>11. Reads(c)'
  BY <1>2, <1>3, <1>5, <1>7, <1>9 DEF Floor, Reads, Off, Reading
<1>12. Owned(c)'
  <2>1. (\A i \in 1..Len(q) : Own(q[i], turn[c])) /\ (hand[c] # <<>> => Own(hand[c][1], turn[c])) /\ Own(x, turn[c])
    BY <1>2, <1>7 DEF Floor, Owned, Own
  <2> HIDE DEF q, x
  <2>2. \A i \in 1..Len(Append(q, x)) : Own(Append(q, x)[i], turn[c])
    BY <1>9, <2>1
  <2> QED  BY <1>2, <1>3, <1>5, <2>1, <2>2 DEF Owned
<1>13. Tells(c)'
  <2> SUFFICES ASSUME Kind[c] = "message" PROVE Told(out[c], AtHand(c), Append(q, x), put[c], turn[c])
    BY <1>2, <1>3, <1>5 DEF Tells, AtHand
  <2>1. Told(out[c], AtHand(c), q, put[c], turn[c])
    BY <1>2 DEF Floor, Tells
  <2>2. put[c] \in Nat /\ x.kind # "filler"
    BY <1>1, <1>7, WebAssumption DEF TypeOK
  <2> QED  BY <1>7, <2>1, <2>2, ToldPut
<1> QED  BY <1>2, <1>3, <1>6, <1>10, <1>11, <1>12, <1>13, Held DEF Floor

(* and a speech that ends changes nothing of the floor.                        *)
LEMMA FloorQuiets ==
  ASSUME WorkInv, FloorInv, NEW s \in Starts, NEW v \in Voices, EndSpeech(s, v)
  PROVE  FloorInv'
<1>1. /\ TypeOK /\ talk[s][v] # "made"
      /\ UNCHANGED <<registered, mine, turn, at, live, queue, task, put, getting, hand, filler, out>>
      /\ talk' = [talk EXCEPT ![s][v] = "over"]
  BY DEF WorkInv, EndSpeech, sessionVars, callVars
<1>2. \A z \in Starts : \A w \in Voices : talk'[z][w] = IF z = s /\ w = v THEN "over" ELSE talk[z][w]
  BY <1>1 DEF TypeOK
<1>3. ASSUME NEW z \in Starts, NEW w \in Voices, Active(z, w)'
      PROVE  Active(z, w) /\ talk'[z][w] = talk[z][w]
  BY <1>1, <1>2, <1>3 DEF Active
<1>4. ASSUME NEW z \in Starts, NEW w \in Voices
      PROVE  talk'[z][w] = "made" <=> talk[z][w] = "made"
  BY <1>1, <1>2
<1>5. ASSUME NEW z \in Starts, registered = z, NEW c \in Events, mine[c] = z, at[c] \in Holding PROVE Floor(c)'
  <2>1. Floor(c) /\ filler[c] \in Voices \cup {None}
    BY <1>1, <1>5 DEF FloorInv, TypeOK
  <2>2. Reads(c)' /\ Owned(c)' /\ Tells(c)'
    BY <1>1, <2>1 DEF Floor, Reads, Off, Owned, Tells, AtHand
  <2>3. ASSUME NEW w \in Voices, Active(z, w)' PROVE Speaks(c, w)'
    <3>1. Speaks(c, w) /\ talk'[z][w] = talk[z][w]
      BY <1>3, <1>5, <2>1, <2>3 DEF Floor, Heard
    <3> QED  BY <1>1, <1>4, <1>5, <2>1, <3>1 DEF Speaks, Answer
  <2>4. Heard(c)'
    BY <1>1, <1>4, <1>5, <2>1, <2>3 DEF Floor, Heard
  <2> QED  BY <2>2, <2>4 DEF Floor
<1>6. ASSUME NEW z \in Starts, Settled(z) PROVE Settled(z)'
  BY <1>1, <1>3, <1>6 DEF Settled
<1> QED  BY <1>1, <1>5, <1>6 DEF FloorInv, Off, Holding

(* So the speech of every incarnation keeps the floor of the registered one.   *)
LEMMA FloorSpeech ==
  ASSUME Faultless, OrderInv, WorkInv, SpokenInv, FloorInv, NEW s \in Starts, NEW v \in Voices, Play(s, v) \/ FailSpeech(s, v)
  PROVE  FloorInv'
<1>1. CASE registered # s /\ Play(s, v)
  <2>1. UNCHANGED <<registered, mine, turn, at, task, put, getting, hand, filler, out>>
    BY <1>1 DEF Play, StartFiller, Chunk, EndSpeech, sessionVars, callVars
  <2>2. \A z \in Starts \ {s} : queue'[z] = queue[z] /\ talk'[z] = talk[z] /\ live'[z] = live[z]
    BY <1>1 DEF Play, StartFiller, Chunk, EndSpeech, Speak, audioVars, WorkInv, TypeOK
  <2>3. \A z \in Starts \ {s} : \A w \in Voices : Active(z, w)' => Active(z, w)
    BY <2>2 DEF Active
  <2> QED  BY <1>1, <2>1, <2>2, <2>3, Elsewhere
<1>2. CASE registered = s /\ Play(s, v)
  BY <1>2, FloorStarts, FloorVoiced, FloorQuiets DEF Play
<1>3. CASE FailSpeech(s, v)
  <2>1. registered' = None
    BY <1>3 DEF FailSpeech, Faultless, sessionVars
  <2> QED  BY <2>1, WebAssumption DEF FloorInv, Starts
<1> QED  BY <1>1, <1>2, <1>3

(* An event that is refused, or an iteration that only asks for the lock,      *)
(* leaves the floor as it is.                                                  *)
LEMMA FloorAside ==
  ASSUME OrderInv, WorkInv, FloorInv, NEW c \in Events, at[c] \in {"idle", "greeted"}, NEW l \in {"lock", "over"}, Go(c, l),
         UNCHANGED <<registered, mine, turn, queue, talk, live, put, getting, hand, filler>>,
         \A d \in Events \ {c} : out'[d] = out[d]
  PROVE  FloorInv'
<1>1. at'[c] = l /\ \A d \in Events \ {c} : at'[d] = at[d]
  BY DEF Go, WorkInv, TypeOK
<1>2. at[c] \notin Holding /\ at'[c] \notin Holding
  BY <1>1 DEF Holding
<1>3. ASSUME NEW d \in Events, d # c
      PROVE  at'[d] = at[d] /\ out'[d] = out[d]
  BY <1>1, <1>3
<1>4. \A s \in Starts : \A v \in Voices : Active(s, v)' => Active(s, v)
  BY DEF Active
<1>5. Off(c) => Off(c)'
  BY DEF Off
<1> QED  BY <1>2, <1>3, <1>4, <1>5, Elsewhere

(* A session that starts has an empty queue and no voice, and nobody reads for *)
(* it.                                                                         *)
LEMMA FloorRegisters ==
  ASSUME OrderInv, WorkInv, TurnsInv, SpokenInv, NEW c \in Events, Start(c), registered = None, registered' = c
  PROVE  FloorInv'
<1>1. /\ c \in Starts /\ at[c] = "idle" /\ mine[c] = None /\ c # None /\ None \notin Starts /\ TypeOK
  BY WebAssumption DEF Start, Starts, OrderInv, TurnInv, WorkInv
<1>2. /\ mine' = [mine EXCEPT ![c] = c] /\ Go(c, "greeted") /\ UNCHANGED <<queue, talk, getting, hand>>
  BY <1>1 DEF Start
<1>3. mine'[c] = c /\ at'[c] = "greeted" /\ \A d \in Events \ {c} : mine'[d] = mine[d]
  BY <1>1, <1>2 DEF Go, TypeOK
<1>4. \A d \in Events : mine[d] # c
  BY <1>1 DEF TurnsInv, TurnsOf, Starts
<1>5. Off(c)
  BY <1>1 DEF WorkInv, TasksInv, TasksOf, Off
<1>6. queue[c] = <<>> /\ \A v \in Voices : talk[c][v] = "none"
  BY <1>1 DEF SpokenInv, SpokenOf
<1>7. Settled(c)'
  BY <1>2, <1>6 DEF Settled, Active
<1>8. \A d \in Events : mine'[d] = c => d = c
  BY <1>3, <1>4
<1>9. at'[c] \notin Holding /\ Off(c)'
  BY <1>2, <1>3, <1>5 DEF Holding, Off
<1> QED  BY <1>7, <1>8, <1>9 DEF FloorInv, Holding

(* A message that is numbered makes its own turn, which nobody speaks for yet, *)
(* the live one and waits.                                                     *)
LEMMA FloorNumbers ==
  ASSUME OrderInv, WorkInv, SpokenInv, FloorInv, NEW c \in Events, Message(c), registered # None
  PROVE  FloorInv'
<1> DEFINE s == registered
           n == turnN[s] + 1
<1>1. /\ s \in Starts /\ c \in Messages /\ at[c] = "idle" /\ mine[c] = None /\ None \notin Starts /\ TypeOK
      /\ Starts \subseteq Events
  BY WebAssumption DEF Message, Starts, Messages, OrderInv, TurnInv, WorkInv, TypeOK
<1>2. /\ mine' = [mine EXCEPT ![c] = s] /\ turn' = [turn EXCEPT ![c] = n] /\ Go(c, "lock") /\ BargeIn(s, Voice(n, 0))
      /\ UNCHANGED <<out, registered, queue, talk, task, put, getting, hand, filler>>
  BY DEF Message
<1>3. /\ mine'[c] = s /\ at'[c] = "lock"
      /\ \A d \in Events \ {c} : mine'[d] = mine[d] /\ at'[d] = at[d] /\ turn'[d] = turn[d]
  BY <1>1, <1>2 DEF Go, TypeOK
<1>4. Off(c) /\ Off(c)'
  BY <1>1, <1>2 DEF WorkInv, TasksInv, TasksOf, Off
<1>5. ASSUME NEW v \in Voices, v = Voice(n, 0) PROVE talk[s][v] = "none"
  <2>1. n \in Turns /\ n # 0 /\ n > turnN[s] /\ turnN[s] \in Nat
    <3>1. turnN[s] \in Turns
      BY <1>1 DEF TypeOK
    <3>2. turnN[s] \in Nat /\ n # 0 /\ n > turnN[s]
      BY <3>1 DEF Turns
    <3>3. v.turn = n /\ v.turn \in Turns
      BY <1>5 DEF Voice, Voices
    <3> QED  BY <3>2, <3>3
  <2>2. ASSUME NEW d \in Messages, mine[d] = s, turn[d] = n PROVE FALSE
    <3>1. d \in Events /\ Kind[d] = "message"
      BY DEF Messages
    <3>2. turn[d] \in 1..turnN[s]
      BY <1>1, <2>2, <3>1 DEF OrderInv, TurnInv
    <3> QED  BY <2>1, <2>2, <3>2
  <2>3. talk[s][Voice(n, 0)] # "none" => n = 0 \/ \E d \in Messages : mine[d] = s /\ turn[d] = n
    BY <1>1, <2>1 DEF SpokenInv, SpokenOf
  <2> QED  BY <1>5, <2>1, <2>2, <2>3
<1>6. ASSUME NEW v \in Voices, Active(s, v)' PROVE Active(s, v)
  <2>1. live'[s] = live[s] \/ live'[s] = Voice(n, 0)
    BY <1>1, <1>2 DEF BargeIn, TypeOK, audioVars
  <2> QED  BY <1>2, <1>5, <1>6, <2>1 DEF Active
<1>7. at[c] \notin Holding /\ at'[c] \notin Holding
  BY <1>1, <1>3 DEF Holding
<1>8. registered' = registered /\ mine[c] # s
  BY <1>1, <1>2
<1>9. \A d \in Events : mine[d] = registered /\ mine[d] # None => mine'[d] = mine[d]
  BY <1>3, <1>8
<1>10. \A d \in Events : mine'[d] = s =>
                \/ /\ mine[d] = s /\ at'[d] = at[d] /\ turn'[d] = turn[d] /\ getting'[d] = getting[d] /\ hand'[d] = hand[d]
                   /\ filler'[d] = filler[d] /\ out'[d] = out[d] /\ put'[d] = put[d]
                \/ /\ at'[d] \notin Holding /\ (mine[d] = s => at[d] \notin Holding)
                   /\ (mine[d] = s /\ Off(d) => Off(d)') /\ (mine[d] # s => Off(d)')
  <2> SUFFICES ASSUME NEW d \in Events, mine'[d] = s
               PROVE \/ /\ mine[d] = s /\ at'[d] = at[d] /\ turn'[d] = turn[d] /\ getting'[d] = getting[d] /\ hand'[d] = hand[d]
                        /\ filler'[d] = filler[d] /\ out'[d] = out[d] /\ put'[d] = put[d]
                     \/ /\ at'[d] \notin Holding /\ (mine[d] = s => at[d] \notin Holding)
                        /\ (mine[d] = s /\ Off(d) => Off(d)') /\ (mine[d] # s => Off(d)')
    OBVIOUS
  <2>1. CASE d = c
    BY <1>4, <1>7, <2>1
  <2>2. CASE d # c
    BY <1>2, <1>3, <2>2
  <2> QED  BY <2>1, <2>2
<1>11. queue'[s] = queue[s] /\ talk'[s] = talk[s]
  BY <1>2
<1> QED  BY <1>6, <1>8, <1>9, <1>10, <1>11, Elsewhere

(* Events that come in keep the floor.                                         *)
LEMMA FloorEvents ==
  ASSUME OrderInv, WorkInv, TurnsInv, SpokenInv, FloorInv, NEW c \in Events,
         Refused(c) \/ Start(c) \/ End(c) \/ Message(c) \/ Greeted(c)
  PROVE  FloorInv'
<1>0. TypeOK /\ c # None
  BY WebAssumption DEF WorkInv
<1>1. ASSUME NEW e, Show(c, e) PROVE \A d \in Events \ {c} : out'[d] = out[d]
  BY <1>0, <1>1 DEF Show, TypeOK
<1>2. ASSUME at[c] \in {"idle", "greeted"}, \E l \in {"lock", "over"} : Go(c, l),
             (\E e : Show(c, e)) \/ out' = out,
             UNCHANGED <<registered, mine, turn, queue, talk, live, put, getting, hand, filler>>
      PROVE  FloorInv'
  <2>1. PICK l \in {"lock", "over"} : Go(c, l)
    BY <1>2
  <2>2. \A d \in Events \ {c} : out'[d] = out[d]
    BY <1>1, <1>2
  <2> QED  BY <1>2, <2>1, <2>2, FloorAside
<1>3. CASE Refused(c)
  BY <1>2, <1>3 DEF Refused, audioVars
<1>4. CASE Start(c)
  <2>1. CASE registered' = registered /\ UNCHANGED mine /\ Go(c, "over") /\ Show(c, Item("error", Greeting))
    BY <1>2, <1>4, <2>1 DEF Start, audioVars
  <2>2. CASE registered = None /\ registered' = c
    BY <1>0, <1>4, <2>2, FloorRegisters
  <2> QED  BY <1>4, <2>1, <2>2 DEF Start
<1>5. CASE End(c)
  BY <1>5, WebAssumption DEF End, FloorInv, Starts
<1>6. CASE Message(c)
  <2>1. CASE registered = None
    BY <1>2, <1>6, <2>1 DEF Message, audioVars
  <2> QED  BY <1>6, <2>1, FloorNumbers
<1>7. CASE Greeted(c)
  <2>1. \E l \in {"lock", "over"} : Go(c, l)
    BY <1>7 DEF Greeted, Leave
  <2> QED  BY <1>2, <1>7, <2>1 DEF Greeted, audioVars
<1> QED  BY <1>3, <1>4, <1>5, <1>6, <1>7

(* So does every step of the iteration that has or asks for it.                *)
LEMMA FloorIterates ==
  ASSUME Faultless, OrderInv, WorkInv, TurnsInv, SpokenInv, ShownInv, FloorInv, NEW c \in Events, registered = mine[c],
         Iterate(c), Untouched(c)
  PROVE  FloorInv'
<1>1. CASE Greeted(c)
  BY <1>1, FloorEvents
<1>2. CASE SpeakGreeting(c) \/ BeginTurn(c)
  BY <1>2, FloorBegins
<1>3. CASE WakeWithItem(c)
  <2>1. CASE hand[c][1].kind = "teardown"
    <3>1. /\ at[c] = "wait" /\ hand[c] # <<>> /\ FillerStarted(c) /\ Continue(c, Ended(c))
          /\ UNCHANGED <<queue, out, put, task>>
      BY <1>3, <2>1 DEF WakeWithItem
    <3> QED  BY <2>1, <3>1, FloorContinues
  <2>2. CASE hand[c][1].kind # "teardown"
    <3>1. /\ at[c] = "wait" /\ hand[c] # <<>> /\ FillerStarted(c)
          /\ Yield(c, hand[c][1], IF Ended(c) THEN "midEnded" ELSE "mid")
          /\ UNCHANGED <<queue, live, talk, getting, hand, filler, put>>
      BY <1>3, <2>2 DEF WakeWithItem, audioVars
    <3>2. PICK l \in {"mid", "midEnded"} : Yield(c, hand[c][1], l)
      BY <3>1
    <3> QED  BY <3>1, <3>2, FloorYields
  <2> QED  BY <2>1, <2>2
<1>4. CASE Resume(c)
  <2>1. /\ at[c] \in {"mid", "midEnded"} /\ hand[c] # <<>> /\ Continue(c, at[c] = "midEnded")
        /\ UNCHANGED <<queue, out, put, task>>
    BY <1>4 DEF Resume, WorkInv, TasksInv, TasksOf
  <2> QED  BY <2>1, FloorContinues
<1>5. CASE WakeAtEnd(c)
  BY <1>5, FloorEnds
<1>6. CASE FillerAwaited(c)
  BY <1>6, FloorAwaits
<1>7. CASE Drain(c)
  <2>1. /\ at[c] = "drain" /\ queue[mine[c]] # <<>> /\ YieldItem(c, "drain")
        /\ UNCHANGED <<talk, live, getting, hand, filler, put>>
    BY <1>7 DEF Drain, audioVars
  <2> QED  BY <2>1, FloorDrains
<1>8. CASE Answered(c) \/ Generated(c)
  BY <1>8, FloorAnswers
<1>9. CASE SpeakAnswer(c)
  BY <1>9, FloorSpeaks
<1>10. CASE SpeechFailed(c)
  <2>1. at[c] \in Holding /\ talk[mine[c]][Answer(c)] = "failed"
    BY <1>10 DEF SpeechFailed, Holding, Points
  <2> QED  BY <2>1, OnFloor
<1>11. CASE EmitAudio(c)
  <2>1. /\ at[c] = "emit" \/ SpeechOver(c)
        /\ UNCHANGED <<talk, live, getting, hand, filler, put>>
    BY <1>11 DEF EmitAudio, audioVars
  <2>2. CASE queue[mine[c]] # <<>>
    <3>1. YieldItem(c, "emit")
      BY <1>11, <2>2 DEF EmitAudio, Owns
    <3> QED  BY <2>1, <2>2, <3>1, FloorDrains
  <2>3. CASE queue[mine[c]] = <<>>
    <3>1. Leave(c) /\ UNCHANGED queue
      BY <1>11, <2>3 DEF EmitAudio
    <3> QED  BY <2>1, <2>3, <3>1, FloorLeaves
  <2> QED  BY <2>2, <2>3
<1>12. CASE Close(c)
  <2>1. at[c] = "closing" /\ Leave(c) /\ UNCHANGED <<queue, talk, live, getting, hand>>
    BY <1>12 DEF Close, audioVars
  <2>2. Floor(c)
    BY <2>1, OnFloor DEF Holding, Points
  <2>3. queue[mine[c]] = <<>>
    BY <2>1, <2>2 DEF Floor, Reads
  <2> QED  BY <2>1, <2>3, FloorLeaves
<1> QED
  BY <1>1, <1>2, <1>3, <1>4, <1>5, <1>6, <1>7, <1>8, <1>9, <1>10, <1>11, <1>12 DEF Iterate

(* At the start no session is registered.                                      *)
LEMMA FloorInit == Init => FloorInv
BY WebAssumption DEF Init, FloorInv, Starts

(* Every step keeps the floor.                                                 *)
LEMMA FloorStep ==
  ASSUME Faultless, OrderInv, WorkInv, TurnsInv, SpokenInv, ShownInv, FloorInv, [Next]_vars
  PROVE  FloorInv'
<1>1. ASSUME NEW c \in Events, Refused(c) \/ Start(c) \/ End(c) \/ Message(c)
      PROVE  FloorInv'
  BY <1>1, FloorEvents
<1>2. ASSUME NEW c \in Events, Iterate(c) \/ Take(c) \/ TurnFills(c) \/ TurnEnds(c)
      PROVE  FloorInv'
  <2>1. Untouched(c)
    BY <1>2, IterationAlone
  <2>2. CASE registered # mine[c]
    BY <2>1, <2>2, OtherSession
  <2>3. CASE registered = mine[c]
    BY <1>2, <2>1, <2>3, FloorIterates, FloorTasks
  <2> QED  BY <2>2, <2>3
<1>3. ASSUME NEW c \in Events, Disconnect(c) \/ TurnRaises(c)
      PROVE  FALSE
  BY <1>3 DEF Disconnect, TurnRaises, Faultless
<1>4. ASSUME NEW s \in Starts, NEW v \in Voices, Play(s, v) \/ FailSpeech(s, v)
      PROVE  FloorInv'
  BY <1>4, FloorSpeech
<1>5. ASSUME UNCHANGED vars
      PROVE  FloorInv'
  BY <1>5 DEF vars, sessionVars, audioVars, callVars, FloorInv, Floor, Reads, Heard, Owned, Tells, Settled, Active,
              Speaks, Answer, AtHand, Off
<1> QED
  BY <1>1, <1>2, <1>3, <1>4, <1>5 DEF Next

(* A turn that is over puts no more and stays over.                            *)
LEMMA EndedStays ==
  ASSUME OrderInv, WorkInv, [Next]_vars, NEW c \in Events
  PROVE  /\ Ended(c) => Ended(c)' /\ put'[c] = put[c]
         /\ put'[c] = put[c] \/ TurnFills(c)
         /\ turn'[c] = turn[c] \/ at[c] = "idle"
<1>0. TypeOK
  BY DEF WorkInv
<1>1. CASE \E d \in Events : TurnFills(d)
  BY <1>0, <1>1 DEF TurnFills, Ended, TypeOK, callVars
<1>2. CASE \E d \in Events : BeginTurn(d)
  <2>1. PICK d \in Events : BeginTurn(d)
    BY <1>2
  <2>2. /\ UNCHANGED <<put, turn>> /\ Kind[d] = "message" /\ at[d] = "lock"
        /\ task' = task \/ task' = [task EXCEPT ![d] = "running"]
    BY <2>1 DEF BeginTurn, HasLock
  <2>3. task[d] = "none"
    BY <2>2 DEF WorkInv, TasksInv, TasksOf
  <2> QED  BY <1>0, <2>2, <2>3 DEF Ended, TypeOK
<1>3. CASE \E d \in Events : TurnEnds(d) \/ TurnRaises(d)
  <2>1. PICK d \in Events : TurnEnds(d) \/ TurnRaises(d)
    BY <1>3
  <2>2. UNCHANGED <<put, turn>> /\ task[d] = "running"
    BY <2>1 DEF TurnEnds, TurnRaises, callVars
  <2>3. PICK r \in {"quiet", "scripted", "generate", "raised"} : task' = [task EXCEPT ![d] = r]
    BY <2>1 DEF TurnEnds, TurnRaises
  <2> QED  BY <1>0, <2>2, <2>3 DEF Ended, TypeOK
<1>4. CASE \E d \in Events : Message(d)
  BY <1>0, <1>4 DEF Message, Ended, TypeOK
<1>5. CASE \/ UNCHANGED vars
           \/ \E d \in Events :
                \/ Refused(d) \/ Start(d) \/ End(d) \/ Disconnect(d) \/ Take(d) \/ Greeted(d) \/ SpeakGreeting(d)
                \/ WakeWithItem(d) \/ Resume(d) \/ WakeAtEnd(d) \/ FillerAwaited(d) \/ Drain(d) \/ Answered(d)
                \/ Generated(d) \/ SpeakAnswer(d) \/ SpeechFailed(d) \/ EmitAudio(d) \/ Close(d)
           \/ \E s \in Starts, v \in Voices : Play(s, v) \/ FailSpeech(s, v)
  <2>1. UNCHANGED <<task, put, turn>>
    BY <1>5, ZenonT(40) DEF vars, callVars, Refused, Start, End, Disconnect, Take, Greeted, SpeakGreeting, WakeWithItem, Resume,
                WakeAtEnd, FillerAwaited, Drain, Answered, Generated, SpeakAnswer, SpeechFailed, EmitAudio, Close,
                Play, StartFiller, Chunk, EndSpeech, FailSpeech
  <2> QED  BY <2>1 DEF Ended
<1> QED  BY <1>1, <1>2, <1>3, <1>4, <1>5 DEF Next, Iterate

(* What an event shows: a refusal or greeting at its start, the item its       *)
(* reader has, the next of the queue, or what its turn came to.                *)
Shows(c, e) ==
    /\ e \in Items
    /\ out'[c] = Append(out[c], e)
    /\ \/ at[c] = "idle" /\ e.kind \notin {"filler", "response"} /\ e.voice = Greeting
       \/ /\ registered = mine[c]
          /\ \/ at[c] = "wait" /\ hand[c] # <<>> /\ e = hand[c][1]
             \/ at[c] \in {"drain", "emit", "speaking"} /\ queue[mine[c]] # <<>> /\ e = Head(queue[mine[c]])
             \/ at[c] = "drain" /\ queue[mine[c]] = <<>> /\ e \in {Item("response", Answer(c)), Item("error", Answer(c))}
             \/ at[c] = "generating" /\ e \in {Item("response", Answer(c)), Item("error", Answer(c))}

(* An event that comes in shows an error or a greeting,                        *)
LEMMA OpenShows ==
  ASSUME TypeOK, NEW c \in Events, Refused(c) \/ Start(c) \/ End(c) \/ Message(c)
  PROVE  /\ \A d \in Events \ {c} : out'[d] = out[d] /\ at'[d] = at[d]
         /\ at'[c] # "idle"
         /\ out'[c] = out[c] \/ \E e : Shows(c, e)
<1>1. ASSUME NEW k \in {"error", "greeting"}, Show(c, Item(k, Greeting)), at[c] = "idle"
      PROVE  Shows(c, Item(k, Greeting)) /\ \A d \in Events \ {c} : out'[d] = out[d]
  <2>1. Item(k, Greeting) \in Items /\ Item(k, Greeting).kind = k /\ Item(k, Greeting).voice = Greeting
    BY ItemTyped
  <2>2. out'[c] = Append(out[c], Item(k, Greeting)) /\ \A d \in Events \ {c} : out'[d] = out[d]
    BY <1>1 DEF Show, TypeOK
  <2> QED  BY <1>1, <2>1, <2>2 DEF Shows
<1>2. at[c] = "idle" /\ (out' = out \/ \E k \in {"error", "greeting"} : Show(c, Item(k, Greeting)))
  BY DEF Refused, Start, End, Message
<1>3. \E l \in {"over", "greeted", "lock"} : Go(c, l)
  BY DEF Refused, Start, End, Message
<1>4. at'[c] # "idle" /\ \A d \in Events \ {c} : at'[d] = at[d]
  BY <1>3 DEF Go, TypeOK
<1> QED  BY <1>1, <1>2, <1>4

(* and an iteration what its reader, its queue or its turn gave it.            *)
LEMMA IterationShows ==
  ASSUME Faultless, OrderInv, WorkInv, SpokenInv, FloorInv, NEW c \in Events, Iterate(c), out'[c] # out[c]
  PROVE  \E e : Shows(c, e)
<1>0. TypeOK /\ TasksOf(c)
  BY DEF WorkInv, TasksInv
<1>1. ASSUME NEW e \in Items, NEW l, Yield(c, e, l)
      PROVE  registered = mine[c] /\ out'[c] = Append(out[c], e)
  BY <1>0, <1>1 DEF Yield, Owns, Show, TypeOK
<1>2. ASSUME NEW l, YieldItem(c, l), queue[mine[c]] # <<>>, at[c] \in Holding
      PROVE  registered = mine[c] /\ Head(queue[mine[c]]) \in Items /\ out'[c] = Append(out[c], Head(queue[mine[c]]))
  <2>1. mine[c] \in Starts
    BY <1>2 DEF OrderInv, LineInv, InLine
  <2>2. queue[mine[c]] \in Seq(Items)
    BY <1>0, <2>1 DEF TypeOK
  <2>3. Head(queue[mine[c]]) \in Items
    BY <1>2, <2>2, Sequences
  <2>4. Yield(c, Head(queue[mine[c]]), l)
    BY <1>2 DEF YieldItem
  <2> QED  BY <1>1, <2>3, <2>4
<1>3. Item("response", Answer(c)) \in Items /\ Item("error", Answer(c)) \in Items
  BY <1>0, AnswerTyped, ItemTyped
<1>4. CASE WakeWithItem(c)
  <2>1. at[c] = "wait" /\ hand[c] # <<>> /\ \E l : Yield(c, hand[c][1], l)
    BY <1>4 DEF WakeWithItem
  <2>2. hand[c] \in Seq(Items)
    BY <1>0 DEF TypeOK
  <2>3. hand[c][1] \in Items
    BY <2>1, <2>2, Sequences
  <2>4. registered = mine[c] /\ out'[c] = Append(out[c], hand[c][1])
    BY <1>1, <2>1, <2>3
  <2> QED  BY <2>1, <2>3, <2>4 DEF Shows
<1>5. CASE Drain(c) \/ EmitAudio(c)
  <2>1. at[c] \in {"drain", "emit", "speaking"} /\ at[c] \in Holding
    BY <1>5 DEF Drain, EmitAudio, SpeechOver, Holding, Points
  <2>2. queue[mine[c]] # <<>> /\ \E l : YieldItem(c, l)
    BY <1>5 DEF Drain, EmitAudio
  <2>3. registered = mine[c] /\ Head(queue[mine[c]]) \in Items /\ out'[c] = Append(out[c], Head(queue[mine[c]]))
    BY <1>2, <2>1, <2>2
  <2> QED  BY <2>1, <2>2, <2>3 DEF Shows
<1>6. CASE Answered(c) \/ Generated(c)
  <2>1. (at[c] = "drain" /\ queue[mine[c]] = <<>>) \/ at[c] = "generating"
    BY <1>6 DEF Answered, Generated, Drained
  <2>2. PICK e \in {Item("response", Answer(c)), Item("error", Answer(c))} : \E l : Yield(c, e, l)
    BY <1>6 DEF Answered, Generated
  <2>3. e \in Items /\ registered = mine[c] /\ out'[c] = Append(out[c], e)
    BY <1>1, <1>3, <2>2
  <2> QED  BY <2>1, <2>2, <2>3 DEF Shows
<1>7. CASE SpeechFailed(c)
  <2>1. at[c] \in Holding /\ talk[mine[c]][Answer(c)] = "failed" /\ Yield(c, Item("error", Answer(c)), "closing")
    BY <1>7 DEF SpeechFailed, Holding, Points
  <2>2. registered = mine[c]
    BY <1>1, <1>3, <2>1
  <2> QED  BY <2>1, <2>2, OnFloor
<1> QED
  BY <1>4, <1>5, <1>6, <1>7 DEF Iterate, Greeted, SpeakGreeting, BeginTurn, Resume, WakeAtEnd, FillerAwaited, SpeakAnswer,
     Close

(* At the start nothing was shown.                                             *)
LEMMA ShownInit == Init => ShownInv
<1> SUFFICES ASSUME Init, NEW c \in Events PROVE ShownOf(c)
  BY DEF ShownInv
<1>1. out[c] = <<>> /\ Len(out[c]) = 0
  BY DEF Init
<1>2. \A i \in 1..Len(out[c]) : FALSE
  BY <1>1
<1> QED  BY <1>1, <1>2 DEF ShownOf, Ascending

(* What an event shows fits what it has shown.                                 *)
LEMMA ShowsOwn ==
  ASSUME OrderInv, WorkInv, TurnsInv, SpokenInv, FloorInv, ShownInv, NEW c \in Events, NEW e, Shows(c, e)
  PROVE  /\ e.voice.turn = turn[c]
         /\ Kind[c] = "message" /\ e.kind = "filler" => Ascending(Append(out[c], e), put[c])
         /\ Kind[c] = "message" /\ e.kind = "response" =>
              /\ Ended(c)
              /\ \A k \in 1..put[c] : \E j \in 1..Len(out[c]) : out[c][j] = Item("filler", Voice(turn[c], k))
<1> DEFINE s == mine[c]
           q == queue[s]
<1>0. TypeOK /\ TasksOf(c) /\ TurnsOf(c) /\ ShownOf(c)
  BY DEF WorkInv, TasksInv, TurnsInv, ShownInv
<1>1. CASE at[c] = "idle"
  <2>1. e.kind \notin {"filler", "response"} /\ e.voice = Greeting
    BY <1>1 DEF Shows
  <2> QED  BY <1>0, <1>1, <2>1 DEF TasksOf, Greeting, Voice
<1>2. CASE at[c] # "idle"
  <2>1. registered = mine[c] /\ at[c] \in Holding
    BY <1>2 DEF Shows, Holding, Points
  <2>2. /\ s \in Starts /\ Floor(c) /\ q \in Seq(Items) /\ out[c] \in Seq(Items) /\ hand[c] \in Seq(Items) /\ put[c] \in Nat
        /\ Answer(c) \in Voices /\ Answer(c).turn = turn[c]
    BY <2>1, OnFloor
  <2>3. Kind[c] = "message" => Told(out[c], AtHand(c), q, put[c], turn[c]) /\ Ascending(out[c], put[c])
    BY <1>0, <2>2 DEF Floor, Tells, ShownOf
  <2>4. CASE at[c] = "wait" /\ hand[c] # <<>> /\ e = hand[c][1]
    <3>1. Own(e, turn[c]) /\ AtHand(c) = hand[c]
      BY <2>2, <2>4 DEF Floor, Owned, AtHand
    <3>2. Kind[c] = "message" => Ascending(Append(out[c], hand[c][1]), put[c])
      BY <2>2, <2>3, <2>4, <3>1, ToldShow
    <3> QED  BY <2>4, <3>1, <3>2 DEF Own
  <2>5. CASE at[c] \in {"drain", "emit", "speaking"} /\ q # <<>> /\ e = Head(q)
    <3>1. /\ Head(q) = q[1] /\ Tail(q) \in Seq(Items) /\ 1 \in 1..Len(q) /\ Head(q) \in Items
          /\ <<Head(q)>> \in Seq(Items) /\ <<Head(q)>> # <<>> /\ <<Head(q)>>[1] = Head(q)
      BY <2>2, <2>5, Sequences
    <3>2. Own(e, turn[c])
      BY <2>2, <2>5, <3>1 DEF Floor, Owned
    <3>3. AtHand(c) = <<>>
      BY <2>5 DEF AtHand
    <3>4. Kind[c] = "message" => Told(out[c], <<Head(q)>>, Tail(q), put[c], turn[c])
      BY <2>2, <2>3, <2>5, <3>3, ToldTake
    <3>5. Kind[c] = "message" => Ascending(Append(out[c], <<Head(q)>>[1]), put[c])
      BY <2>2, <2>3, <3>1, <3>4, ToldShow
    <3> QED  BY <2>5, <3>1, <3>2, <3>5 DEF Own
  <2>6. CASE at[c] \in {"drain", "generating"} /\ q = <<>> /\ e \in {Item("response", Answer(c)), Item("error", Answer(c))}
    <3>1. e.voice = Answer(c) /\ e.kind \in {"response", "error"}
      BY <2>6, ItemTyped
    <3>2. AtHand(c) = <<>>
      BY <2>6 DEF AtHand
    <3>3. Kind[c] = "message" => Told(out[c], <<>>, q, put[c], turn[c])
      BY <2>3, <3>2
    <3>4. \A i \in 1..Len(q) : FALSE
      BY <2>6
    <3> HIDE DEF q
    <3>5. ASSUME Kind[c] = "message", NEW k \in 1..put[c]
          PROVE  \E j \in 1..Len(out[c]) : out[c][j] = Item("filler", Voice(turn[c], k))
      BY <3>3, <3>4, <3>5 DEF Told
    <3>6. Kind[c] = "message" => Ended(c)
      BY <1>0, <2>1, <2>6 DEF TurnsOf
    <3> QED  BY <2>2, <3>1, <3>5, <3>6
  <2>7. at[c] = "generating" => q = <<>>
    BY <2>2 DEF Floor, Reads
  <2> QED  BY <1>2, <2>4, <2>5, <2>6, <2>7 DEF Shows
<1> QED  BY <1>1, <1>2

(* What is shown next is the turn's own, and in its place.                     *)
LEMMA ShownMore ==
  ASSUME OrderInv, WorkInv, TurnsInv, SpokenInv, FloorInv, ShownInv, NEW c \in Events, NEW e, Shows(c, e),
         at'[c] # "idle", put'[c] = put[c], turn'[c] = turn[c], Ended(c) => Ended(c)'
  PROVE  ShownOf(c)'
<1> DEFINE o == out[c]
           p == Append(o, e)
<1>0. out'[c] = p /\ o \in Seq(Items) /\ e \in Items /\ put[c] \in Nat /\ ShownOf(c)
  BY WebAssumption DEF Shows, WorkInv, TypeOK, ShownInv
<1>1. /\ Len(o) \in Nat /\ Len(p) = Len(o) + 1 /\ p[Len(o) + 1] = e
      /\ \A i \in 1..Len(o) : p[i] = o[i]
  BY <1>0, Sequences
<1>2. \A i \in 1..Len(p) : (i \in 1..Len(o) /\ p[i] = o[i]) \/ (i = Len(o) + 1 /\ p[i] = e)
  BY <1>1
<1>3. /\ e.voice.turn = turn[c]
      /\ Kind[c] = "message" /\ e.kind = "filler" => Ascending(p, put[c])
      /\ Kind[c] = "message" /\ e.kind = "response" =>
           Ended(c) /\ \A k \in 1..put[c] : \E j \in 1..Len(o) : o[j] = Item("filler", Voice(turn[c], k))
  BY ShowsOwn
<1>4. Kind[c] = "message" => Ascending(p, put[c])
  <2>1. CASE e.kind = "filler"
    BY <1>3, <2>1
  <2>2. CASE e.kind # "filler"
    BY <1>0, <2>2, ToldElse DEF ShownOf
  <2> QED  BY <2>1, <2>2
<1>5. \A i \in 1..Len(o) : o[i].voice.turn = turn[c]
  BY <1>0 DEF ShownOf
<1>6. \A i \in 1..Len(p) : p[i].voice.turn = turn[c]
  <2> HIDE DEF o, p
  <2> QED  BY <1>2, <1>3, <1>5
<1>7. ASSUME Kind[c] = "message", NEW i \in 1..Len(p), p[i].kind = "response"
      PROVE  Ended(c)' /\ \A k \in 1..put[c] : \E j \in 1..i : p[j] = Item("filler", Voice(turn[c], k))
  <2>1. CASE i \in 1..Len(o) /\ p[i] = o[i]
    <3>1. Ended(c) /\ \A k \in 1..put[c] : \E j \in 1..i : o[j] = Item("filler", Voice(turn[c], k))
      BY <1>0, <1>7, <2>1 DEF ShownOf
    <3>2. \A j \in 1..i : j \in 1..Len(o)
      BY <1>1, <2>1
    <3> HIDE DEF o, p
    <3> QED  BY <1>1, <3>1, <3>2
  <2>2. CASE i = Len(o) + 1 /\ p[i] = e
    <3>1. Ended(c) /\ \A k \in 1..put[c] : \E j \in 1..Len(o) : o[j] = Item("filler", Voice(turn[c], k))
      BY <1>3, <1>7, <2>2
    <3>2. \A j \in 1..Len(o) : j \in 1..i
      BY <1>1, <2>2
    <3> HIDE DEF o, p
    <3> QED  BY <1>1, <3>1, <3>2
  <2> QED  BY <1>2, <1>7, <2>1, <2>2
<1> HIDE DEF o, p
<1> QED  BY <1>0, <1>4, <1>6, <1>7 DEF ShownOf

(* An event that shows nothing.                                                *)
LEMMA ShownSame ==
  ASSUME OrderInv, WorkInv, TurnsInv, SpokenInv, FloorInv, ShownInv, [Next]_vars, NEW c \in Events, out'[c] = out[c]
  PROVE  ShownOf(c)'
<1>1. ShownOf(c) /\ out[c] \in Seq(Items) /\ put[c] \in Nat
  BY WebAssumption DEF ShownInv, WorkInv, TypeOK
<1>2. at'[c] = "idle" => at[c] = "idle"
  BY EventsMove
<1>3. CASE at[c] = "idle"
  <2>1. out'[c] = <<>>
    BY <1>1, <1>3 DEF ShownOf
  <2>2. \A i \in 1..Len(out'[c]) : FALSE
    BY <2>1
  <2> QED  BY <2>1, <2>2 DEF ShownOf, Ascending
<1>4. CASE at[c] # "idle" /\ put'[c] = put[c]
  <2>1. turn'[c] = turn[c] /\ at'[c] # "idle" /\ (Ended(c) => Ended(c)')
    BY <1>2, <1>4, EndedStays
  <2> QED  BY <1>1, <1>4, <2>1 DEF ShownOf
<1>5. CASE at[c] # "idle" /\ put'[c] # put[c]
  <2>1. turn'[c] = turn[c] /\ at'[c] # "idle" /\ TurnFills(c)
    BY <1>2, <1>5, EndedStays
  <2>2. task[c] = "running" /\ put'[c] = put[c] + 1
    BY <2>1 DEF TurnFills, WorkInv, TypeOK
  <2>3. Kind[c] = "message" => \A i \in 1..Len(out[c]) : out[c][i].kind # "response"
    BY <1>1, <2>2 DEF ShownOf, Ended
  <2>4. ASSUME Ascending(out[c], put[c]) PROVE Ascending(out[c], put[c] + 1)
    BY <1>1, <2>4 DEF Ascending
  <2> QED  BY <1>1, <2>1, <2>2, <2>3, <2>4 DEF ShownOf
<1> QED  BY <1>3, <1>4, <1>5

(* Every step keeps what is known of the things shown.                         *)
LEMMA ShownStep ==
  ASSUME Faultless, OrderInv, WorkInv, TurnsInv, SpokenInv, FloorInv, ShownInv, [Next]_vars
  PROVE  ShownInv'
<1> SUFFICES ASSUME NEW c \in Events, out'[c] # out[c] PROVE ShownOf(c)'
  BY ShownSame DEF ShownInv
<1>0. TypeOK
  BY DEF WorkInv
<1>1. ASSUME NEW e, Shows(c, e), at'[c] # "idle", put'[c] = put[c], turn'[c] = turn[c]
      PROVE  ShownOf(c)'
  BY <1>1, EndedStays, ShownMore
<1>2. ASSUME NEW d \in Events, Refused(d) \/ Start(d) \/ End(d) \/ Message(d)
      PROVE  ShownOf(c)'
  <2>1. /\ \A x \in Events \ {d} : out'[x] = out[x]
        /\ at'[d] # "idle"
        /\ out'[d] = out[d] \/ \E e : Shows(d, e)
    BY <1>0, <1>2, OpenShows
  <2>2. c = d
    BY <2>1
  <2>3. UNCHANGED <<put, turn>>
    <3>1. CASE Message(d)
      <4>1. registered = None
        BY <2>2, <3>1 DEF Message
      <4> QED  BY <3>1, <4>1 DEF Message
    <3> QED  BY <1>2, <3>1 DEF Refused, Start, End
  <2> QED  BY <1>1, <2>1, <2>2, <2>3
<1>3. ASSUME NEW d \in Events, Iterate(d)
      PROVE  ShownOf(c)'
  <2>1. Untouched(d)
    BY <1>3, IterationAlone
  <2>2. c = d
    BY <2>1 DEF Untouched
  <2>3. PICK e : Shows(c, e)
    BY <1>3, <2>2, IterationShows
  <2>4. at[c] # "idle"
    BY <1>3, <2>2 DEF Iterate, Greeted, SpeakGreeting, BeginTurn, HasLock, WakeWithItem, Resume, WakeAtEnd, FillerAwaited,
       Drain, Answered, Drained, Generated, SpeakAnswer, SpeechFailed, EmitAudio, SpeechOver, Close
  <2>5. at'[c] # "idle" /\ turn'[c] = turn[c]
    BY <2>1, <2>4, EventsMove DEF Untouched
  <2>6. ~TurnFills(c)
    BY DEF TurnFills
  <2> QED  BY <1>1, <2>3, <2>5, <2>6, EndedStays
<1>4. ASSUME NEW d \in Events, Disconnect(d) \/ Take(d) \/ TurnFills(d) \/ TurnEnds(d) \/ TurnRaises(d)
      PROVE  FALSE
  BY <1>4 DEF Disconnect, Take, TurnFills, TurnEnds, TurnRaises
<1>5. ASSUME NEW s, NEW v, Play(s, v) \/ FailSpeech(s, v)
      PROVE  FALSE
  BY <1>5 DEF Play, StartFiller, Chunk, EndSpeech, FailSpeech
<1> QED
  BY <1>2, <1>3, <1>4, <1>5 DEF Next, vars

(* What has been shown with an answer is every filler of its turn, in order.   *)
LEMMA AnswerComesLast ==
  ASSUME TypeOK, ShownInv
  PROVE  FillersBeforeAnswer
<1> SUFFICES ASSUME NEW c \in Messages, NEW i \in DOMAIN out[c], out[c][i].kind = "response"
             PROVE  LET shown == {j \in 1..i : out[c][j].kind = "filler"}
                    IN  /\ {out[c][j] : j \in shown} = {Item("filler", Voice(turn[c], k)) : k \in 1..put[c]}
                        /\ \A j, l \in shown : j < l => out[c][j].voice.part < out[c][l].voice.part
  BY DEF FillersBeforeAnswer
<1> DEFINE o == out[c]
           shown == {j \in 1..i : o[j].kind = "filler"}
           fillers == {Item("filler", Voice(turn[c], k)) : k \in 1..put[c]}
<1>1. c \in Events /\ Kind[c] = "message" /\ ShownOf(c)
  BY DEF Messages, ShownInv
<1>2. o \in Seq(Items)
  BY <1>1 DEF TypeOK
<1>3. Len(o) \in Nat /\ i \in 1..Len(o) /\ (\A j \in 1..i : j \in 1..Len(o)) /\ \A j \in 1..Len(o) : o[j] \in Items
  BY <1>2, Sequences
<1>4. \A k \in 1..put[c] : \E j \in 1..i : o[j] = Item("filler", Voice(turn[c], k))
  BY <1>1, <1>3 DEF ShownOf
<1>5. Ascending(o, put[c]) /\ \A j \in 1..Len(o) : o[j].voice.turn = turn[c]
  BY <1>1 DEF ShownOf
<1>6. ASSUME NEW k \in 1..put[c] PROVE \E j \in shown : o[j] = Item("filler", Voice(turn[c], k))
  BY <1>4, ItemParts
<1>7. ASSUME NEW j \in shown PROVE o[j] \in fillers
  <2>1. j \in 1..Len(o) /\ o[j] \in Items /\ o[j].kind = "filler"
    BY <1>3
  <2>2. o[j].voice.turn = turn[c] /\ o[j].voice.part \in 1..put[c]
    BY <1>5, <2>1 DEF Ascending
  <2>3. o[j] = Item("filler", Voice(turn[c], o[j].voice.part))
    BY <2>1, <2>2, ItemEqual
  <2> QED  BY <2>2, <2>3
<1>8. {o[j] : j \in shown} = fillers
  BY <1>6, <1>7
<1>9. \A j, l \in shown : j < l => o[j].voice.part < o[l].voice.part
  BY <1>3, <1>5 DEF Ascending
<1> QED  BY <1>8, <1>9

(* The three parts are kept together, each with the help of the others.        *)
LEMMA DialogueStep ==
  ASSUME Faultless
  PROVE  /\ Init => SpokenInv /\ FloorInv /\ ShownInv
         /\ OrderInv /\ WorkInv /\ TurnsInv /\ SpokenInv /\ FloorInv /\ ShownInv /\ [Next]_vars
              => SpokenInv' /\ FloorInv' /\ ShownInv'
BY SpokenInit, FloorInit, ShownInit, SpokenStep, FloorStep, ShownStep

(* web_session.py:163-340: in a session without faults, one turn runs at a     *)
(* time, every iteration shows events of its own turn only, although the queue *)
(* is shared and readers, fillers and speech of all turns put there and take   *)
(* from there at any moment, and every filler of a turn was shown, in order,   *)
(* before its answer. It holds for any number of messages, fillers and         *)
(* restarts.                                                                   *)
THEOREM DialogueHolds ==
  ASSUME Faultless
  PROVE  Spec => []DialogueInv
<1>1. Spec => []TurnsInv
  BY TurnsHold DEF Faultless
<1>2. OrderInv /\ WorkInv /\ TurnsInv /\ ShownInv => DialogueInv
  <2> SUFFICES ASSUME WorkInv, TurnsInv, ShownInv PROVE DialogueInv
    OBVIOUS
  <2>1. TypeOK
    BY DEF WorkInv
  <2>2. OwnEventsOnly
    <3> SUFFICES ASSUME NEW c \in Events, NEW i \in DOMAIN out[c] PROVE out[c][i].voice.turn = turn[c]
      BY DEF OwnEventsOnly
    <3>1. out[c] \in Seq(Items) /\ ShownOf(c)
      BY <2>1 DEF TypeOK, ShownInv
    <3>2. i \in 1..Len(out[c])
      BY <3>1
    <3> QED  BY <3>1, <3>2 DEF ShownOf
  <2> QED  BY <2>1, <2>2, AnswerComesLast DEF DialogueInv, TurnsInv
<1> QED  BY <1>1, <1>2, OrderHolds, WorkHolds, DialogueStep, PTL DEF Spec
================================================================================
