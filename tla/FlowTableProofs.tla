---------------------------- MODULE FlowTableProofs ----------------------------
(***************************************************************************)
(* FlowTable for every capture, every number of hosts and sockets behind   *)
(* an end and every FlowLimit: the flows are the conversations of the      *)
(* packets, and the statistics made of them count connections where the    *)
(* ends tell sockets apart and no flow was left out.                       *)
(*                                                                         *)
(* The argument.  A packet's flow is found by its pair of ends, whichever  *)
(* direction the flow has, so each pair of ends has one flow and each      *)
(* packet counts in it.  Where sockets have ends of their own, taking a    *)
(* flow to the sockets whose ends it joins is one to one and onto the      *)
(* pairs that exchanged packets, and it takes what a flow counts to what   *)
(* passed between the two.                                                 *)
(***************************************************************************)
EXTENDS FlowTable, FiniteSetTheorems, TLAPS

Flow == [src : Ends, dst : Ends, sent : Nat, received : Nat]

Keeps(fs, gs) == \A k \in 1 .. Len(fs) : \E j \in 1 .. Len(gs) :
                   gs[j].src = fs[k].src /\ gs[j].dst = fs[k].dst

\* With types, FlowsAreConversations is inductive: since each pair of ends has
\* one flow at most, a packet's is the one that the two lookups find.
FlowTypes ==
  /\ end \in [Sockets -> Ends]
  /\ capture \in Seq(Sockets \X Sockets)
  /\ flows \in Seq(Flow)

\* A flow has the direction of its first packet, which it counts.
Begun(fs) == \A k \in 1 .. Len(fs) : fs[k].sent >= 1

FlowInv == FlowTypes /\ FlowsAreConversations /\ Begun(flows)

\* One more packet shows once, where it belongs.
LEMMA ShownGrows ==
  ASSUME NEW packets \in Seq(Sockets \X Sockets), NEW e \in [Sockets -> Ends],
         NEW a \in Sockets, NEW b \in Sockets, NEW s, NEW d
  PROVE  /\ Shown(packets, e, s, d) \in Nat
         /\ s = e[a] /\ d = e[b] =>
              Shown(Append(packets, <<a, b>>), e, s, d) = Shown(packets, e, s, d) + 1
         /\ ~ (s = e[a] /\ d = e[b]) =>
              Shown(Append(packets, <<a, b>>), e, s, d) = Shown(packets, e, s, d)
  <1>1. PICK more : more = Append(packets, <<a, b>>)
    OBVIOUS
  <1> DEFINE at(p) == {k \in 1 .. Len(p) : e[p[k][1]] = s /\ e[p[k][2]] = d}
             old == at(packets)
  <1>2. PICK n \in Nat : n = Len(packets)
    OBVIOUS
  <1>3. /\ Len(more) = n + 1
        /\ \A k \in 1 .. n : more[k] = packets[k]
        /\ more[n + 1] = <<a, b>>
    BY <1>1, <1>2
  <1>4. IsFiniteSet(1 .. n)
    BY <1>2, FS_Interval
  <1>5. old \subseteq 1 .. n /\ n + 1 \notin old
    BY <1>2
  <1>6. 1 .. n + 1 = (1 .. n) \cup {n + 1}
    OBVIOUS
  <1>7. s = e[a] /\ d = e[b] => at(more) = old \cup {n + 1}
    BY <1>2, <1>3, <1>6
  <1>8. ~ (s = e[a] /\ d = e[b]) => at(more) = old
    BY <1>2, <1>3, <1>6
  <1>9. Shown(packets, e, s, d) = Cardinality(old) /\ Shown(more, e, s, d) = Cardinality(at(more))
    BY DEF Shown
  <1> HIDE DEF at, old
  <1>10. IsFiniteSet(old)
    BY <1>4, <1>5, FS_Subset
  <1>11. Cardinality(old) \in Nat
    BY <1>10, FS_CardinalityType
  <1>12. Cardinality(old \cup {n + 1}) = Cardinality(old) + 1
    BY <1>5, <1>10, FS_AddElement
  <1> QED
    BY <1>1, <1>7, <1>8, <1>9, <1>11, <1>12

\* Two ends are the same pair as two others in one order or in the other.
LEMMA PairsOfEnds ==
  ASSUME NEW x, NEW y, NEW s, NEW d, {x, y} = {s, d}
  PROVE  (x = s /\ y = d) \/ (x = d /\ y = s)
  OBVIOUS

\* Nothing is shown between ends that have no flow.
LEMMA NoFlowNoPacket ==
  ASSUME NEW packets, NEW e, NEW fs, NEW s, NEW d, Conversations(packets, e, fs),
         \A k \in 1 .. Len(fs) : ~ (fs[k].src = s /\ fs[k].dst = d)
                                /\ ~ (fs[k].src = d /\ fs[k].dst = s)
  PROVE  Shown(packets, e, s, d) = 0
  <1> DEFINE at == {n \in 1 .. Len(packets) : e[packets[n][1]] = s /\ e[packets[n][2]] = d}
  <1>1. ASSUME NEW n \in at PROVE FALSE
    <2>1. n \in 1 .. Len(packets) /\ e[packets[n][1]] = s /\ e[packets[n][2]] = d
      BY <1>1
    <2>2. PICK k \in 1 .. Len(fs) : {fs[k].src, fs[k].dst} = {s, d}
      BY <2>1 DEF Conversations, EachHasFlow
    <2>3. (fs[k].src = s /\ fs[k].dst = d) \/ (fs[k].src = d /\ fs[k].dst = s)
      BY <2>2, PairsOfEnds, ZenonT(30)
    <2> QED
      BY <2>3
  <1>2. at = {}
    BY <1>1
  <1> QED
    BY <1>2, FS_EmptySet DEF Shown

(***************************************************************************)
(* When a packet from s to d arrives, it is enough that its pair of ends   *)
(* has a flow, that no flow is lost or doubled, and that the counts are    *)
(* right: the earlier packets have kept theirs.                            *)
(***************************************************************************)
LEMMA PacketHasFlow ==
  ASSUME NEW packets \in Seq(Sockets \X Sockets), NEW e, NEW a \in Sockets, NEW b \in Sockets,
         NEW fs, NEW gs, Keeps(fs, gs), Conversations(packets, e, fs),
         \E k \in 1 .. Len(gs) : {gs[k].src, gs[k].dst} = {e[a], e[b]}
  PROVE  EachHasFlow(Append(packets, <<a, b>>), e, gs)
  <1> SUFFICES ASSUME NEW n \in 1 .. Len(Append(packets, <<a, b>>))
               PROVE  \E k \in 1 .. Len(gs) :
                        {gs[k].src, gs[k].dst} =
                          {e[Append(packets, <<a, b>>)[n][1]], e[Append(packets, <<a, b>>)[n][2]]}
    BY DEF EachHasFlow
  <1>1. PICK m \in Nat : m = Len(packets)
    OBVIOUS
  <1>2. PICK p : p = Append(packets, <<a, b>>)[n]
    OBVIOUS
  <1>3. n = m + 1 \/ n \in 1 .. m
    BY <1>1
  <1>4. n = m + 1 => p = <<a, b>>
    BY <1>1, <1>2
  <1>5. n \in 1 .. m => p = packets[n]
    BY <1>1, <1>2
  <1>6. CASE n = m + 1
    <2>1. p[1] = a /\ p[2] = b
      BY <1>4, <1>6
    <2> QED
      BY <1>2, <2>1
  <1>7. CASE n \in 1 .. m
    <2>1. PICK k \in 1 .. Len(fs) : {fs[k].src, fs[k].dst} = {e[p[1]], e[p[2]]}
      <3>1. \E k \in 1 .. Len(fs) :
              {fs[k].src, fs[k].dst} = {e[packets[n][1]], e[packets[n][2]]}
        BY <1>1, <1>7 DEF Conversations, EachHasFlow
      <3> QED
        BY <1>5, <1>7, <3>1
    <2>2. PICK j \in 1 .. Len(gs) : gs[j].src = fs[k].src /\ gs[j].dst = fs[k].dst
      BY DEF Keeps
    <2>3. {gs[j].src, gs[j].dst} = {e[p[1]], e[p[2]]}
      BY <2>1, <2>2
    <2> QED
      BY <1>2, <2>3
  <1> QED
    BY <1>3, <1>6, <1>7

\* The packet is of a flow that is there, in its direction or in the other.
LEMMA FlowCounts ==
  ASSUME NEW packets \in Seq(Sockets \X Sockets), NEW e \in [Sockets -> Ends],
         NEW a \in Sockets, NEW b \in Sockets,
         NEW fs \in Seq(Flow), Conversations(packets, e, fs), NEW p \in 1 .. Len(fs), NEW new \in Flow,
         new.src = fs[p].src, new.dst = fs[p].dst,
         \/ /\ fs[p].src = e[a] /\ fs[p].dst = e[b]
            /\ new.sent = fs[p].sent + 1 /\ new.received = fs[p].received
         \/ /\ fs[p].src = e[b] /\ fs[p].dst = e[a] /\ e[a] # e[b]
            /\ new.sent = fs[p].sent /\ new.received = fs[p].received + 1
  PROVE  Conversations(Append(packets, <<a, b>>), e, [fs EXCEPT ![p] = new])
  <1>1. PICK s, d : s = e[a] /\ d = e[b]
    OBVIOUS
  <1>2. PICK more : more = Append(packets, <<a, b>>)
    OBVIOUS
  <1>3. PICK gs : gs = [fs EXCEPT ![p] = new]
    OBVIOUS
  <1>4. \A x, y :
          /\ Shown(packets, e, x, y) \in Nat
          /\ x = s /\ y = d => Shown(more, e, x, y) = Shown(packets, e, x, y) + 1
          /\ ~ (x = s /\ y = d) => Shown(more, e, x, y) = Shown(packets, e, x, y)
    <2>1. \A x, y :
            /\ Shown(packets, e, x, y) \in Nat
            /\ x = e[a] /\ y = e[b] =>
                 Shown(Append(packets, <<a, b>>), e, x, y) = Shown(packets, e, x, y) + 1
            /\ ~ (x = e[a] /\ y = e[b]) =>
                 Shown(Append(packets, <<a, b>>), e, x, y) = Shown(packets, e, x, y)
      BY ShownGrows
    <2> QED
      BY <1>1, <1>2, <2>1
  <1>5. /\ Len(gs) = Len(fs)
        /\ \A k \in 1 .. Len(fs) : k # p => gs[k] = fs[k]
        /\ gs[p] = new
    BY <1>3
  <1>6. \A k \in 1 .. Len(fs) : gs[k].src = fs[k].src /\ gs[k].dst = fs[k].dst
    BY <1>5
  <1>7. \A j, k \in 1 .. Len(fs) :
          {fs[j].src, fs[j].dst} = {fs[k].src, fs[k].dst} => j = k
    BY DEF Conversations
  <1>8. \A k \in 1 .. Len(fs) :
          /\ fs[k].sent = Shown(packets, e, fs[k].src, fs[k].dst)
          /\ fs[k].src # fs[k].dst => fs[k].received = Shown(packets, e, fs[k].dst, fs[k].src)
    BY DEF Conversations
  <1>9. {fs[p].src, fs[p].dst} = {s, d}
    BY <1>1
  <1>10. \A k \in 1 .. Len(fs) : k # p =>
           ~ (fs[k].src = s /\ fs[k].dst = d) /\ ~ (fs[k].src = d /\ fs[k].dst = s)
    BY <1>7, <1>9, ZenonT(30)
  <1>11. ASSUME NEW k \in 1 .. Len(fs)
         PROVE  /\ gs[k].sent = Shown(more, e, gs[k].src, gs[k].dst)
                /\ gs[k].src # gs[k].dst => gs[k].received = Shown(more, e, gs[k].dst, gs[k].src)
    <2>1. CASE k # p
      BY <1>4, <1>5, <1>8, <1>10, <2>1, SMTT(20)
    <2>2. CASE k = p /\ fs[p].src = s /\ fs[p].dst = d /\ new.sent = fs[p].sent + 1
               /\ new.received = fs[p].received
      BY <1>4, <1>5, <1>8, <2>2
    <2>3. CASE k = p /\ fs[p].src = d /\ fs[p].dst = s /\ s # d /\ new.sent = fs[p].sent
               /\ new.received = fs[p].received + 1
      BY <1>4, <1>5, <1>8, <2>3
    <2> QED
      BY <1>1, <2>1, <2>2, <2>3
  <1>12. Keeps(fs, gs)
    BY <1>5, <1>6 DEF Keeps
  <1>13. {gs[p].src, gs[p].dst} = {e[a], e[b]} /\ p \in 1 .. Len(gs)
    BY <1>1, <1>5, <1>6, <1>9
  <1>14. EachHasFlow(more, e, gs)
    <2>1. \E k \in 1 .. Len(gs) : {gs[k].src, gs[k].dst} = {e[a], e[b]}
      BY <1>13
    <2>2. EachHasFlow(Append(packets, <<a, b>>), e, gs)
      BY <1>12, <2>1, PacketHasFlow
    <2> QED
      BY <1>2, <2>2
  <1>15. Conversations(more, e, gs)
    BY <1>5, <1>6, <1>7, <1>11, <1>14 DEF Conversations
  <1> QED
    BY <1>2, <1>3, <1>15

\* The packet is the first of its two ends.
LEMMA FlowBegins ==
  ASSUME NEW packets \in Seq(Sockets \X Sockets), NEW e \in [Sockets -> Ends],
         NEW a \in Sockets, NEW b \in Sockets,
         NEW fs \in Seq(Flow), Conversations(packets, e, fs), NEW new \in Flow,
         new.src = e[a], new.dst = e[b], new.sent = 1, new.received = 0,
         \A k \in 1 .. Len(fs) : ~ (fs[k].src = e[a] /\ fs[k].dst = e[b])
                                /\ ~ (fs[k].src = e[b] /\ fs[k].dst = e[a])
  PROVE  Conversations(Append(packets, <<a, b>>), e, Append(fs, new))
  <1>1. PICK s, d : s = e[a] /\ d = e[b]
    OBVIOUS
  <1>2. PICK more : more = Append(packets, <<a, b>>)
    OBVIOUS
  <1>3. PICK gs : gs = Append(fs, new)
    OBVIOUS
  <1>4. \A x, y :
          /\ Shown(packets, e, x, y) \in Nat
          /\ x = s /\ y = d => Shown(more, e, x, y) = Shown(packets, e, x, y) + 1
          /\ ~ (x = s /\ y = d) => Shown(more, e, x, y) = Shown(packets, e, x, y)
    <2>1. \A x, y :
            /\ Shown(packets, e, x, y) \in Nat
            /\ x = e[a] /\ y = e[b] =>
                 Shown(Append(packets, <<a, b>>), e, x, y) = Shown(packets, e, x, y) + 1
            /\ ~ (x = e[a] /\ y = e[b]) =>
                 Shown(Append(packets, <<a, b>>), e, x, y) = Shown(packets, e, x, y)
      BY ShownGrows
    <2> QED
      BY <1>1, <1>2, <2>1
  <1>5. PICK m \in Nat : m = Len(fs)
    OBVIOUS
  <1>6. /\ Len(gs) = m + 1
        /\ \A k \in 1 .. m : gs[k] = fs[k]
        /\ gs[m + 1] = new
    BY <1>3, <1>5
  <1>7. \A k \in 1 .. m + 1 : k \in 1 .. m \/ k = m + 1
    OBVIOUS
  <1>8. \A k \in 1 .. m :
          ~ (fs[k].src = s /\ fs[k].dst = d) /\ ~ (fs[k].src = d /\ fs[k].dst = s)
    BY <1>1, <1>5
  <1>9. Shown(packets, e, s, d) = 0 /\ Shown(packets, e, d, s) = 0
    BY <1>5, <1>8, NoFlowNoPacket
  <1>10. \A k \in 1 .. m :
           /\ fs[k].sent = Shown(packets, e, fs[k].src, fs[k].dst)
           /\ fs[k].src # fs[k].dst => fs[k].received = Shown(packets, e, fs[k].dst, fs[k].src)
    BY <1>5 DEF Conversations
  <1>11. ASSUME NEW k \in 1 .. m + 1
         PROVE  /\ gs[k].sent = Shown(more, e, gs[k].src, gs[k].dst)
                /\ gs[k].src # gs[k].dst => gs[k].received = Shown(more, e, gs[k].dst, gs[k].src)
    <2>1. CASE k = m + 1
      <3>1. Shown(more, e, s, d) = 1 /\ (s # d => Shown(more, e, d, s) = 0)
        BY <1>4, <1>9
      <3> QED
        BY <1>1, <1>6, <2>1, <3>1
    <2>2. CASE k \in 1 .. m
      BY <1>4, <1>6, <1>8, <1>10, <2>2
    <2> QED
      BY <1>7, <2>1, <2>2
  <1>12. \A k \in 1 .. m : {fs[k].src, fs[k].dst} # {s, d}
    BY <1>8, PairsOfEnds
  <1>13. ASSUME NEW j \in 1 .. m + 1, NEW k \in 1 .. m + 1,
                {gs[j].src, gs[j].dst} = {gs[k].src, gs[k].dst}
         PROVE  j = k
    <2>1. {gs[m + 1].src, gs[m + 1].dst} = {s, d}
      BY <1>1, <1>6
    <2>2. \A i \in 1 .. m : {gs[i].src, gs[i].dst} # {s, d}
      BY <1>6, <1>12
    <2>3. j \in 1 .. m /\ k \in 1 .. m => j = k
      <3>1. \A x, y \in 1 .. m :
              {fs[x].src, fs[x].dst} = {fs[y].src, fs[y].dst} => x = y
        BY <1>5 DEF Conversations
      <3>2. j \in 1 .. m /\ k \in 1 .. m => gs[j] = fs[j] /\ gs[k] = fs[k]
        BY <1>6
      <3> QED
        BY <1>13, <3>1, <3>2, Zenon
    <2>4. j = m + 1 /\ k \in 1 .. m => FALSE
      BY <1>13, <2>1, <2>2, Zenon
    <2>5. k = m + 1 /\ j \in 1 .. m => FALSE
      BY <1>13, <2>1, <2>2, Zenon
    <2> QED
      BY <1>7, <2>3, <2>4, <2>5
  <1>14. {gs[m + 1].src, gs[m + 1].dst} = {e[a], e[b]} /\ m + 1 \in 1 .. Len(gs)
    BY <1>6
  <1>15. Keeps(fs, gs)
    BY <1>5, <1>6 DEF Keeps
  <1>16. EachHasFlow(more, e, gs)
    <2>1. \E k \in 1 .. Len(gs) : {gs[k].src, gs[k].dst} = {e[a], e[b]}
      BY <1>14
    <2>2. EachHasFlow(Append(packets, <<a, b>>), e, gs)
      BY <1>15, <2>1, PacketHasFlow
    <2> QED
      BY <1>2, <2>2
  <1>17. Conversations(more, e, gs)
    BY <1>6, <1>11, <1>13, <1>16 DEF Conversations
  <1> QED
    BY <1>2, <1>3, <1>17

\* A lookup finds a flow of the key.
LEMMA PlaceFound ==
  ASSUME NEW s, NEW d, Places(s, d) # {}
  PROVE  /\ Place(s, d) \in 1 .. Len(flows)
         /\ flows[Place(s, d)].src = s
         /\ flows[Place(s, d)].dst = d
  <1>1. Place(s, d) \in Places(s, d)
    BY DEF Place
  <1> QED
    BY <1>1 DEF Places

LEMMA PacketInv ==
  ASSUME FlowInv, NEW a \in Sockets, NEW b \in Sockets, Packet(a, b)
  PROVE  FlowInv'
  <1>1. end' = end /\ capture' = Append(capture, <<a, b>>)
    BY DEF Packet
  <1>2. end \in [Sockets -> Ends] /\ capture \in Seq(Sockets \X Sockets)
    BY DEF FlowInv, FlowTypes
  <1>3. flows \in Seq(Flow) /\ Conversations(capture, end, flows) /\ Begun(flows)
    BY DEF FlowInv, FlowTypes, FlowsAreConversations
  <1>4. capture' \in Seq(Sockets \X Sockets)
    BY <1>1, <1>2
  <1>5. PICK s \in Ends, d \in Ends : s = end[a] /\ d = end[b]
    BY <1>2
  <1>6. Account(s, d)
    BY <1>5 DEF Packet
\* What is to be shown of the flows, in each of the three cases of Account.
  <1>7. ASSUME NEW gs \in Seq(Flow), flows' = gs,
               Conversations(Append(capture, <<a, b>>), end, gs), Begun(gs)
        PROVE  FlowInv'
    BY <1>1, <1>2, <1>4, <1>7 DEF FlowInv, FlowTypes, FlowsAreConversations
  <1>8. CASE Places(s, d) # {}
    <2>1. PICK p \in 1 .. Len(flows) : p = Place(s, d) /\ flows[p].src = s /\ flows[p].dst = d
      BY <1>8, PlaceFound
    <2>2. flows[p] \in Flow
      BY <1>3, <2>1
    <2>3. PICK new : new = [flows[p] EXCEPT !.sent = @ + 1]
      OBVIOUS
    <2>4. new = [src |-> s, dst |-> d, sent |-> flows[p].sent + 1, received |-> flows[p].received]
      BY <2>1, <2>2, <2>3 DEF Flow
    <2>5. new \in Flow /\ new.src = s /\ new.dst = d
          /\ new.sent = flows[p].sent + 1 /\ new.received = flows[p].received
      BY <2>2, <2>4 DEF Flow
    <2>6. flows' = [flows EXCEPT ![p] = new]
      BY <1>6, <1>8, <2>1, <2>3, Zenon DEF Account
    <2>7. [flows EXCEPT ![p] = new] \in Seq(Flow)
      BY <1>3, <2>1, <2>5
    <2>8. Conversations(Append(capture, <<a, b>>), end, [flows EXCEPT ![p] = new])
      BY <1>2, <1>3, <1>5, <2>1, <2>5, FlowCounts
    <2>9. Begun([flows EXCEPT ![p] = new])
      BY <1>3, <2>1, <2>2, <2>5 DEF Begun, Flow
    <2> QED
      BY <1>7, <2>6, <2>7, <2>8, <2>9
  <1>9. CASE Places(s, d) = {} /\ Places(d, s) # {}
    <2>1. PICK p \in 1 .. Len(flows) : p = Place(d, s) /\ flows[p].src = d /\ flows[p].dst = s
      BY <1>9, PlaceFound
    <2>2. flows[p] \in Flow
      BY <1>3, <2>1
    <2>3. PICK new : new = [flows[p] EXCEPT !.received = @ + 1]
      OBVIOUS
    <2>4. new = [src |-> d, dst |-> s, sent |-> flows[p].sent, received |-> flows[p].received + 1]
      BY <2>1, <2>2, <2>3 DEF Flow
    <2>5. new \in Flow /\ new.src = d /\ new.dst = s
          /\ new.sent = flows[p].sent /\ new.received = flows[p].received + 1
      BY <2>2, <2>4 DEF Flow
    <2>6. flows' = [flows EXCEPT ![p] = new]
      BY <1>6, <1>9, <2>1, <2>3, Zenon DEF Account
    <2>7. [flows EXCEPT ![p] = new] \in Seq(Flow)
      BY <1>3, <2>1, <2>5
    <2>8. s # d
      BY <1>9
    <2>9. Conversations(Append(capture, <<a, b>>), end, [flows EXCEPT ![p] = new])
      BY <1>2, <1>3, <1>5, <2>1, <2>5, <2>8, FlowCounts
    <2>10. Begun([flows EXCEPT ![p] = new])
      BY <1>3, <2>1, <2>2, <2>5 DEF Begun, Flow
    <2> QED
      BY <1>7, <2>6, <2>7, <2>9, <2>10
  <1>10. CASE Places(s, d) = {} /\ Places(d, s) = {}
    <2>1. PICK new : new = [src |-> s, dst |-> d, sent |-> 1, received |-> 0]
      OBVIOUS
    <2>2. new \in Flow /\ new.src = s /\ new.dst = d /\ new.sent = 1 /\ new.received = 0
      BY <2>1 DEF Flow
    <2>3. flows' = Append(flows, new)
      BY <1>6, <1>10, <2>1, Zenon DEF Account
    <2>4. Append(flows, new) \in Seq(Flow)
      BY <1>3, <2>2
    <2>5. \A k \in 1 .. Len(flows) : ~ (flows[k].src = s /\ flows[k].dst = d)
                                     /\ ~ (flows[k].src = d /\ flows[k].dst = s)
      BY <1>10 DEF Places
    <2>6. Conversations(Append(capture, <<a, b>>), end, Append(flows, new))
      BY <1>2, <1>3, <1>5, <2>2, <2>5, FlowBegins
    <2>7. Begun(Append(flows, new))
      BY <1>3, <2>2 DEF Begun
    <2> QED
      BY <1>7, <2>3, <2>4, <2>6, <2>7
  <1> QED
    BY <1>8, <1>9, <1>10

LEMMA FlowInitInv == FlowInit => FlowInv
  <1> SUFFICES ASSUME FlowInit PROVE FlowInv
    OBVIOUS
  <1>1. capture \in Seq(Sockets \X Sockets) /\ flows \in Seq(Flow)
        /\ Len(flows) = 0 /\ Len(capture) = 0
    BY DEF FlowInit
  <1> QED
    BY <1>1 DEF FlowInit, FlowInv, FlowTypes, FlowsAreConversations, Conversations, EachHasFlow, Begun

LEMMA FlowNextInv == FlowInv /\ [FlowNext]_flowVars => FlowInv'
  <1> SUFFICES ASSUME FlowInv, [FlowNext]_flowVars PROVE FlowInv'
    OBVIOUS
  <1>1. ASSUME UNCHANGED <<end, capture, flows>> PROVE FlowInv'
    BY <1>1 DEF FlowInv, FlowTypes, FlowsAreConversations
  <1>2. ASSUME NEW a \in Sockets, NEW b \in Sockets, Packet(a, b) PROVE FlowInv'
    BY <1>2, PacketInv
  <1> QED
    BY <1>1, <1>2 DEF FlowNext, Ingested, IngestFails, Statistics, FlowsDone, flowVars

\* For captures of any length, with any number of hosts behind an end, each
\* packet counts in one flow and on its side, and each pair of ends has one flow.
THEOREM FlowsConverse == FlowSpec => []FlowsAreConversations
  <1>1. FlowInv => FlowsAreConversations
    BY DEF FlowInv
  <1> QED BY <1>1, FlowInitInv, FlowNextInv, PTL DEF FlowSpec

------------------------------------------------------------------------------
(***************************************************************************)
(* The statistics.  They are numbers of flows: what has to be shown is     *)
(* that these are numbers of pairs of sockets.                             *)
(***************************************************************************)

\* A packet goes from one socket to another.
Spoken(packets) == \A n \in 1 .. Len(packets) : packets[n][1] # packets[n][2]

Kept == {k \in 1 .. Len(flows) : IsQuic(flows[k]) \/ Len(flows) < FlowLimit}

\* The numbers that Statistics takes from the flows.
Counted ==
  /\ statistics.connections = Cardinality(connections)
  /\ statistics.bidirectional = Cardinality({k \in connections : Bidirectional(flows[k])})
  /\ statistics.handshakes =
       Cardinality({k \in connections : Bidirectional(flows[k]) /\ Carried(flows[k]) > 3})
  /\ statistics.singles = Cardinality({k \in connections : Carried(flows[k]) = 1})

StatInv ==
  /\ Spoken(capture)
  /\ flowAt = "ingest" => connections = {}
  /\ connections # {} => connections = Kept
  /\ flowAt # "over" => statistics = NoStatistic
  /\ statistics # NoStatistic => connections # {} /\ Counted

LEMMA StatInitInv == FlowInit => StatInv
  BY DEF FlowInit, StatInv, Spoken

LEMMA StatNextInv == FlowInv /\ StatInv /\ [FlowNext]_flowVars => StatInv'
  <1> SUFFICES ASSUME FlowInv, StatInv, [FlowNext]_flowVars PROVE StatInv'
    OBVIOUS
  <1>1. ASSUME UNCHANGED flowVars PROVE StatInv'
    BY <1>1 DEF flowVars, StatInv, Spoken, Kept, IsQuic, Counted, Carried, Bidirectional
  <1>2. ASSUME NEW a \in Sockets, NEW b \in Sockets \ {a}, Packet(a, b) PROVE StatInv'
    <2>1. capture \in Seq(Sockets \X Sockets) /\ capture' = Append(capture, <<a, b>>)
      BY <1>2 DEF FlowInv, FlowTypes, Packet
    <2>2. \A n \in 1 .. Len(capture) + 1 : n \in 1 .. Len(capture) \/ n = Len(capture) + 1
      BY <2>1
    <2>3. Spoken(Append(capture, <<a, b>>))
      BY <2>1, <2>2 DEF StatInv, Spoken
    <2>4. Spoken(capture)'
      BY <2>1, <2>3 DEF Spoken
    <2> QED
      BY <1>2, <2>4 DEF StatInv, Packet
  <1>3. ASSUME Ingested PROVE StatInv'
    <2>1. connections' = Kept /\ Kept' = Kept
      BY <1>3 DEF Ingested, Kept, IsQuic
    <2> QED
      BY <1>3, <2>1 DEF Ingested, StatInv, Spoken
  <1>4. ASSUME IngestFails PROVE StatInv'
    BY <1>4 DEF IngestFails, StatInv, Spoken
  <1>5. ASSUME Statistics PROVE StatInv'
    <2>1. Kept' = Kept
      BY <1>5 DEF Statistics, Kept, IsQuic
    <2>2. statistics' # NoStatistic => connections # {} /\ Counted'
      BY <1>5 DEF Statistics, Counted, HowMany, Handshakes, Singles, Carried, Bidirectional
    <2> QED
      BY <1>5, <2>1, <2>2 DEF Statistics, StatInv, Spoken
  <1> QED
    BY <1>1, <1>2, <1>3, <1>4, <1>5 DEF FlowNext, FlowsDone

(***************************************************************************)
(* Where sockets have ends of their own.  Joined takes a flow to the two   *)
(* sockets whose ends it has.                                              *)
(***************************************************************************)
Told == \A s, t \in Sockets : s # t => end[s] # end[t]

Joined(f) == {s \in Sockets : end[s] \in {f.src, f.dst}}

\* A one to one correspondence carries counts over.
LEMMA SameCount ==
  ASSUME NEW S, NEW T, IsFiniteSet(S), NEW f \in Bijection(S, T),
         NEW A \in SUBSET S, NEW B \in SUBSET T, \A x \in S : x \in A <=> f[x] \in B
  PROVE  Cardinality(A) = Cardinality(B)
  <1> DEFINE g == [x \in A |-> f[x]]
  <1>1. /\ f \in [S -> T]
        /\ \A x, y \in S : f[x] = f[y] => x = y
        /\ \A t \in T : \E x \in S : f[x] = t
    BY DEF Bijection, Injection, Surjection, IsInjective
  <1>2. g \in [A -> B]
    BY <1>1
  <1>3. \A x, y \in A : g[x] = g[y] => x = y
    BY <1>1
  <1>4. \A t \in B : \E x \in A : g[x] = t
    BY <1>1
  <1>5. g \in Bijection(A, B)
    BY <1>2, <1>3, <1>4 DEF Bijection, Injection, Surjection, IsInjective
  <1>6. ExistsBijection(A, B)
    BY <1>5 DEF ExistsBijection
  <1>7. IsFiniteSet(A)
    BY FS_Subset
  <1> QED
    BY <1>6, <1>7, FS_Bijection

\* What is shown from an end to another is what its one socket sent to the other's.
LEMMA ShownIsSent ==
  ASSUME FlowInv, Told, NEW a \in Sockets, NEW b \in Sockets
  PROVE  Shown(capture, end, end[a], end[b])
           = Cardinality({n \in 1 .. Len(capture) : capture[n][1] = a /\ capture[n][2] = b})
  <1>1. \A n \in 1 .. Len(capture) : capture[n][1] \in Sockets /\ capture[n][2] \in Sockets
    BY DEF FlowInv, FlowTypes
  <1>2. {n \in 1 .. Len(capture) : end[capture[n][1]] = end[a] /\ end[capture[n][2]] = end[b]}
          = {n \in 1 .. Len(capture) : capture[n][1] = a /\ capture[n][2] = b}
    BY <1>1 DEF Told
  <1> QED
    BY <1>2 DEF Shown

\* A set of packets of the capture is finite; it is counted as empty if it is.
LEMMA PacketsFinite ==
  ASSUME FlowInv, NEW S \in SUBSET (1 .. Len(capture))
  PROVE  /\ IsFiniteSet(S) /\ Cardinality(S) \in Nat
         /\ Cardinality(S) > 0 <=> \E n \in S : TRUE
  <1>1. PICK m \in Nat : m = Len(capture)
    BY DEF FlowInv, FlowTypes
  <1>2. IsFiniteSet(1 .. m)
    BY FS_Interval
  <1>3. IsFiniteSet(S)
    BY <1>1, <1>2, FS_Subset
  <1>4. Cardinality(S) \in Nat /\ (Cardinality(S) = 0 <=> S = {})
    BY <1>3, FS_CardinalityType, FS_EmptySet
  <1> QED
    BY <1>3, <1>4

\* The sockets of one flow and what it counts of their packets.
LEMMA FlowOfPair ==
  ASSUME FlowInv, StatInv, Told, NEW k \in 1 .. Len(flows)
  PROVE  \E a, b \in Sockets :
           /\ a # b /\ end[a] = flows[k].src /\ end[b] = flows[k].dst
           /\ Joined(flows[k]) = {a, b} /\ {a, b} \in Pairs
           /\ Carried(flows[k]) = Cardinality(Passed({a, b}))
           /\ Bidirectional(flows[k]) <=> BothWays({a, b})
  <1> DEFINE from(x, y) == {n \in 1 .. Len(capture) : capture[n][1] = x /\ capture[n][2] = y}
             f == flows[k]
  <1>1. /\ f \in Flow /\ f.sent >= 1
        /\ f.sent = Shown(capture, end, f.src, f.dst)
        /\ f.src # f.dst => f.received = Shown(capture, end, f.dst, f.src)
    BY DEF FlowInv, FlowTypes, Begun, FlowsAreConversations, Conversations
  <1>2. \A n \in 1 .. Len(capture) :
          capture[n][1] \in Sockets /\ capture[n][2] \in Sockets /\ capture[n][1] # capture[n][2]
    BY DEF FlowInv, FlowTypes, StatInv, Spoken
  <1>3. PICK n \in 1 .. Len(capture) : end[capture[n][1]] = f.src /\ end[capture[n][2]] = f.dst
    <2> DEFINE at == {n \in 1 .. Len(capture) :
                        end[capture[n][1]] = f.src /\ end[capture[n][2]] = f.dst}
    <2>1. Cardinality(at) >= 1
      BY <1>1 DEF Shown
    <2>2. at \in SUBSET (1 .. Len(capture))
      OBVIOUS
    <2> HIDE DEF at
    <2>3. \E n \in at : TRUE
      BY <2>1, <2>2, PacketsFinite
    <2> QED
      BY <2>3 DEF at
  <1>4. PICK a \in Sockets, b \in Sockets : a = capture[n][1] /\ b = capture[n][2]
    BY <1>2
  <1>5. a # b /\ end[a] = f.src /\ end[b] = f.dst /\ f.src # f.dst
    BY <1>2, <1>3, <1>4 DEF Told
  <1>6. Joined(f) = {a, b}
    BY <1>5 DEF Joined, Told
  <1>7. {a, b} \in Pairs
    BY <1>4 DEF Pairs
  <1>8. f.sent = Cardinality(from(a, b)) /\ f.received = Cardinality(from(b, a))
    BY <1>1, <1>5, ShownIsSent
  <1>9. Passed({a, b}) = from(a, b) \cup from(b, a) /\ from(a, b) \cap from(b, a) = {}
    <2>1. \A m \in 1 .. Len(capture) :
            {capture[m][1], capture[m][2]} = {a, b}
              <=> \/ capture[m][1] = a /\ capture[m][2] = b
                  \/ capture[m][1] = b /\ capture[m][2] = a
      <3> TAKE m \in 1 .. Len(capture)
      <3>1. PICK x, y : x = capture[m][1] /\ y = capture[m][2]
        OBVIOUS
      <3>2. {x, y} = {a, b} => (x = a /\ y = b) \/ (x = b /\ y = a)
        BY PairsOfEnds
      <3> QED
        BY <3>1, <3>2
    <2> QED
      BY <1>5, <2>1 DEF Passed
  <1>10. BothWays({a, b}) <=> \E m \in from(b, a) : TRUE
    <2>1. n \in from(a, b)
      BY <1>4
    <2>2. \A m \in Passed({a, b}) : capture[m][1] = b <=> m \in from(b, a)
      BY <1>5, <1>9
    <2>3. n \in Passed({a, b}) /\ capture[n][1] = a
      BY <1>9, <2>1
    <2>4. from(b, a) \subseteq Passed({a, b})
      BY <1>9
    <2> HIDE DEF from
    <2> QED
      BY <2>2, <2>3, <2>4 DEF BothWays
  <1>11. from(a, b) \in SUBSET (1 .. Len(capture)) /\ from(b, a) \in SUBSET (1 .. Len(capture))
    OBVIOUS
  <1> HIDE DEF from
  <1>12. PICK x \in Nat, y \in Nat :
           /\ x = Cardinality(from(a, b)) /\ IsFiniteSet(from(a, b))
           /\ y = Cardinality(from(b, a)) /\ IsFiniteSet(from(b, a))
           /\ y > 0 <=> \E m \in from(b, a) : TRUE
    BY <1>11, PacketsFinite
  <1>13. Cardinality(from(a, b) \cup from(b, a)) = x + y
    <2>1. Cardinality(from(a, b) \cup from(b, a))
            = x + y - Cardinality(from(a, b) \cap from(b, a))
      BY <1>12, FS_Union
    <2>2. Cardinality(from(a, b) \cap from(b, a)) = 0
      BY <1>9, FS_EmptySet
    <2>3. x + y - 0 = x + y
      OBVIOUS
    <2> QED
      BY <2>1, <2>2, <2>3
  <1>14. Carried(f) = Cardinality(Passed({a, b}))
    BY <1>8, <1>9, <1>12, <1>13 DEF Carried
  <1>15. Bidirectional(f) <=> BothWays({a, b})
    BY <1>8, <1>10, <1>12 DEF Bidirectional
  <1> QED
    BY <1>5, <1>6, <1>7, <1>14, <1>15

\* The flows correspond one to one to the pairs of sockets that exchanged packets.
LEMMA FlowsArePairs ==
  ASSUME FlowInv, StatInv, Told
  PROVE  [k \in 1 .. Len(flows) |-> Joined(flows[k])] \in Bijection(1 .. Len(flows), Pairs)
  <1> DEFINE g == [k \in 1 .. Len(flows) |-> Joined(flows[k])]
  <1>1. g \in [1 .. Len(flows) -> Pairs]
    BY FlowOfPair
  <1>2. ASSUME NEW j \in 1 .. Len(flows), NEW k \in 1 .. Len(flows), g[j] = g[k]
        PROVE  j = k
    <2>1. Joined(flows[j]) = Joined(flows[k])
      BY <1>2
    <2>2. \A i \in 1 .. Len(flows) : {flows[i].src, flows[i].dst} = {end[s] : s \in Joined(flows[i])}
      <3> TAKE i \in 1 .. Len(flows)
      <3> HIDE DEF g
      <3>1. \E a, b \in Sockets :
              /\ a # b /\ end[a] = flows[i].src /\ end[b] = flows[i].dst
              /\ Joined(flows[i]) = {a, b} /\ {a, b} \in Pairs
              /\ Carried(flows[i]) = Cardinality(Passed({a, b}))
              /\ Bidirectional(flows[i]) <=> BothWays({a, b})
        BY FlowOfPair
      <3>2. PICK a, b \in Sockets : /\ end[a] = flows[i].src /\ end[b] = flows[i].dst
                                    /\ Joined(flows[i]) = {a, b}
        BY <3>1
      <3> QED
        BY <3>2
    <2>3. {flows[j].src, flows[j].dst} = {flows[k].src, flows[k].dst}
      BY <2>1, <2>2
    <2> QED
      BY <2>3 DEF FlowInv, FlowsAreConversations, Conversations
  <1>3. ASSUME NEW p \in Pairs PROVE \E k \in 1 .. Len(flows) : g[k] = p
    <2>1. PICK n \in 1 .. Len(capture) : p = {capture[n][1], capture[n][2]}
      BY DEF Pairs
    <2>2. PICK x \in Sockets, y \in Sockets : x = capture[n][1] /\ y = capture[n][2]
      BY DEF FlowInv, FlowTypes
    <2>3. PICK k \in 1 .. Len(flows) : {flows[k].src, flows[k].dst} = {end[x], end[y]}
      BY <2>2 DEF FlowInv, FlowsAreConversations, Conversations, EachHasFlow
    <2>4. Joined(flows[k]) = {s \in Sockets : end[s] \in {end[x], end[y]}}
      BY <2>3 DEF Joined
    <2>5. Joined(flows[k]) = {x, y}
      BY <2>4 DEF Told
    <2> QED
      BY <2>1, <2>2, <2>5
  <1> QED
    BY <1>1, <1>2, <1>3 DEF Bijection, Injection, Surjection, IsInjective

LEMMA StatInvariant == FlowSpec => [](FlowInv /\ StatInv)
  <1> QED
    BY FlowInitInv, FlowNextInv, StatInitInv, StatNextInv, PTL DEF FlowSpec

\* However many packets, hosts and flows there are: where the ends tell sockets
\* apart and no flow was left out, the statistics count connections, handshakes
\* and lone packets once each (workflow.py:34-165).
THEOREM FlowStatistics == FlowSpec => []StatisticsOfConnections
  <1>1. FlowInv /\ StatInv => StatisticsOfConnections
    <2> SUFFICES ASSUME FlowInv, StatInv, statistics # NoStatistic, Told,
                        Len(flows) < FlowLimit \/ \A k \in 1 .. Len(flows) : IsQuic(flows[k])
                 PROVE  /\ statistics.connections = Cardinality(Pairs)
                        /\ statistics.bidirectional = Cardinality({p \in Pairs : BothWays(p)})
                        /\ statistics.handshakes =
                             Cardinality({p \in Pairs : BothWays(p) /\ Cardinality(Passed(p)) > 3})
                        /\ statistics.singles = Cardinality({p \in Pairs : Cardinality(Passed(p)) = 1})
      BY DEF StatisticsOfConnections, Told
    <2>1. connections = 1 .. Len(flows) /\ Counted
      BY DEF StatInv, Kept
    <2> DEFINE S == 1 .. Len(flows)
               g == [k \in S |-> Joined(flows[k])]
    <2>2. g \in Bijection(S, Pairs)
      BY FlowsArePairs
    <2>3. IsFiniteSet(S)
      <3>1. PICK m \in Nat : m = Len(flows)
        BY DEF FlowInv, FlowTypes
      <3> QED
        BY <3>1, FS_Interval
    <2>4. \A k \in S : /\ g[k] \in Pairs
                       /\ Carried(flows[k]) = Cardinality(Passed(g[k]))
                       /\ Bidirectional(flows[k]) <=> BothWays(g[k])
      <3> TAKE k \in S
      <3>1. PICK a, b \in Sockets :
              /\ Joined(flows[k]) = {a, b} /\ {a, b} \in Pairs
              /\ Carried(flows[k]) = Cardinality(Passed({a, b}))
              /\ Bidirectional(flows[k]) <=> BothWays({a, b})
        BY FlowOfPair
      <3> QED
        BY <3>1
    <2> HIDE DEF S, g
    <2>5. \A A \in SUBSET S, B \in SUBSET Pairs :
            (\A k \in S : k \in A <=> g[k] \in B) => Cardinality(A) = Cardinality(B)
      BY <2>2, <2>3, SameCount
    <2>6. Cardinality(S) = Cardinality(Pairs)
      BY <2>4, <2>5
    <2>7. Cardinality({k \in S : Bidirectional(flows[k])}) = Cardinality({p \in Pairs : BothWays(p)})
      BY <2>4, <2>5
    <2>8. Cardinality({k \in S : Bidirectional(flows[k]) /\ Carried(flows[k]) > 3})
            = Cardinality({p \in Pairs : BothWays(p) /\ Cardinality(Passed(p)) > 3})
      BY <2>4, <2>5
    <2>9. Cardinality({k \in S : Carried(flows[k]) = 1})
            = Cardinality({p \in Pairs : Cardinality(Passed(p)) = 1})
      BY <2>4, <2>5
    <2> QED
      BY <2>1, <2>6, <2>7, <2>8, <2>9 DEF S, Counted
  <1> QED
    BY <1>1, StatInvariant, PTL

==============================================================================
