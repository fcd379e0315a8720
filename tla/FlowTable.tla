------------------------------ MODULE FlowTable ------------------------------
(***************************************************************************)
(* domains/network/workflow.py:34-165, pcap_ingest_agent and the counting  *)
(* part of traffic_statistics_agent: the UDP packets of a capture become   *)
(* flows, the flows connections, and these the numbers that every network  *)
(* agent after them reasons from.                                          *)
(*                                                                         *)
(* A packet goes from one host's socket to another's.  What the code sees  *)
(* of a socket is pkt.src or pkt.dst, in scapy the address of the          *)
(* outermost layer that has one (the frame's, if it is Ethernet), and the  *)
(* port: its end.  Sockets of several hosts may have one end.  The code    *)
(* reads nothing of QUIC: no connection identifier and no packet number    *)
(* space, whatever the README's table of agents says, and what it calls a  *)
(* completed handshake is its own estimate from the traffic of both sides. *)
(* Times, bytes, averages and the rounding of ratios are left out.         *)
(***************************************************************************)
EXTENDS Naturals, Sequences, FiniteSets

CONSTANTS
  Sockets,      \* the true ends of the connections
  Ends,         \* link address and port
  QuicEnds,     \* those whose port is in quic_ports
  FlowLimit,    \* from this many flows on only QUIC flows are kept, 500
  MaxPackets    \* bound: length of a capture

ASSUME FlowAssumption ==
  /\ QuicEnds \subseteq Ends
  /\ FlowLimit \in Nat

VARIABLES
  end,          \* the end of each socket, as the capture shows it
  capture,      \* history: the packets so far, as pairs of sockets
  flows,        \* flows, in the order of their first packets
  connections,  \* nd["connections"]: the places in flows of the flows it keeps
  statistics,   \* nd["statistics"]
  flowAt        \* which agent runs

flowVars == <<end, capture, flows, connections, statistics, flowAt>>

NoStatistic == [connections |-> 0]

FlowInit ==
  /\ end \in [Sockets -> Ends]
  /\ capture = <<>>
  /\ flows = <<>>
  /\ connections = {}
  /\ statistics = NoStatistic
  /\ flowAt = "ingest"

\* flow_key in flows, for the key <<s, d>>: its place.
Places(s, d) == {k \in 1 .. Len(flows) : flows[k].src = s /\ flows[k].dst = d}

Place(s, d) == CHOOSE k \in Places(s, d) : TRUE

\* Mutant of Account: the reverse key is not looked for.
AccountOneWay(s, d) ==
  flows' = IF Places(s, d) # {} THEN [flows EXCEPT ![Place(s, d)].sent = @ + 1]
           ELSE Append(flows, [src |-> s, dst |-> d, sent |-> 1, received |-> 0])

\* One more packet of the flow, of the flow in the other direction, or of a new one.
Account(s, d) ==
  flows' = IF Places(s, d) # {} THEN [flows EXCEPT ![Place(s, d)].sent = @ + 1]
           ELSE IF Places(d, s) # {} THEN [flows EXCEPT ![Place(d, s)].received = @ + 1]
           ELSE Append(flows, [src |-> s, dst |-> d, sent |-> 1, received |-> 0])

Packet(from, to) ==
  /\ flowAt = "ingest"
  /\ Len(capture) < MaxPackets
  /\ capture' = Append(capture, <<from, to>>)
  /\ Account(end[from], end[to])
  /\ UNCHANGED <<end, connections, statistics, flowAt>>

IsQuic(f) == f.src \in QuicEnds \/ f.dst \in QuicEnds

\* The capture is read: nd["connections"] is the flows that are QUIC, or all of
\* them if there are few.
Ingested ==
  /\ flowAt = "ingest"
  /\ connections' = {k \in 1 .. Len(flows) : IsQuic(flows[k]) \/ Len(flows) < FlowLimit}
  /\ flowAt' = "statistics"
  /\ UNCHANGED <<end, capture, flows, statistics>>

\* A packet that cannot be read: nd["error"] is all that is left.
IngestFails ==
  /\ flowAt = "ingest"
  /\ flowAt' = "statistics"
  /\ UNCHANGED <<end, capture, flows, connections, statistics>>

Carried(f) == f.sent + f.received

Bidirectional(f) == f.received > 0

HowMany(P(_)) == Cardinality({k \in connections : P(flows[k])})

\* Mutant of Handshakes: packets of either side alone are enough.
HandshakesOneSided == HowMany(LAMBDA f : Carried(f) > 3)

\* completed_handshakes
Handshakes == HowMany(LAMBDA f : Bidirectional(f) /\ Carried(f) > 3)

Singles == HowMany(LAMBDA f : Carried(f) = 1)

Statistics ==
  /\ flowAt = "statistics"
  /\ statistics' =
       IF connections = {} THEN NoStatistic
       ELSE [connections |-> Cardinality(connections),
             bidirectional |-> HowMany(Bidirectional),
             handshakes |-> Handshakes,
             singles |-> Singles]
  /\ flowAt' = "over"
  /\ UNCHANGED <<end, capture, flows, connections>>

FlowsDone == flowAt = "over" /\ UNCHANGED flowVars

FlowNext ==
  \/ \E from \in Sockets : \E to \in Sockets \ {from} : Packet(from, to)
  \/ Ingested \/ IngestFails \/ Statistics \/ FlowsDone

FlowSpec == FlowInit /\ [][FlowNext]_flowVars

------------------------------------------------------------------------------

\* How many of the packets show from the end s to the end d, for the ends e.
Shown(packets, e, s, d) ==
  Cardinality({n \in 1 .. Len(packets) : e[packets[n][1]] = s /\ e[packets[n][2]] = d})

\* Each of the packets has a flow among fs, for the ends e.
EachHasFlow(packets, e, fs) ==
  \A n \in 1 .. Len(packets) : \E k \in 1 .. Len(fs) :
    {fs[k].src, fs[k].dst} = {e[packets[n][1]], e[packets[n][2]]}

\* The flows fs are the conversations of the packets, for the ends e: one for
\* each pair of ends that packets show, each with the packets of its two sides.
Conversations(packets, e, fs) ==
  /\ \A j, k \in 1 .. Len(fs) : {fs[j].src, fs[j].dst} = {fs[k].src, fs[k].dst} => j = k
  /\ \A k \in 1 .. Len(fs) :
       /\ fs[k].sent = Shown(packets, e, fs[k].src, fs[k].dst)
       /\ fs[k].src # fs[k].dst => fs[k].received = Shown(packets, e, fs[k].dst, fs[k].src)
  /\ EachHasFlow(packets, e, fs)

(***************************************************************************)
(* As the code keys its flows, by address and port (workflow.py:53-54), a  *)
(* flow is a conversation of two ends, in the direction of its first       *)
(* packet, and each is there once: whichever end speaks first, however the *)
(* directions alternate, every packet counts in one flow and on its side.  *)
(* That connections are told apart so is not said; see                     *)
(* HandshakesOfConnections.                                                *)
(***************************************************************************)
FlowsAreConversations == Conversations(capture, end, flows)

\* The pairs of sockets that exchanged packets, and what passed between two.
Pairs == {{capture[n][1], capture[n][2]} : n \in 1 .. Len(capture)}

Passed(pair) == {n \in 1 .. Len(capture) : {capture[n][1], capture[n][2]} = pair}

BothWays(pair) == \A s \in pair : \E n \in Passed(pair) : capture[n][1] = s

(***************************************************************************)
(* The statistics are about connections only where the ends tell sockets   *)
(* apart and no flow was left out for its ports: then a connection, a      *)
(* handshake in the estimate of workflow.py:131-132 (both sides spoke,     *)
(* four packets or more) and a lone packet each count once.  Otherwise one *)
(* client's silence hides behind another.                                  *)
(***************************************************************************)
StatisticsOfConnections ==
  LET told == \A s, t \in Sockets : s # t => end[s] # end[t]
      all == Len(flows) < FlowLimit \/ \A k \in 1 .. Len(flows) : IsQuic(flows[k])
  IN  flowAt = "over" /\ statistics # NoStatistic /\ told /\ all
        => /\ statistics.connections = Cardinality(Pairs)
           /\ statistics.bidirectional = Cardinality({p \in Pairs : BothWays(p)})
           /\ statistics.handshakes =
                Cardinality({p \in Pairs : BothWays(p) /\ Cardinality(Passed(p)) > 3})
           /\ statistics.singles = Cardinality({p \in Pairs : Cardinality(Passed(p)) = 1})

\* What src/README.md:83 and :85 say: connections are told apart by their
\* identifiers, not by addresses and ports, and a handshake is taken for completed
\* on the packets of each connection.  At the least both sides of as many
\* connections as are counted have spoken.
HandshakesOfConnections ==
  statistics # NoStatistic => statistics.handshakes <= Cardinality({p \in Pairs : BothWays(p)})

==============================================================================
