-------------------------- MODULE CaptureAnalysis --------------------------
(***************************************************************************)
(* The analysis of one downloaded capture (network/analyzer.py): the file  *)
(* is verified, a TShark process writes a row per packet into a pipe, the  *)
(* analyzer turns the rows into packet records, a timer thread kills the   *)
(* process when it takes too long, and the records are aggregated into the *)
(* metrics of PacketMetrics.                                               *)
(*                                                                         *)
(* A row maps field names to cells.  A cell is the sequence of the values  *)
(* in its comma-separated text: <<>> is a blank cell, Junk a value that is *)
(* not a number.                                                           *)
(***************************************************************************)
EXTENDS PacketMetrics

CONSTANTS Junk,       \* a value no conversion accepts
          Jobs,       \* the analyses: file, arguments, engine and its rows
          MaxRows,    \* bound on the rows TShark writes
          PipeSize    \* rows the pipe holds

\* The constructor of TSharkEngine refuses a record limit that is not positive.
ASSUME ConstantsAssumption ==
    /\ \A j \in Jobs : j.max_parsed_records \in Nat \ {0}
    /\ MaxRows \in Nat

VARIABLES job,        \* the analysis at hand, an element of Jobs
          pc,         \* where analyze_capture is
          proc,       \* the TShark process: none, running, or how it ended
          written,    \* rows TShark wrote
          read,       \* how many of them the analyzer has read
          timer,      \* the timer thread: off, armed or fired
          timed_out,  \* the event the timer sets
          packets,    \* parsed records
          outcome,    \* "report", the error raised, or Null
          report      \* the metrics returned
vars == <<job, pc, proc, written, read, timer, timed_out, packets, outcome, report>>

(***************************************************************************)
(* Conversion of a row                                                     *)
(***************************************************************************)
OptionalFields ==
    TcpFlags \cup
    {"frame.packet_flags_direction", "ip.src", "ip.dst", "ip.flags.mf", "ip.frag_offset",
     "ip.dsfield.ecn", "ipv6.src", "ipv6.dst", "ipv6.tclass", "ipv6.fraghdr.offset",
     "tcp.srcport", "tcp.dstport", "tcp.stream", "tcp.window_size_value",
     "tcp.analysis.initial_rtt", "tcp.analysis.ack_rtt", "udp.srcport", "udp.dstport",
     "quic.version", "quic.long.packet_type", "quic.spin_bit", "dns.flags.response",
     "dns.flags.rcode", "dns.time", "icmp.type", "icmpv6.type"}
REQUIRED_FIELDS == {"frame.time_epoch", "frame.len", "frame.cap_len", "frame.protocols",
                    "ip.len", "ipv6.plen", "tcp.len", "udp.length"}
FIELD_NAMES == REQUIRED_FIELDS \cup OptionalFields

get(row, field) == IF field \in DOMAIN row THEN row[field] ELSE <<>>
first(cell) == IF cell = <<>> THEN Null ELSE cell[1]
\* _integer and _float
number(cell) == IF first(cell) = Junk THEN Null ELSE first(cell)
OrZero(value) == IF value = Null THEN 0 ELSE value
flag(cell) == cell \notin {<<>>, <<0>>}
direction(cell) == IF cell = <<2>> THEN "tx" ELSE IF cell = <<1>> THEN "rx" ELSE Null

ICMPV4_ERROR_TYPES == {3, 4, 5, 11, 12}

\* The IP layer of a row: IPv4 when ip.len is there, else IPv6, else none.
Network(row) ==
    LET Num(field) == number(get(row, field))
    IN IF Num("ip.len") # Null
       THEN [version |-> 4, bytes |-> Num("ip.len"), src |-> first(get(row, "ip.src")),
             dst |-> first(get(row, "ip.dst")), ecn |-> Num("ip.dsfield.ecn")]
       ELSE IF Num("ipv6.plen") # Null
       THEN [version |-> 6, bytes |-> Num("ipv6.plen") + 40, src |-> first(get(row, "ipv6.src")),
             dst |-> first(get(row, "ipv6.dst")),
             ecn |-> IF Num("ipv6.tclass") = Null THEN Null ELSE Num("ipv6.tclass") % 4]
       ELSE [version |-> Null, bytes |-> 0, src |-> Null, dst |-> Null, ecn |-> Null]

\* The transport layer: TCP when both ports are there, else UDP, else neither.
Transport(row) ==
    LET Num(field) == number(get(row, field))
    IN IF Null \notin {Num("tcp.srcport"), Num("tcp.dstport")}
       THEN [name |-> "tcp", src |-> Num("tcp.srcport"), dst |-> Num("tcp.dstport"),
             payload |-> Max({0, OrZero(Num("tcp.len"))})]
       ELSE IF Null \notin {Num("udp.srcport"), Num("udp.dstport")}
       THEN [name |-> "udp", src |-> Num("udp.srcport"), dst |-> Num("udp.dstport"),
             payload |-> Max({0, OrZero(Num("udp.length")) - 8})]
       ELSE [name |-> "other", src |-> Null, dst |-> Null, payload |-> 0]

\* _packet: Null for a row without time or lengths.  The protocol list of a
\* frame is abstracted to whether it names quic.
packet(row) ==
    LET Num(field) == number(get(row, field))
        ip == Network(row)
        l4 == Transport(row)
    IN IF Null \in {Num("frame.time_epoch"), Num("frame.len"), Num("frame.cap_len")} THEN Null
       ELSE
       [timestamp |-> Num("frame.time_epoch"), frame_len |-> Num("frame.len"),
        captured_len |-> Num("frame.cap_len"),
        direction |-> direction(get(row, "frame.packet_flags_direction")),
        ip_version |-> ip.version, network_bytes |-> Max({0, ip.bytes}),
        src_ip |-> ip.src, dst_ip |-> ip.dst, src_port |-> l4.src, dst_port |-> l4.dst,
        transport |-> l4.name, l4_payload_bytes |-> l4.payload,
        tcp_stream |-> Num("tcp.stream"),
        ip_fragment |-> \/ flag(get(row, "ip.flags.mf"))
                        \/ OrZero(Num("ip.frag_offset")) > 0
                        \/ get(row, "ipv6.fraghdr.offset") # <<>>,
        ecn_ce |-> ip.ecn = 3,
        icmp_error |-> \/ Num("icmp.type") \in ICMPV4_ERROR_TYPES
                       \/ Num("icmpv6.type") # Null /\ Num("icmpv6.type") < 128,
        tcp |-> {f \in TcpFlags : flag(get(row, f))},
        tcp_window_size |-> Num("tcp.window_size_value"),
        tcp_initial_rtt |-> Num("tcp.analysis.initial_rtt"),
        tcp_ack_rtt |-> Num("tcp.analysis.ack_rtt"),
        quic |-> \/ get(row, "frame.protocols") = <<"quic">>
                 \/ \E f \in {"quic.version", "quic.long.packet_type", "quic.spin_bit"} :
                        get(row, f) # <<>>,
        quic_version |-> first(get(row, "quic.version")),
        quic_packet_type |-> first(get(row, "quic.long.packet_type")),
        quic_spin_bit |-> Num("quic.spin_bit"),
        dns_is_response |-> IF Num("dns.flags.response") = Null THEN Null
                            ELSE Num("dns.flags.response") # 0,
        dns_response_code |-> Num("dns.flags.rcode"),
        dns_time |-> Num("dns.time")]

\* What the engine makes of a row: only the fields this TShark supports are
\* asked for.
Parsed(row) == packet(Restrict(row, DOMAIN row \cap job.supported))

(***************************************************************************)
(* analyze_capture and TSharkEngine.read_packets                           *)
(***************************************************************************)
Init ==
    /\ job \in Jobs
    /\ pc = "verify"
    /\ proc = "none"
    /\ written = <<>>
    /\ read = 0
    /\ timer = "off"
    /\ timed_out = FALSE
    /\ packets = <<>>
    /\ outcome = Null
    /\ report = Null

Raise(error) == /\ outcome' = error
                /\ pc' = "done"
Goto(label) == /\ pc' = label
               /\ UNCHANGED outcome

\* The transfer size, capture_format, the declared format and the checksum, in
\* this order; the command line declares no format.
Verify ==
    /\ pc = "verify"
    /\ IF job.size <= 0 THEN Raise("value_error")
       ELSE IF job.magic \notin {"pcap", "pcapng"} \/ job.declared \notin {Null, job.magic}
       THEN Raise("invalid_capture")
       ELSE IF ~job.intact THEN Raise("checksum_mismatch") ELSE Goto("metadata")
    /\ UNCHANGED <<job, proc, written, read, timer, timed_out, packets, report>>

\* version and supported_fields: a command that is missing, fails, times out or
\* lacks a required field raises RuntimeError.
Metadata ==
    /\ pc = "metadata"
    /\ \/ Raise("runtime_error")
       \/ REQUIRED_FIELDS \subseteq job.supported /\ Goto("spawn")
    /\ UNCHANGED <<job, proc, written, read, timer, timed_out, packets, report>>

Spawn ==
    /\ pc = "spawn"
    /\ \/ Raise("runtime_error") /\ UNCHANGED <<proc, timer>>
       \/ Goto("reading") /\ proc' = "running" /\ timer' = "armed"
    /\ UNCHANGED <<job, written, read, timed_out, packets, report>>

\* TShark writes a row, blocking while the pipe is full, or ends.
TsharkWrites ==
    /\ proc = "running"
    /\ Len(written) < MaxRows
    /\ Len(written) - read < PipeSize
    /\ \E row \in job.rows : written' = Append(written, row)
    /\ UNCHANGED <<job, pc, proc, read, timer, timed_out, packets, outcome, report>>

TsharkEnds ==
    /\ proc = "running"
    /\ proc' \in {"ok", "cut_short", "failed"}
    /\ UNCHANGED <<job, pc, written, read, timer, timed_out, packets, outcome, report>>

\* Mutant: nothing is killed.
Kill_Mutant == UNCHANGED proc

Kill == proc' = IF proc = "running" THEN "killed" ELSE proc

\* Mutant: the timer only sets its event.
Timeout_Mutant ==
    /\ timer = "armed"
    /\ timer' = "fired"
    /\ timed_out' = TRUE
    /\ UNCHANGED <<job, pc, proc, written, read, packets, outcome, report>>

\* terminate_on_timeout, on the timer's thread.
Timeout ==
    /\ timer = "armed"
    /\ timer' = "fired"
    /\ timed_out' = TRUE
    /\ Kill
    /\ UNCHANGED <<job, pc, written, read, packets, outcome, report>>

\* An iteration of the loop; raising runs the finally clause.
ReadRow ==
    /\ pc = "reading"
    /\ read < Len(written)
    /\ read' = read + 1
    /\ LET p == Parsed(written[read + 1])
       IN IF p # Null /\ Len(packets) >= job.max_parsed_records
          THEN /\ Kill
               /\ timer' = "off"
               /\ Raise("capture_resource_limit")
               /\ UNCHANGED packets
          ELSE /\ packets' = IF p = Null THEN packets ELSE Append(packets, p)
               /\ UNCHANGED <<pc, proc, timer, outcome>>
    /\ UNCHANGED <<job, written, timed_out, report>>

\* The end of the pipe, and process.wait.
EndOfRows ==
    /\ pc = "reading"
    /\ read = Len(written)
    /\ proc # "running"
    /\ Goto("cancel")
    /\ UNCHANGED <<job, proc, written, read, timer, timed_out, packets, report>>

CancelTimer ==
    /\ pc = "cancel"
    /\ timer' = "off"
    /\ Goto("judge")
    /\ UNCHANGED <<job, proc, written, read, timed_out, packets, report>>

Metrics == aggregate_packets(packets, job.scenario, job.size, job.supported)

\* Mutant: the return code is not looked at.
Judge_Mutant ==
    /\ pc = "judge"
    /\ IF timed_out THEN Raise("tshark_timeout") /\ UNCHANGED report
       ELSE LET metrics == Metrics
            IN IF Valid(metrics) THEN Raise("report") /\ report' = metrics
               ELSE Raise("validation_error") /\ UNCHANGED report
    /\ UNCHANGED <<job, proc, written, read, timer, timed_out, packets>>

\* What becomes of the rows: an error, or the metrics if the event models
\* accept them.
Judge ==
    /\ pc = "judge"
    /\ IF timed_out THEN Raise("tshark_timeout") /\ UNCHANGED report
       ELSE IF proc = "cut_short" THEN Raise("invalid_capture") /\ UNCHANGED report
       ELSE IF proc # "ok" THEN Raise("tshark_parse_failure") /\ UNCHANGED report
       ELSE LET metrics == Metrics
            IN IF Valid(metrics) THEN Raise("report") /\ report' = metrics
               ELSE Raise("validation_error") /\ UNCHANGED report
    /\ UNCHANGED <<job, proc, written, read, timer, timed_out, packets>>

Next ==
    \/ Verify \/ Metadata \/ Spawn \/ ReadRow \/ EndOfRows \/ CancelTimer \/ Judge
    \/ Timeout \/ TsharkWrites \/ TsharkEnds

Spec == Init /\ [][Next]_vars
\* The analyzer and its timer are threads that run; TShark may hang for ever.
\* ReadRow and Judge are named by their guards and a variable they always
\* change, which spares TLC from computing metrics to see that they are enabled.
FairSpec ==
    /\ Spec
    /\ WF_vars(Verify \/ Metadata \/ Spawn \/ EndOfRows \/ CancelTimer)
    /\ WF_read(pc = "reading" /\ read < Len(written) /\ read' = read + 1)
    /\ WF_pc(pc = "judge" /\ pc' = "done")
    /\ WF_vars(Timeout)

(***************************************************************************)
(* Properties                                                              *)
(***************************************************************************)
Outcomes == {"report", "value_error", "invalid_capture", "checksum_mismatch",
             "runtime_error", "capture_resource_limit", "tshark_timeout",
             "tshark_parse_failure", "validation_error"}

Packets == {Parsed(row) : row \in job.rows} \ {Null}

\* Types; an analysis has an outcome exactly when it is over, and never more
\* records than the limit.
TypeOK ==
    /\ job \in Jobs
    /\ pc \in {"verify", "metadata", "spawn", "reading", "cancel", "judge", "done"}
    /\ proc \in {"none", "running", "ok", "cut_short", "failed", "killed"}
    /\ written \in Seq(job.rows) /\ Len(written) <= MaxRows
    /\ read \in 0..Len(written)
    /\ timer \in {"off", "armed", "fired"} /\ timed_out \in BOOLEAN
    /\ packets \in Seq(Packets) /\ Len(packets) <= job.max_parsed_records
    /\ IF pc = "done" THEN outcome \in Outcomes ELSE outcome = Null /\ report = Null

\* The records are what the first n rows hold: origin gives the row of every
\* record, in the order of the rows, and leaves out no row that is a packet.
RecordsOf(n) ==
    \E origin \in [DOMAIN packets -> 1..n] :
        /\ \A i, j \in DOMAIN packets : i < j => origin[i] < origin[j]
        /\ \A i \in DOMAIN packets : packets[i] = Parsed(written[origin[i]])
        /\ \A k \in 1..n :
               Parsed(written[k]) # Null <=> \E i \in DOMAIN packets : origin[i] = k

\* The metrics cover the whole capture: read_packets returns only when TShark
\* ended by itself and without error, and then every row it wrote was read and
\* every one of them that is a packet is among the records, once, in order and
\* within the record limit.
ReportIsWhole ==
    report # Null => /\ proc = "ok"
                     /\ ~timed_out
                     /\ Len(packets) <= job.max_parsed_records
                     /\ RecordsOf(Len(written))

\* A TShark process never outlives the analysis: whether the record limit, the
\* timer or an error ends it, nothing is left running and no timer is armed.
NothingLeftBehind == pc = "done" => proc # "running" /\ timer # "armed"

\* An analysis comes to an end even when TShark hangs: the timer kills the
\* process, the pipe ends and the outcome is known.
Answers == <>(pc = "done")

(* Reference definitions *)

\* The flow of a packet, as an unordered pair of endpoints.
Conversation(p) == <<p.ip_version, {Source(p), Destination(p)}, p.transport>>

\* metrics.py calls a flow the packets between two endpoints in either
\* direction, and counts how many of the largest carry 80% of the payload: the
\* flows are the conversations, and the count is the size of a smallest set of
\* them that carries as much.
FlowsAreConversations ==
    report # Null =>
        LET ip == IpPackets(packets)
            spoken == SelectSeq(ip, LAMBDA p : p.transport # "other")
            conversations == {Conversation(p) : p \in ToSet(spoken)}
            Carried(S) == PayloadBytes(SelectSeq(spoken, LAMBDA p : Conversation(p) \in S))
            enough == {S \in SUBSET conversations : 5 * Carried(S) >= 4 * PayloadBytes(ip)}
        IN /\ report.flow.flow_count = Cardinality(conversations)
           /\ report.flow.flows_for_80pct_payload = Min({Cardinality(S) : S \in enough})

\* The window of a direction of a connection is closed at tick t: a zero-window
\* segment was seen, and since then none that opens the window.
Closed(connection, t) ==
    \E i \in DOMAIN packets :
        /\ connection_key(packets[i]) = connection
        /\ "tcp.analysis.zero_window" \in packets[i].tcp
        /\ packets[i].timestamp <= t
        /\ ~\E j \in DOMAIN packets :
               /\ connection_key(packets[j]) = connection
               /\ Source(packets[j]) = Source(packets[i])
               /\ "tcp.analysis.zero_window" \notin packets[j].tcp
               /\ OrZero(packets[j].tcp_window_size) > 0
               /\ packets[j].timestamp <= t
               /\ Lexicographic(<<packets[i].timestamp, i>>, <<packets[j].timestamp, j>>)

\* "Merge intervals across both flow directions so simultaneous receiver
\* pressure cannot make stall duration exceed the flow's active wall-clock
\* duration" (metrics.py:218): the stall duration is the time during which the
\* window of at least one direction of a connection is closed.
StallsAsObserved ==
    report # Null /\ report.tcp # Null =>
        LET tcp == SelectSeq(IpPackets(packets), LAMBDA p : p.transport = "tcp")
            Times(k) == {p.timestamp : p \in {q \in ToSet(tcp) : connection_key(q) = k}}
            Stalled(k) == {t \in Min(Times(k))..(Max(Times(k)) - 1) : Closed(k, t)}
        IN /\ report.tcp.zero_window_duration =
                 MapThenSumSet(LAMBDA k : Cardinality(Stalled(k)), ConnectionKeys(tcp))
           /\ report.tcp.zero_window_duration <= report.tcp.active_duration

\* Metrics do not depend on the order of the packets in the file, merged
\* captures being out of order, as long as the time tells them apart: swapping
\* two neighbours changes nothing.
OrderIndependent ==
    report # Null =>
        \A i \in 1..(Len(packets) - 1) :
            packets[i].timestamp # packets[i+1].timestamp =>
                report = aggregate_packets(
                            [packets EXCEPT ![i] = packets[i+1], ![i+1] = packets[i]],
                            job.scenario, job.size, job.supported)

\* "TCP retransmission rate = retransmitted data segments / TCP data segments"
\* (docs/network/README.md:230).
RetransmissionRate ==
    report # Null /\ report.tcp # Null =>
        LET data == SelectSeq(packets, LAMBDA p : p.ip_version # Null /\ p.transport = "tcp"
                                                  /\ p.l4_payload_bytes > 0)
        IN report.tcp.retransmission_rate = ratio(Count(Retransmitted, data), Len(data))
=============================================================================
