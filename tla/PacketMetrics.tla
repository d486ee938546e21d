--------------------------- MODULE PacketMetrics ---------------------------
(***************************************************************************)
(* The metrics the analyzer derives from the packets of a capture          *)
(* (network/metrics.py), as operators on a sequence of packet records.     *)
(*                                                                         *)
(* Timestamps are integers, TicksPerSecond of them in a second, and every  *)
(* duration is a number of ticks.  A quotient is kept as the pair of its   *)
(* numerator and denominator: the constant factors of the units (8 bits,   *)
(* 10^6, 1024^2) are left out.  An address is an integer with the order of *)
(* the strings.  Null is Python's None.                                    *)
(***************************************************************************)
EXTENDS Integers, SequencesExt

CONSTANTS Null,             \* an absent value
          TicksPerSecond    \* resolution of the timestamps

\* The boolean TShark fields of a TCP segment; those after the third only
\* feed a counter each, tcp.analysis.zero_window excepted.
TcpFlags == {"tcp.flags.syn", "tcp.flags.ack", "tcp.flags.reset",
             "tcp.analysis.retransmission", "tcp.analysis.fast_retransmission",
             "tcp.analysis.spurious_retransmission", "tcp.analysis.zero_window",
             "tcp.analysis.window_full", "tcp.analysis.out_of_order",
             "tcp.analysis.duplicate_ack", "tcp.analysis.lost_segment"}

Total(Val(_), ps) == MapThenSumSet(LAMBDA i : Val(ps[i]), DOMAIN ps)
Count(Test(_), ps) == Quantify(DOMAIN ps, LAMBDA i : Test(ps[i]))
Mapped(Val(_), ps) == [i \in DOMAIN ps |-> Val(ps[i])]
NetworkBytes(ps) == Total(LAMBDA p : p.network_bytes, ps)
PayloadBytes(ps) == Total(LAMBDA p : p.l4_payload_bytes, ps)
NotNull(values) == SelectSeq(values, LAMBDA v : v # Null)

(***************************************************************************)
(* Helpers of the source                                                   *)
(***************************************************************************)
\* Nearest rank; ceil(p / 100 * n) in floating point is the exact ceiling for
\* the percentiles 50 and 95 and every n up to the record limit of 250000.
percentile(values, p) ==
    IF values = <<>> THEN Null
    ELSE SortSeq(values, <)[Max({1, (p * Len(values) + 99) \div 100})]

ratio(numerator, denominator) ==
    IF denominator <= 0 THEN Null ELSE <<numerator, denominator>>

average(values) ==
    IF values = <<>> THEN Null ELSE <<Total(LAMBDA v : v, values), Len(values)>>

Source(p) == <<p.src_ip, p.src_port>>
Destination(p) == <<p.dst_ip, p.dst_port>>
Lexicographic(a, b) == a[1] < b[1] \/ (a[1] = b[1] /\ a[2] < b[2])

\* Mutant: the endpoints are not put in order.
flow_key_Mutant(p) ==
    IF \/ Null \in {p.ip_version, p.src_ip, p.dst_ip, p.src_port, p.dst_port}
       \/ p.transport \notin {"tcp", "udp"}
    THEN Null
    ELSE <<p.ip_version, Source(p), Destination(p), p.transport>>

flow_key(p) ==
    IF \/ Null \in {p.ip_version, p.src_ip, p.dst_ip, p.src_port, p.dst_port}
       \/ p.transport \notin {"tcp", "udp"}
    THEN Null
    ELSE LET ends == SortSeq(<<Source(p), Destination(p)>>, Lexicographic)
         IN <<p.ip_version, ends[1], ends[2], p.transport>>

connection_key(p) ==
    IF p.tcp_stream # Null THEN <<"stream", p.tcp_stream>>
    ELSE IF flow_key(p) = Null THEN Null ELSE <<"flow", flow_key(p)>>

FlowKeys(ps) == {flow_key(p) : p \in ToSet(ps)} \ {Null}
ConnectionKeys(ps) == {connection_key(p) : p \in ToSet(ps)} \ {Null}

\* list.sort(key=timestamp), which is stable.
by_time(ps) ==
    LET Before(i, j) == Lexicographic(<<ps[i].timestamp, i>>, <<ps[j].timestamp, j>>)
        order == SortSeq([i \in DOMAIN ps |-> i], Before)
    IN [i \in DOMAIN ps |-> ps[order[i]]]

\* Mutant: the records of a QUIC flow stay in the order of the file.
FlowRecords_Mutant(ps, key) == SelectSeq(ps, LAMBDA p : flow_key(p) = key)

\* The records of a flow, and of a connection, in the order of time.
FlowRecords(ps, key) == by_time(SelectSeq(ps, LAMBDA p : flow_key(p) = key))
Records(ps, key) == by_time(SelectSeq(ps, LAMBDA p : connection_key(p) = key))

\* payload: the payload bytes of every flow.  accumulated >= total * 0.8 is
\* exact, the float 0.8 being within half a unit in the last place.
flows_for_80_percent(payload, total) ==
    LET sizes == SortSeq(Mapped(LAMBDA k : payload[k], SetToSeq(DOMAIN payload)), >)
        Enough(n) == 5 * Total(LAMBDA v : v, SubSeq(sizes, 1, n)) >= 4 * total
        counts == {n \in DOMAIN sizes : Enough(n)}
    IN IF total <= 0 THEN 0 ELSE IF counts = {} THEN Len(sizes) ELSE Min(counts)

handshake_completed(records) ==
    \E i, j, k \in DOMAIN records :
        LET syn == records[i]
            syn_ack == records[j]
            acknowledgment == records[k]
        IN /\ i < j /\ j < k
           /\ "tcp.flags.syn" \in syn.tcp /\ "tcp.flags.ack" \notin syn.tcp
           /\ {"tcp.flags.syn", "tcp.flags.ack"} \subseteq syn_ack.tcp
           /\ Source(syn_ack) = Destination(syn) /\ Destination(syn_ack) = Source(syn)
           /\ "tcp.flags.syn" \notin acknowledgment.tcp
           /\ "tcp.flags.ack" \in acknowledgment.tcp
           /\ Source(acknowledgment) = Source(syn)
           /\ Destination(acknowledgment) = Destination(syn)

(***************************************************************************)
(* Zero-window stalls of one connection                                    *)
(***************************************************************************)
Observe(stalls, p) ==
    LET way == <<Source(p), Destination(p)>>
        opened == way \in DOMAIN stalls.open
    IN IF "tcp.analysis.zero_window" \in p.tcp
       THEN IF opened THEN stalls
            ELSE [stalls EXCEPT !.open = (way :> p.timestamp) @@ @]
       ELSE IF p.tcp_window_size # Null /\ p.tcp_window_size > 0 /\ opened
            THEN [open |-> Restrict(stalls.open, DOMAIN stalls.open \ {way}),
                  closed |-> Append(stalls.closed, <<stalls.open[way], p.timestamp>>)]
            ELSE stalls

\* Mutant: an interval inside the previous one pulls its end back.
Merge_Mutant(merged, interval) ==
    IF interval[2] <= interval[1] THEN merged
    ELSE IF merged = <<>> \/ interval[1] > Last(merged)[2]
         THEN Append(merged, interval)
         ELSE [merged EXCEPT ![Len(merged)][2] = interval[2]]

Merge(merged, interval) ==
    IF interval[2] <= interval[1] THEN merged
    ELSE IF merged = <<>> \/ interval[1] > Last(merged)[2]
         THEN Append(merged, interval)
         ELSE [merged EXCEPT ![Len(merged)][2] = Max({@, interval[2]})]

\* open: whether a stall is still open at the end; ticks: the merged duration.
Stalls(records) ==
    LET seen == FoldLeft(Observe, [open |-> <<>>, closed |-> <<>>], records)
        ends == Mapped(LAMBDA way : <<seen.open[way], Last(records).timestamp>>,
                       SetToSeq(DOMAIN seen.open))
        merged == FoldLeft(Merge, <<>>, SortSeq(seen.closed \o ends, Lexicographic))
    IN [open |-> DOMAIN seen.open # {}, ticks |-> Total(LAMBDA v : v[2] - v[1], merged)]

(***************************************************************************)
(* One operator per protocol; Null when the capture has none of it.        *)
(***************************************************************************)
Retransmitted(p) == p.tcp \cap {"tcp.analysis.retransmission",
                                "tcp.analysis.fast_retransmission",
                                "tcp.analysis.spurious_retransmission"} # {}

FirstInitialRtt(records) ==
    LET rtts == NotNull(Mapped(LAMBDA p : p.tcp_initial_rtt, records))
    IN IF rtts = <<>> THEN Null ELSE rtts[1]

aggregate_tcp(packets) ==
    LET tcp == SelectSeq(packets, LAMBDA p : p.transport = "tcp")
        keys == ConnectionKeys(tcp)
        successful == Cardinality({k \in keys : handshake_completed(Records(tcp, k))})
        rtts == NotNull(Mapped(LAMBDA k : FirstInitialRtt(Records(tcp, k)), SetToSeq(keys)))
        reset == {k \in keys : \E p \in ToSet(Records(tcp, k)) : "tcp.flags.reset" \in p.tcp}
        Active(k) == LET r == Records(tcp, k) IN Last(r).timestamp - r[1].timestamp
        active == MapThenSumSet(Active, keys)
        stalled == MapThenSumSet(LAMBDA k : Stalls(Records(tcp, k)).ticks, keys)
        acks == NotNull(Mapped(LAMBDA p : p.tcp_ack_rtt, tcp))
        p50 == percentile(acks, 50)
        p95 == percentile(acks, 95)
        data == Count(LAMBDA p : p.l4_payload_bytes > 0, tcp)
        again == SelectSeq(tcp, Retransmitted)
    IN IF tcp = <<>> THEN Null ELSE
       [connection_count |-> Cardinality(keys),
        successful_handshake_count |-> successful,
        incomplete_handshake_count |-> Max({0, Cardinality(keys) - successful}),
        handshake_success_rate |-> ratio(successful, Cardinality(keys)),
        initial_rtt |-> <<average(rtts), percentile(rtts, 50), percentile(rtts, 95)>>,
        ack_rtt |-> <<IF acks = <<>> THEN Null ELSE Min(ToSet(acks)), p50, p95>>,
        rtt_tail_inflation |-> IF p95 # Null /\ p50 \notin {Null, 0} THEN <<p95, p50>> ELSE Null,
        data_segment_count |-> data,
        retransmission_count |-> Len(again),
        flag_counts |-> [f \in TcpFlags |-> Count(LAMBDA p : f \in p.tcp, tcp)],
        retransmission_rate |-> ratio(Len(again), data),
        recovery_tax |-> ratio(PayloadBytes(again), PayloadBytes(tcp)),
        zero_window_duration |-> stalled,
        active_duration |-> active,
        receiver_stall_ratio |-> ratio(stalled, active),
        reset_rate |-> ratio(Cardinality(reset), Cardinality(keys)),
        rtt_available |-> rtts # <<>> \/ acks # <<>>,
        warnings |-> {w \in {"tcp_zero_window_open_at_capture_end", "missing_tcp_handshake"} :
                      IF w = "missing_tcp_handshake" THEN successful = 0
                      ELSE \E k \in keys : Stalls(Records(tcp, k)).open}]

\* The estimate of the initial exchange of a QUIC flow.
InitialRtt(records) ==
    LET Firsts(way) == SelectSeq(records, LAMBDA p : p.direction = way /\ p.quic_packet_type = 0)
        gap == Firsts("rx")[1].timestamp - Firsts("tx")[1].timestamp
    IN IF Firsts("tx") = <<>> \/ Firsts("rx") = <<>> THEN Null
       ELSE IF gap < 0 THEN -gap ELSE gap

\* The time between two packets of a direction whose spin bits differ.
SpinSamples(records) ==
    LET Ways(way) == SelectSeq(records, LAMBDA p : p.direction = way /\ p.quic_spin_bit # Null)
        Edges(s) == {i \in 1..(Len(s) - 1) : s[i].quic_spin_bit # s[i+1].quic_spin_bit}
        Gaps(s) == Mapped(LAMBDA i : s[i+1].timestamp - s[i].timestamp, SetToSeq(Edges(s)))
    IN Gaps(Ways("tx")) \o Gaps(Ways("rx"))

aggregate_quic(packets, supported) ==
    LET quic == SelectSeq(packets, LAMBDA p : p.quic)
        flows == SetToSeq(FlowKeys(quic))
        If(field, value) == IF field \in supported THEN value ELSE Null
        versions == {p.quic_version : p \in ToSet(quic)} \ {Null, 0}
        rtts == NotNull(Mapped(LAMBDA k : InitialRtt(FlowRecords(quic, k)), flows))
        spins == FlattenSeq(Mapped(LAMBDA k : SpinSamples(FlowRecords(quic, k)), flows))
    IN IF quic = <<>> THEN Null ELSE
       [connection_count |-> Len(flows),
        versions_seen |-> If("quic.version", versions),
        retry_count |-> If("quic.long.packet_type", Count(LAMBDA p : p.quic_packet_type = 3, quic)),
        version_negotiation_count |-> If("quic.version", Count(LAMBDA p : p.quic_version = 0, quic)),
        zero_rtt_count |-> If("quic.long.packet_type", Count(LAMBDA p : p.quic_packet_type = 1, quic)),
        initial_rtt |-> <<average(rtts), percentile(rtts, 50), percentile(rtts, 95)>>,
        spin_sample_count |-> If("quic.spin_bit", Len(spins)),
        spin_rtt |-> <<IF spins = <<>> THEN Null ELSE Min(ToSet(spins)),
                       percentile(spins, 50), percentile(spins, 95)>>,
        initial_available |-> rtts # <<>>,
        spin_available |-> spins # <<>>]

aggregate_udp(packets) ==
    LET udp == SelectSeq(packets, LAMBDA p : p.transport = "udp" /\ ~p.quic)
        sizes == Mapped(LAMBDA p : p.l4_payload_bytes, udp)
        keyed == SelectSeq(udp, LAMBDA p : flow_key(p) # Null)
        forward == NetworkBytes(SelectSeq(keyed, LAMBDA p : Source(p) = flow_key(p)[2]))
        backward == NetworkBytes(SelectSeq(keyed, LAMBDA p : Source(p) # flow_key(p)[2]))
    IN IF udp = <<>> THEN Null ELSE
       [flow_count |-> Cardinality(FlowKeys(udp)),
        datagram_count |-> Len(udp),
        network_bytes |-> NetworkBytes(udp),
        payload_bytes |-> PayloadBytes(udp),
        payload_size |-> <<percentile(sizes, 50), percentile(sizes, 95)>>,
        bidirectional_byte_ratio |-> ratio(Min({forward, backward}), Max({forward, backward}))]

aggregate_dns(packets) ==
    LET dns == SelectSeq(packets, LAMBDA p : p.dns_is_response # Null)
        rtts == NotNull(Mapped(LAMBDA p : p.dns_time, dns))
    IN IF dns = <<>> THEN Null ELSE
       [query_count |-> Count(LAMBDA p : p.dns_is_response = FALSE, dns),
        response_count |-> Count(LAMBDA p : p.dns_is_response = TRUE, dns),
        failure_count |-> Count(LAMBDA p : /\ p.dns_is_response = TRUE
                                           /\ p.dns_response_code \notin {Null, 0}, dns),
        rtt |-> <<percentile(rtts, 50), percentile(rtts, 95)>>]

(***************************************************************************)
(* aggregate_packets, one operator per section of its result               *)
(***************************************************************************)
IpPackets(packets) == SelectSeq(packets, LAMBDA p : p.ip_version \in {4, 6})
Going(ip, way) == SelectSeq(ip, LAMBDA p : p.direction = way)
DirectionAvailable(ip) == ip # <<>> /\ \A p \in ToSet(ip) : p.direction # Null
Span(ps) == LET times == {p.timestamp : p \in ToSet(ps)}
            IN IF ps = <<>> THEN 0 ELSE Max(times) - Min(times)
Truncated(packets) == Count(LAMBDA p : p.captured_len < p.frame_len, packets)

Primary(scenario) == IF scenario = "upload" THEN "tx" ELSE "rx"
ReverseWay(scenario) == IF Primary(scenario) = "tx" THEN "rx" ELSE "tx"

PrimaryPayload(ip, scenario) ==
    SelectSeq(Going(ip, Primary(scenario)), LAMBDA p : p.l4_payload_bytes > 0)

\* primary_span_ms
PrimarySpan(ip, scenario) ==
    LET span == Span(PrimaryPayload(ip, scenario))
    IN IF DirectionAvailable(ip) /\ span > 0 THEN span ELSE Null

Traffic(ip) ==
    LET If(value) == IF DirectionAvailable(ip) THEN value ELSE Null
        header == Max({0, NetworkBytes(ip) - PayloadBytes(ip)})
    IN [network_bytes |-> NetworkBytes(ip),
        payload_bytes |-> PayloadBytes(ip),
        header_overhead_ratio |-> ratio(header, NetworkBytes(ip)),
        directions |-> [way \in {"tx", "rx"} |->
            If(<<NetworkBytes(Going(ip, way)), PayloadBytes(Going(ip, way)), Len(Going(ip, way))>>)]]

ProtocolMix(ip) ==
    LET tcp == NetworkBytes(SelectSeq(ip, LAMBDA p : p.transport = "tcp"))
        quic == NetworkBytes(SelectSeq(ip, LAMBDA p : p.quic))
        other == NetworkBytes(SelectSeq(ip, LAMBDA p : p.transport = "udp" /\ ~p.quic))
        Version(v) == NetworkBytes(SelectSeq(ip, LAMBDA p : p.ip_version = v))
    IN [tcp_byte_share |-> ratio(tcp, tcp + quic + other),
        quic_byte_share |-> ratio(quic, tcp + quic + other),
        other_udp_byte_share |-> ratio(other, tcp + quic + other),
        ipv4_byte_share |-> ratio(Version(4), NetworkBytes(ip)),
        ipv6_byte_share |-> ratio(Version(6), NetworkBytes(ip))]

IpSignals(packets, ip) ==
    [fragment_rate |-> ratio(Count(LAMBDA p : p.ip_fragment, ip), Len(ip)),
     ecn_ce_rate |-> ratio(Count(LAMBDA p : p.ecn_ce, ip), Len(ip)),
     icmp_error_count |-> Count(LAMBDA p : p.icmp_error, packets)]

FlowPayload(ip) ==
    [k \in FlowKeys(ip) |-> PayloadBytes(SelectSeq(ip, LAMBDA p : flow_key(p) = k))]

Flow(ip, size) ==
    LET payload == FlowPayload(ip)
        remotes == {IF p.direction = "tx" THEN p.dst_ip ELSE p.src_ip : p \in ToSet(ip)}
    IN [flow_count |-> Cardinality(DOMAIN payload),
        unique_remote_ip_count |-> IF DirectionAvailable(ip)
                                   THEN Cardinality(remotes \ {Null}) ELSE Null,
        top_flow_payload_share |-> IF DOMAIN payload = {} THEN Null
                                   ELSE ratio(Max(Range(payload)), PayloadBytes(ip)),
        flows_for_80pct_payload |-> flows_for_80_percent(payload, PayloadBytes(ip)),
        connection_churn |-> <<Cardinality(DOMAIN payload), size>>]

\* The bytes of every wall-clock second with a packet.
Windows(ip) ==
    LET Second(p) == p.timestamp \div TicksPerSecond
        Bytes(s) == NetworkBytes(SelectSeq(ip, LAMBDA p : Second(p) = s))
    IN Mapped(Bytes, SetToSeq({Second(p) : p \in ToSet(ip)}))

Transfer(packets, ip, scenario, size) ==
    LET span == PrimarySpan(ip, scenario)
        primary == NetworkBytes(Going(ip, Primary(scenario)))
        reverse == NetworkBytes(Going(ip, ReverseWay(scenario)))
        windows == Windows(ip)
    IN [primary_payload_span |-> span,
        average_throughput |-> ratio(NetworkBytes(ip), Span(packets)),
        peak_1s_throughput |-> IF windows = <<>> THEN Null ELSE Max(ToSet(windows)),
        p95_1s_throughput |-> percentile(windows, 95),
        effective_file_throughput |-> IF span # Null THEN <<size, span>> ELSE Null,
        primary_amplification |-> IF DirectionAvailable(ip) THEN <<primary, size>> ELSE Null,
        total_amplification |-> <<NetworkBytes(ip), size>>,
        reverse_path_cost |-> IF DirectionAvailable(ip) THEN ratio(reverse, primary) ELSE Null]

ComparisonReady(packets, scenario) ==
    /\ packets # <<>>
    /\ Span(packets) > 0
    /\ Truncated(packets) = 0
    /\ DirectionAvailable(IpPackets(packets))
    /\ PrimarySpan(IpPackets(packets), scenario) # Null

\* analysis_warnings of the capture section.
Warnings(packets, scenario, tcp, quic, dns) ==
    LET ip == IpPackets(packets)
        seen == DirectionAvailable(ip) /\ PrimaryPayload(ip, scenario) # <<>>
        Applies == [capture_truncated |-> Truncated(packets) > 0,
                    direction_unavailable |-> ~DirectionAvailable(ip),
                    zero_transfer_span |-> seen /\ Span(PrimaryPayload(ip, scenario)) <= 0,
                    no_primary_payload |-> ~seen,
                    quic_spin_unavailable |-> quic # Null /\ ~quic.spin_available,
                    dns_incomplete |-> dns # Null /\ dns.query_count # dns.response_count]
    IN {w \in DOMAIN Applies : Applies[w]} \cup (IF tcp = Null THEN {} ELSE tcp.warnings)

\* supported: the fields of the installed TShark, size: transfer_file_size_bytes.
aggregate_packets(packets, scenario, size, supported) ==
    LET ip == IpPackets(packets)
        tcp == aggregate_tcp(ip)
        quic == aggregate_quic(ip, supported)
        udp == aggregate_udp(ip)
        dns == aggregate_dns(packets)
    IN [capture |-> [duration |-> Span(packets), packet_count |-> Len(packets),
                     truncated_packet_count |-> Truncated(packets),
                     analysis_warnings |-> Warnings(packets, scenario, tcp, quic, dns)],
        capabilities |-> [direction_metadata_available |-> DirectionAvailable(ip),
                          handshake_observed |-> tcp # Null /\ tcp.successful_handshake_count > 0,
                          comparison_ready |-> ComparisonReady(packets, scenario)],
        traffic |-> Traffic(ip), protocol_mix |-> ProtocolMix(ip),
        ip |-> IpSignals(packets, ip), flow |-> Flow(ip, size),
        transfer |-> Transfer(packets, ip, scenario, size),
        tcp |-> tcp, quic |-> quic, udp |-> udp, dns |-> dns]

(***************************************************************************)
(* The fields of the event models that are declared as a Ratio, in 0..1:   *)
(* a metric outside of it makes the constructor raise ValidationError.     *)
(***************************************************************************)
Fractions(m) ==
    {m.traffic.header_overhead_ratio, m.ip.fragment_rate, m.ip.ecn_ce_rate,
     m.flow.top_flow_payload_share}
    \cup Range(m.protocol_mix)
    \cup (IF m.udp = Null THEN {} ELSE {m.udp.bidirectional_byte_ratio})
    \cup (IF m.tcp = Null THEN {}
          ELSE {m.tcp.handshake_success_rate, m.tcp.retransmission_rate, m.tcp.recovery_tax,
                m.tcp.receiver_stall_ratio, m.tcp.reset_rate})

Valid(m) == \A r \in Fractions(m) \ {Null} : r[1] <= r[2]
=============================================================================
