------------------------- MODULE MCCaptureAnalysis -------------------------
(***************************************************************************)
(* CaptureAnalysis on small captures.  The rows are grouped by what they   *)
(* exercise, so that every sequence of MaxRows rows of a group is          *)
(* analyzed, whatever the order of their times.                            *)
(***************************************************************************)
EXTENDS CaptureAnalysis

Frame(t) == "frame.time_epoch" :> <<t>> @@ "frame.len" :> <<9>> @@ "frame.cap_len" :> <<9>>
Sent == "frame.packet_flags_direction" :> <<2>>
Received == "frame.packet_flags_direction" :> <<1>>

\* From the phone (address 2) to a server (address 1 or 3), and back.
Up(bytes, server) == Sent @@ "ip.len" :> <<bytes>> @@ "ip.src" :> <<2>> @@ "ip.dst" :> <<server>>
Down(bytes, server) == Received @@ "ip.len" :> <<bytes>> @@ "ip.src" :> <<server>> @@ "ip.dst" :> <<2>>
Tcp(src, dst, len) == "tcp.srcport" :> <<src>> @@ "tcp.dstport" :> <<dst>> @@ "tcp.len" :> <<len>>
Udp(src, dst, len) == "udp.srcport" :> <<src>> @@ "udp.dstport" :> <<dst>> @@ "udp.length" :> <<len>>
On(field) == field :> <<1>>
Stream(n) == "tcp.stream" :> <<n>>
Window(n) == "tcp.window_size_value" :> <<n>>
Zero == On("tcp.analysis.zero_window") @@ Window(0)

\* Both directions of a connection close and open their windows.
StallRows == {
    Frame(0) @@ Up(5, 1) @@ Tcp(7, 8, 0) @@ Stream(0) @@ Zero,
    Frame(3) @@ Up(5, 1) @@ Tcp(7, 8, 0) @@ Stream(0) @@ Window(4),
    Frame(1) @@ Down(5, 1) @@ Tcp(8, 7, 0) @@ Stream(0) @@ Zero,
    Frame(2) @@ Down(5, 1) @@ Tcp(8, 7, 0) @@ Stream(0) @@ Window(4),
    Frame(5) @@ Down(5, 1) @@ Tcp(8, 7, 2) @@ Stream(0),
    Frame(4) @@ Up(5, 1) @@ Tcp(7, 8, 2) @@ Stream(0) @@ Zero}

\* Handshakes, round trips, resets and retransmissions of two connections.
TcpRows == {
    Frame(0) @@ Up(4, 1) @@ Tcp(7, 8, 0) @@ Stream(0) @@ On("tcp.flags.syn"),
    Frame(1) @@ Down(4, 1) @@ Tcp(8, 7, 0) @@ Stream(0) @@ On("tcp.flags.syn") @@ On("tcp.flags.ack"),
    Frame(2) @@ Up(4, 1) @@ Tcp(7, 8, 3) @@ Stream(0) @@ On("tcp.flags.ack")
        @@ "tcp.analysis.initial_rtt" :> <<2>> @@ "tcp.analysis.ack_rtt" :> <<1>>,
    Frame(3) @@ Up(4, 1) @@ Tcp(7, 8, 0) @@ On("tcp.flags.syn") @@ On("tcp.analysis.retransmission"),
    Frame(4) @@ Down(6, 1) @@ Tcp(8, 7, 5) @@ Stream(0) @@ On("tcp.flags.ack")
        @@ On("tcp.analysis.retransmission") @@ "tcp.analysis.ack_rtt" :> <<3>>,
    Frame(5) @@ Down(4, 1) @@ Tcp(8, 7, 0) @@ On("tcp.flags.reset") @@ "tcp.analysis.ack_rtt" :> <<2>>}

\* UDP flows of different sizes, and DNS.
UdpRows == {
    Frame(0) @@ Up(6, 1) @@ Udp(5, 6, 12),
    Frame(2) @@ Down(9, 1) @@ Udp(6, 5, 9),
    Frame(1) @@ Up(9, 3) @@ Udp(5, 6, 9) @@ "dns.flags.response" :> <<0>>,
    Frame(3) @@ Down(9, 3) @@ Udp(6, 5, 13) @@ "dns.flags.response" :> <<1>>
        @@ "dns.flags.rcode" :> <<2>> @@ "dns.time" :> <<2>>,
    Frame(4) @@ Down(7, 1) @@ Udp(6, 6, 10) @@ "dns.flags.response" :> <<1>> @@ "dns.time" :> <<1>>}

\* Frames that are whole, truncated, not IP, and no packet at all.
FrameRows == {
    Frame(0) @@ Up(6, 1) @@ Udp(5, 6, 12),
    Frame(2) @@ Up(6, 1) @@ Udp(5, 6, 12),
    "frame.cap_len" :> <<4>> @@ Frame(4) @@ Up(7, 1) @@ Udp(6, 6, 10),
    Frame(3) @@ "frame.protocols" :> <<"arp">>,
    Frame(Junk) @@ Up(7, 1)}

\* QUIC over IPv6 with spin bits, and a frame without direction.
Quic(bit) == "quic.spin_bit" :> <<bit>>
Up6 == Sent @@ "ipv6.plen" :> <<8>> @@ "ipv6.src" :> <<2>> @@ "ipv6.dst" :> <<1>>
Down6 == Received @@ "ipv6.plen" :> <<8>> @@ "ipv6.src" :> <<1>> @@ "ipv6.dst" :> <<2>>
Initial == "quic.long.packet_type" :> <<0>> @@ "quic.version" :> <<1>>
QuicRows == {
    Frame(0) @@ Up6 @@ Udp(5, 6, 12) @@ Initial,
    Frame(2) @@ Down6 @@ Udp(6, 5, 12) @@ Initial @@ "ipv6.tclass" :> <<7>>,
    Frame(3) @@ Up6 @@ Udp(5, 6, 12) @@ Quic(0),
    Frame(4) @@ Up6 @@ Udp(5, 6, 10) @@ Quic(1),
    Frame(1) @@ "ipv6.plen" :> <<8>> @@ "ipv6.src" :> <<1>> @@ "ipv6.dst" :> <<2>>
        @@ Udp(6, 5, 10) @@ "frame.protocols" :> <<"quic">>}

Job(rows, scenario) ==
    [magic |-> "pcap", declared |-> "pcap", intact |-> TRUE, size |-> 4, scenario |-> scenario,
     supported |-> FIELD_NAMES, max_parsed_records |-> 4, rows |-> rows]

MCJobs ==
    {Job(StallRows, "upload"), Job(TcpRows, "upload"), Job(UdpRows, "download"),
     Job(FrameRows, "upload"), Job(QuicRows, "upload"),
     \* a TShark without the QUIC fields, and one without a required field
     [Job(QuicRows, "download") EXCEPT
         !.supported = @ \ {"quic.version", "quic.long.packet_type", "quic.spin_bit"},
         !.max_parsed_records = 2],
     [Job(UdpRows, "upload") EXCEPT !.supported = @ \ {"udp.length"}],
     [Job(UdpRows, "upload") EXCEPT !.declared = "pcapng"],
     [Job(UdpRows, "upload") EXCEPT !.intact = FALSE],
     [Job(UdpRows, "upload") EXCEPT !.magic = "other", !.declared = Null],
     [Job(UdpRows, "upload") EXCEPT !.size = 0, !.declared = Null]}
=============================================================================
