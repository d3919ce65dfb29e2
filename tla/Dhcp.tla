-------------------------------- MODULE Dhcp --------------------------------
(***************************************************************************)
(* The DHCP client: one DISCOVER, a wait for the first offer that carries  *)
(* its xid, one REQUEST for the offered address, and the end; it neither   *)
(* repeats anything nor waits for the acknowledgement.  Several hosts run  *)
(* it on one network; what is broadcast reaches all of them, late or twice *)
(* or never.  The servers are external.                                    *)
(***************************************************************************)
EXTENDS Integers, Sequences, Functions

CONSTANTS
    Hosts,      \* names of hosts
    Servers,
    Addresses,  \* of four bytes
    Xids        \* what rand() gives: it is never seeded

\* What an option can hold: its length is one byte.
OptionData == {s \in Seq(0 .. 255) : Len(s) <= 255}

ASSUME DhcpAssumption == Hosts \subseteq OptionData /\ Addresses \subseteq OptionData /\ Xids # {}

VARIABLES
    asker,     \* of each host: where main is, the xid it waits for and `ip'
    network     \* every packet that was sent; it may be delivered at any time

dhcpvars == <<asker, network>>

\* Codes of options and of messages.
REQ_SUBNET_MASK == 1
ROUTER == 3
DNS == 6
HOSTNAME == 12
DOMAIN_NAME == 15
REQ_IP == 50
MESSAGE == 53
PARAMETER_REQ_LIST == 55
END == 255
DISCOVER == 1
OFFER == 2
REQUEST == 3
BOOTREQUEST == 1

-----------------------------------------------------------------------------

\* An option takes two bytes more than its data.
fill_dhcp_option(code, data) == <<code, Len(data)>> \o data

fill_dhcp_discovery_options(name) ==
    fill_dhcp_option(MESSAGE, <<DISCOVER>>)
    \o fill_dhcp_option(PARAMETER_REQ_LIST, <<REQ_SUBNET_MASK, ROUTER, DNS, DOMAIN_NAME>>)
    \o fill_dhcp_option(HOSTNAME, name)
    \o fill_dhcp_option(END, <<0>>)

fill_dhcp_request_options(req_ip, name) ==
    fill_dhcp_option(MESSAGE, <<REQUEST>>)
    \o fill_dhcp_option(REQ_IP, req_ip)
    \o fill_dhcp_option(HOSTNAME, name)
    \o fill_dhcp_option(END, <<0>>)

\* dhcp_output: each packet has an xid of its own.
dhcp_output(host, xid, options) ==
    [opcode |-> BOOTREQUEST, chaddr |-> host, xid |-> xid, yiaddr |-> <<>>, options |-> options]

-----------------------------------------------------------------------------

Unused == Xids \ {p.xid : p \in network}

DhcpInit ==
    /\ asker = [h \in Hosts |-> [pc |-> "discover", xid |-> 0, ip |-> <<>>, code |-> 0]]
    /\ network = {}

\* sendto fails: dhcp_discovery and dhcp_request give errno, and main exits.
SendFails(h) ==
    /\ asker[h].pc = "discover"
    /\ asker' = [asker EXCEPT ![h] = [@ EXCEPT !.pc = "exit", !.code = 1]]
    /\ UNCHANGED network

\* dhcp_discovery.  The model lets no xid be drawn twice.
Discover(h) ==
    /\ asker[h].pc = "discover"
    /\ \E x \in Unused :
        /\ network' = network \cup {dhcp_output(h, x, fill_dhcp_discovery_options(h))}
        /\ asker' = [asker EXCEPT ![h] = [@ EXCEPT !.pc = "wait", !.xid = x]]

\* The loop of main: any packet for the client port can come; the first reply
\* with the xid ends the wait.  The opcode is compared with the code of an
\* OFFER message, which is that of every reply.
Answers_Anyone(packet, h) == packet.opcode = OFFER
Answers(packet, h) == packet.opcode = OFFER /\ packet.xid = asker[h].xid

Receive(h) ==
    /\ asker[h].pc = "wait"
    /\ \E packet \in network :
        /\ Answers(packet, h)
        /\ \E x \in Unused, sent \in BOOLEAN :
            /\ asker' = [asker EXCEPT ![h] = [pc |-> "exit", xid |-> x, ip |-> packet.yiaddr,
                                                code |-> IF sent THEN 0 ELSE 1]]
            /\ network' = IF ~sent THEN network
                          ELSE network \cup {dhcp_output(h, x, fill_dhcp_request_options(packet.yiaddr, h))}

\* recvfrom fails.
ReceiveFails(h) ==
    /\ asker[h].pc = "wait"
    /\ asker' = [asker EXCEPT ![h] = [@ EXCEPT !.pc = "exit", !.code = 251]]
    /\ UNCHANGED network

-----------------------------------------------------------------------------
\* The servers: they read the options of a packet from its first one on, and
\* offer the asking host an address of their own.

\* The options of a packet as <<code, data>>, up to the end; each has two bytes
\* and its data.
ParsedOptions(options) ==
    LET parse[i \in Nat] ==
            IF i >= Len(options) \/ options[i] = END THEN <<>>
            ELSE <<<<options[i], SubSeq(options, i + 2, i + 1 + options[i + 1])>>>> \o parse[i + 2 + options[i + 1]]
    IN  parse[1]

Offer(s) ==
    /\ \E packet \in network, a \in Addresses :
        /\ packet.opcode = BOOTREQUEST
        /\ <<MESSAGE, <<DISCOVER>>>> \in Range(ParsedOptions(packet.options))
        /\ \A p \in network : p.yiaddr = a => p.chaddr = packet.chaddr
        /\ network' = network \cup {[opcode |-> OFFER, chaddr |-> packet.chaddr, xid |-> packet.xid,
                                     yiaddr |-> a, options |-> <<s>>]}
    /\ UNCHANGED asker

DhcpNext ==
    \/ \E h \in Hosts : Discover(h) \/ SendFails(h) \/ Receive(h) \/ ReceiveFails(h)
    \/ \E s \in Servers : Offer(s)

DhcpSpec == DhcpInit /\ [][DhcpNext]_dhcpvars

-----------------------------------------------------------------------------

\* The address a host ends with was offered to that host, whatever the other
\* hosts on the wire do and however late packets come, as long as no xid is
\* drawn twice.
AddressIsMine ==
    \A h \in Hosts : asker[h].pc = "exit" /\ asker[h].ip # <<>> =>
        \E p \in network : p.opcode = OFFER /\ p.chaddr = h /\ p.yiaddr = asker[h].ip

\* Every packet says what it was meant to say: read as a server reads it, it
\* holds the kind of message and the name of its host, and a request the
\* address.
OptionsAreRead ==
    \A p \in network : p.opcode = BOOTREQUEST =>
        LET read == Range(ParsedOptions(p.options))
        IN  /\ <<HOSTNAME, p.chaddr>> \in read
            /\ <<MESSAGE, <<DISCOVER>>>> \in read \/ (\E a \in Addresses : <<REQ_IP, a>> \in read)

=============================================================================
