---------------------------- MODULE AddressPolicy ----------------------------
(***************************************************************************)
(* From the address a session is started for to the three that enforce it:  *)
(* the gate (IPAllowed), MySQL's host pattern (CIDRToHost) and the ufw rule *)
(* (ufwHost).  Addresses are numbers of Bits6 bits, as net.IP keeps them;   *)
(* an IPv4 address is one of Bits4 bits behind a prefix of zeros and a one  *)
(* (::ffff:a.b.c.d).                                                        *)
(***************************************************************************)
EXTENDS Integers

CONSTANTS Bits4, Prefix
ASSUME AddressAssumption == Bits4 \in Nat \ {0} /\ Prefix \in Nat /\ Prefix > Bits4

VARIABLES text,       \* what the form or the command line says
          stored,     \* Session.AllowedCIDR
          host, rule, \* of the MySQL account and of ufw
          client,     \* the address of a request at the gate
          verdict,    \* IPAllowed's answer to it
          stage
addressVars == <<text, stored, host, rule, client, verdict, stage>>

Bits6  == Bits4 + Prefix

(* How many addresses there are with `free` bits to tell them apart.        *)
Size[free \in 0..Bits6] == IF free = 0 THEN 1 ELSE 2 * Size[free - 1]

IPs    == 0..Size[Bits6] - 1
Is4(ip) == ip \div Size[Bits4] = 1
Masked(ip, free) == ip - (ip % Size[free])

(* A bare address, one with a prefix length, or something else; an IPv4     *)
(* address may be written as IPv6.                                          *)
Texts == {t \in [form : {"bare", "block", "other"}, written : {"v4", "v6"},
                 ip : IPs, ones : 0..Bits6] :
            /\ t.written = "v4" => Is4(t.ip) /\ t.ones <= Bits4
            /\ t.form # "block" => t.ones = 0}
Mapped(t) == t.written = "v6" /\ Is4(t.ip)

AddressInit ==
  /\ text \in Texts /\ stored = text
  /\ host = [kind |-> "none"] /\ rule = [kind |-> "none"]
  /\ client = 0 /\ verdict = FALSE /\ stage = "typed"

(* ParseCIDR keeps the network's number and how many bits are free.         *)
Free(t)    == (IF t.written = "v4" THEN Bits4 ELSE Bits6) - t.ones
Network(t) == Masked(t.ip, Free(t))

(* Slip: every bare address gets a "/32". *)
normalizeCIDRShort(t) ==
  IF t.form = "bare" THEN [t EXCEPT !.form = "block", !.ones = Bits4] ELSE t

normalizeCIDR(t) ==
  IF t.form = "bare"
  THEN [t EXCEPT !.form = "block", !.ones = IF Is4(t.ip) THEN Bits4 ELSE Bits6]
  ELSE t

(* The stored text is no longer bare.  Contains takes a request's address   *)
(* and a network for IPv4 when their number is, whatever was written.       *)
IPAllowed(t, ip) ==
  /\ t.form = "block"
  /\ Is4(Network(t)) = Is4(ip)
  /\ Masked(ip, Free(t)) = Network(t)

(* Slip: the address instead of the network. *)
CIDRToHostUnmasked(t) ==
  IF Free(t) = 0 THEN [kind |-> "one", ip |-> t.ip]
  ELSE CASE ~Is4(t.ip)       -> [kind |-> "any"]
         [] t.written = "v4" -> [kind |-> "net", ip |-> t.ip, free |-> Free(t)]
         [] OTHER            -> [kind |-> "name"]

(* "ip", "%" or "network/mask".  The mask of an IPv4 block written as IPv6  *)
(* is written as IPv6 too, and MySQL takes the whole for a name.            *)
CIDRToHost(t) ==
  IF Free(t) = 0 THEN [kind |-> "one", ip |-> t.ip]
  ELSE CASE ~Is4(t.ip)       -> [kind |-> "any"]
         [] t.written = "v4" -> [kind |-> "net", ip |-> Network(t), free |-> Free(t)]
         [] OTHER            -> [kind |-> "name"]

HostMatches(h, ip) ==
  CASE h.kind = "one" -> ip = h.ip
    [] h.kind = "any" -> TRUE
    [] h.kind = "net" -> Is4(ip) /\ Masked(ip, h.free) = h.ip
    [] OTHER          -> FALSE

ufwHost(t) ==
  IF Free(t) = 0 THEN [kind |-> "one", ip |-> t.ip]
                 ELSE [kind |-> t.written, ip |-> t.ip, free |-> Free(t)]

(* ufw masks what it is given; a rule written as IPv6 sees no IPv4 packet.  *)
RuleMatches(r, ip) ==
  IF r.kind = "one" THEN ip = r.ip
  ELSE Is4(ip) = (r.kind = "v4") /\ Masked(ip, r.free) = Masked(r.ip, r.free)

Start ==
  /\ stage = "typed"
  /\ stored' = normalizeCIDR(text) /\ stage' = "stored"
  /\ UNCHANGED <<text, host, rule, client, verdict>>

Provision ==
  /\ stage = "stored" /\ stored.form = "block"
  /\ host' = CIDRToHost(stored) /\ rule' = ufwHost(stored)
  /\ stage' = "open"
  /\ UNCHANGED <<text, stored, client, verdict>>

Refuse ==
  /\ stage = "stored" /\ stored.form = "other"
  /\ stage' = "refused"
  /\ UNCHANGED <<text, stored, host, rule, client, verdict>>

Knock(ip) ==
  /\ stage = "open"
  /\ client' = ip /\ verdict' = IPAllowed(stored, ip) /\ stage' = "asked"
  /\ UNCHANGED <<text, stored, host, rule>>

AddressNext == Start \/ Provision \/ Refuse \/ \E ip \in IPs : Knock(ip)

AddressSpec == AddressInit /\ [][AddressNext]_addressVars

-----------------------------------------------------------------------------
(* "defense in depth": who reaches MySQL as the session's account through   *)
(* the session's rule would pass at the gate, and the other way round when  *)
(* an IPv4 address was written as one.                                      *)
SameAddressesThroughout ==
  stage = "asked" =>
    LET reaches == HostMatches(host, client) /\ RuleMatches(rule, client)
    IN  /\ reaches => verdict
        /\ ~Mapped(text) /\ verdict => reaches

(* "upgrades a bare IP to a /32 (or /128)": a session for one address       *)
(* admits that one and no other.                                            *)
BareMeansOne ==
  stage = "asked" /\ text.form = "bare" /\ ~Mapped(text) =>
    (verdict <=> client = text.ip)
=============================================================================
