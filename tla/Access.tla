------------------------------- MODULE Access -------------------------------
(***************************************************************************)
(* The guards in front of the controllers: an API key with its expiry, its *)
(* address allowlist, its rate limit and its scopes (JwtAuthGuard), the    *)
(* allowlists of the admin routes and the metrics, and the role guards.    *)
(* Addresses keep their arithmetic on smaller widths.  A text of an IPv6   *)
(* address is the groups before and after `::`; one of an IPv4 address is  *)
(* its octets, as numbers and with what is wrong about them.               *)
(***************************************************************************)
EXTENDS Integers, Sequences, FiniteSets

CONSTANTS
    ByteBits,            \* bits of an octet and of a byte (8); a group has two bytes
    OctetCount,          \* octets of an IPv4 address (4)
    OctetNum,            \* what parseInt may make of an octet's text
    GroupCount,          \* groups of an IPv6 address (8)
    GroupValue,          \* values that a group may be written with
    ApiKeyScope          \* API_KEY_SCOPES

\* The powers of two, as shifts and masks use them.
Pow2[n \in Nat] == IF n = 0 THEN 1 ELSE 2 * Pow2[n - 1]

ASSUME AccessAssumption ==
    /\ OctetCount \in Nat \ {0} /\ ByteBits \in Nat \ {0} /\ GroupCount \in Nat \ {0}
    /\ {0, 1} \subseteq OctetNum /\ OctetNum \subseteq Nat
    /\ GroupValue \subseteq 0 .. Pow2[2 * ByteBits] - 1

VARIABLES
    request,     \* a request that carries an API key, and the key's row
    verdict,     \* how it ended
    bypassLogged \* an entry API_KEY_IP_ALLOWLIST_BYPASSED was written

accessVars == <<request, verdict, bypassLogged>>

-----------------------------------------------------------------------------
(***************************************************************************)
(* Addresses and CIDR entries.                                             *)
(***************************************************************************)
\* The width of an IPv4 address (32) and of a shift.
Bits4 == OctetCount * ByteBits

GroupSeqs(n) == UNION {[1 .. k -> GroupValue] : k \in 0 .. n}

\* An octet is plain when its text is nothing but digits, at most three; a number
\* that is too large stands for a text without a number as well.
Octet == [num : OctetNum, plain : BOOLEAN]
WellFormed(octet) == octet.plain /\ octet.num < Pow2[ByteBits]

V4Text == [v : {4}, octets : UNION {[1 .. k -> Octet] : k \in {OctetCount - 1, OctetCount}}]
Malformed(t) == \E i \in DOMAIN t.octets : ~WellFormed(t.octets[i])

V6Text == [v : {6}, head : GroupSeqs(GroupCount), gap : {FALSE}, tail : {<<>>}]
          \cup {t \in [v : {6}, head : GroupSeqs(GroupCount), gap : {TRUE}, tail : GroupSeqs(GroupCount)] :
                   Len(t.head) + Len(t.tail) <= GroupCount}

\* An entry with the number parseInt makes of its prefix length, and whether
\* nothing follows that number.
NoPrefix == -1
Entry(texts, bits) == [addr : texts, bits : {NoPrefix}, exact : {TRUE}]
                      \cup [addr : texts, bits : 0 .. bits + 1, exact : BOOLEAN]

Explicit(t) == t.head \o t.tail

\* ipv6ToBytes returns null unless the groups add up.
Parses(t) == IF t.gap THEN Len(Explicit(t)) < GroupCount ELSE Len(Explicit(t)) = GroupCount

Ipv6ToGroups(t) ==
    IF t.gap THEN t.head \o [i \in 1 .. GroupCount - Len(Explicit(t)) |-> 0] \o t.tail ELSE t.head

Ipv6ToBytes(t) ==
    [i \in 1 .. 2 * GroupCount |->
        LET group == Ipv6ToGroups(t)[(i + 1) \div 2] IN
        IF i % 2 = 1 THEN group \div Pow2[ByteBits] ELSE group % Pow2[ByteBits]]

\* x & mask, for a mask that clears the low bits.
High(x, low) == x \div Pow2[low]

\* Mutation: only whole bytes are compared.
Ipv6InCidr_WholeBytes(ip, range, bits) ==
    /\ bits \in 0 .. 2 * ByteBits * GroupCount
    /\ ip.v = 6 /\ range.v = 6 /\ Parses(ip) /\ Parses(range)
    /\ \A i \in 1 .. bits \div ByteBits : Ipv6ToBytes(ip)[i] = Ipv6ToBytes(range)[i]

\* A text of the other family does not parse as eight groups.
Ipv6InCidr(ip, range, bits) ==
    LET fullBytes == bits \div ByteBits
        remaining == bits % ByteBits IN
    /\ bits \in 0 .. 2 * ByteBits * GroupCount
    /\ ip.v = 6 /\ range.v = 6 /\ Parses(ip) /\ Parses(range)
    /\ \A i \in 1 .. fullBytes : Ipv6ToBytes(ip)[i] = Ipv6ToBytes(range)[i]
    /\ remaining # 0 =>
          High(Ipv6ToBytes(ip)[fullBytes + 1], ByteBits - remaining)
             = High(Ipv6ToBytes(range)[fullBytes + 1], ByteBits - remaining)

\* The number that octets, or bytes, spell.
BytesValue(bytes) ==
    LET upTo[i \in 0 .. Len(bytes)] ==
            IF i = 0 THEN 0 ELSE upTo[i - 1] * Pow2[ByteBits] + bytes[i]
    IN  upTo[Len(bytes)]

\* toInt of ipInCidr: an octet that is not well formed makes the sum NaN, and the
\* next shift makes that 0, so that only the octets behind the last such one count.
ToInt(t) ==
    BytesValue([i \in 1 .. OctetCount |->
                   IF \A j \in i .. OctetCount : WellFormed(t.octets[j]) THEN t.octets[i].num ELSE 0])

\* ipToBigInt of MetricsGuard takes any text that begins with a number in range.
InRange(t) == Len(t.octets) = OctetCount /\ \A i \in 1 .. OctetCount : t.octets[i].num < Pow2[ByteBits]
IpToBigInt(t) == BytesValue([i \in 1 .. OctetCount |-> t.octets[i].num])

\* The shift of JavaScript takes its count modulo the width: /0 shifts by nothing.
Shift(bits) == (Bits4 - bits) % Bits4

\* A bare entry is compared as text.
IpInCidr(ip, entry) ==
    IF entry.bits = NoPrefix THEN ip = entry.addr
    ELSE IF ip.v = 6 \/ entry.addr.v = 6 THEN Ipv6InCidr(ip, entry.addr, entry.bits)
    ELSE /\ entry.bits \in 0 .. Bits4
         /\ Len(ip.octets) = OctetCount /\ Len(entry.addr.octets) = OctetCount
         /\ High(ToInt(ip), Shift(entry.bits)) = High(ToInt(entry.addr), Shift(entry.bits))

\* isIP of node.
IsIp(t) == IF t.v = 6 THEN Parses(t) ELSE Len(t.octets) = OctetCount /\ ~Malformed(t)

\* An address, and a prefix of digits that the family has.
IsValidIpOrCidr(entry) ==
    /\ IsIp(entry.addr) /\ entry.exact
    /\ entry.bits <= (IF entry.addr.v = 4 THEN Bits4 ELSE 2 * ByteBits * GroupCount)

-----------------------------------------------------------------------------
(***************************************************************************)
(* The guards.  A request r carries an API key (authType "apiKey"), a      *)
(* session token or nothing; allowlist, expired, withinRate and scopes are *)
(* those of the key's row, the other entries are configured.               *)
(***************************************************************************)
BypassRoles == {"admin", "superadmin"}

Admits(entries, ip) == \E entry \in entries : IpInCidr(ip, entry)

\* enforceApiKeyIpAllowlist; the roles that bypass it are logged.
Bypasses(r) ==
    /\ r.authType = "apiKey" /\ ~r.expired
    /\ r.allowlist # {} /\ ~Admits(r.allowlist, r.ip) /\ r.role \in BypassRoles

\* enforceApiKeyScopes.
MissingScopes(r) == r.required \ r.scopes

\* JwtAuthGuard: expiry, allowlist, rate limit and scopes of a key, in this
\* order; a session token is left to passport.
JwtAuth(r) ==
    IF r.authType = "none" THEN "Unauthorized"
    ELSE IF r.authType = "jwt" THEN "ok"
    ELSE IF r.expired THEN "API_KEY_EXPIRED"
    ELSE IF r.allowlist # {} /\ ~Admits(r.allowlist, r.ip) /\ ~Bypasses(r) THEN "IP_NOT_ALLOWED"
    ELSE IF ~r.withinRate THEN "429"
    ELSE IF MissingScopes(r) # {} THEN "Insufficient API key scopes"
    ELSE "ok"

\* IpAllowlistGuard: no entry admits nobody, and roles do not matter here.
IpAllowlist(r) ==
    IF r.devBypass \/ Admits(r.adminIps, r.ip) THEN "ok" ELSE "IP not in allowlist"

\* A key's session has no admin2fa.
AdminTwoFactor(r) ==
    IF r.role \in BypassRoles /\ r.authType = "jwt" /\ r.admin2fa THEN "ok"
    ELSE "two-factor session required"

\* RolesGuard, with the roles that the controller names.
RolesAllowed(r) == IF r.role \in r.roles THEN "ok" ELSE "Insufficient permissions"

\* MetricsGuard: the address is what the client's X-Forwarded-For says, if it has
\* one; a bare entry is compared as text, an IPv4 network as a range.
NoHeader == [v |-> 0]
ExtractClientIp(r) == IF r.forwarded # NoHeader THEN r.forwarded ELSE r.ip

InNetwork(ip, entry) ==
    LET size == Pow2[Bits4 - entry.bits]
        start == (IpToBigInt(entry.addr) \div size) * size IN
    /\ ip.v = 4 /\ entry.addr.v = 4 /\ entry.bits \in 0 .. Bits4
    /\ InRange(ip) /\ InRange(entry.addr)
    /\ IpToBigInt(ip) \in start .. start + size - 1

MetricsAllowed(r) ==
    LET ip == ExtractClientIp(r) IN
    IF \E entry \in r.adminIps :
          IF entry.bits = NoPrefix THEN ip = entry.addr ELSE InNetwork(ip, entry)
    THEN "ok" ELSE "denied"

\* The guards of a controller, as they are listed: the API's; the administration,
\* settlements, encryption and alerts; the mail templates; queues, configuration,
\* circuits and the refresh; AML, mail, merchants, disputes and sign-ups.
Guards(r) ==
    CASE r.route = "api" -> <<JwtAuth(r)>>
      [] r.route = "admin" -> <<IpAllowlist(r), JwtAuth(r), AdminTwoFactor(r), RolesAllowed(r)>>
      [] r.route = "templates" -> <<IpAllowlist(r), JwtAuth(r), RolesAllowed(r)>>
      [] r.route = "queues" -> <<JwtAuth(r), AdminTwoFactor(r), RolesAllowed(r)>>
      [] r.route = "aml" -> <<JwtAuth(r), RolesAllowed(r)>>
      [] r.route = "metrics" -> <<MetricsAllowed(r)>>

\* The routes with each kind of guard.
ConfiguredRoutes == {"admin", "templates"}
TwoFactorRoutes == {"admin", "queues"}
AdminRoutes == {"admin", "templates", "queues", "aml"}

\* The first guard that refuses decides.
CanActivate ==
    LET answers == Guards(request)
        refusals == {i \in DOMAIN answers : answers[i] # "ok"}
        first == CHOOSE i \in refusals : \A j \in refusals : i <= j IN
    /\ verdict = "none"
    /\ verdict' = IF refusals = {} THEN "admitted" ELSE answers[first]
    /\ bypassLogged' = /\ request.route # "metrics" /\ Bypasses(request)
                       /\ request.route \in ConfiguredRoutes => IpAllowlist(request) = "ok"
    /\ UNCHANGED request

\* getClientIp: the address of the socket, which is well formed.
ClientIps == {t \in V4Text \cup V6Text : IsIp(t)}
Entries == Entry(V4Text, Bits4) \cup Entry(V6Text, 2 * ByteBits * GroupCount)

\* setApiKeyIpAllowlist stores valid entries only; nobody checks the configured ones.
Storable == {entry \in Entries : IsValidIpOrCidr(entry)}
ListsOf(entries) == {{}} \cup {{entry} : entry \in entries}

\* An address whose octets are all the same.
Host(num) == [v |-> 4, octets |-> [i \in 1 .. OctetCount |-> [num |-> num, plain |-> TRUE]]]

\* Every address, and for the metrics every header, against every entry.
Addressed ==
    LET of(route, ips, headers, keyLists, others) ==
            [route : {route}, ip : ips, forwarded : headers, allowlist : keyLists,
             adminIps : others, authType : {"apiKey"}, role : {"admin"}, devBypass : {FALSE},
             admin2fa : {FALSE}, expired : {FALSE}, withinRate : {TRUE}, scopes : {{}},
             required : {{}}, roles : {{"admin"}}]
    IN  \/ request \in of("api", ClientIps, {NoHeader}, ListsOf(Storable), {{}})
        \/ request \in of("templates", ClientIps, {NoHeader}, {{}}, ListsOf(Entries))
        \/ request \in of("metrics", {Host(0)}, {NoHeader} \cup V4Text \cup V6Text, {{}},
                          ListsOf(Entries))

\* Every state of a key and of a session, from an address on the lists and from
\* another one.
Credentialed ==
    LET lists == ListsOf({[addr |-> Host(0), bits |-> Bits4, exact |-> TRUE]}) IN
    request \in [route : AdminRoutes \cup {"api"}, ip : {Host(0), Host(1)}, forwarded : {NoHeader},
                 allowlist : lists, adminIps : lists, authType : {"apiKey", "jwt", "none"},
                 role : {"merchant"} \cup BypassRoles, devBypass : BOOLEAN, admin2fa : BOOLEAN,
                 expired : BOOLEAN, withinRate : BOOLEAN,
                 scopes : {{}, ApiKeyScope}, required : {{}, ApiKeyScope},
                 roles : {{"admin"}, {"superadmin"}, BypassRoles}]

AccessInit ==
    /\ verdict = "none" /\ bypassLogged = FALSE
    /\ Addressed \/ Credentialed

AccessNext == CanActivate

AccessSpec == AccessInit /\ [][AccessNext]_accessVars

-----------------------------------------------------------------------------
\* An address as a number, and the prefix of an entry as the leading bits of it.
Value(t) == IF t.v = 4 THEN IpToBigInt(t) ELSE BytesValue(Ipv6ToBytes(t))

Covers(entry, ip) ==
    LET width == IF ip.v = 4 THEN Bits4 ELSE 2 * ByteBits * GroupCount
        low == width - (IF entry.bits = NoPrefix THEN width ELSE entry.bits) IN
    /\ IsValidIpOrCidr(entry) /\ entry.addr.v = ip.v
    /\ Value(ip) \div Pow2[low] = Value(entry.addr) \div Pow2[low]

Covered(entries, ip) == \E e \in entries : Covers(e, ip)

\* The entries that admit fewer addresses than they denote: a bare IPv6 address
\* in another spelling than the request's, and an IPv4 /0.
Narrow(entry, ip) ==
    \/ entry.bits = NoPrefix /\ entry.addr.v = 6 /\ entry.addr # ip
    \/ entry.bits = 0 /\ entry.addr.v = 4

AnyNarrow(entries, ip) == \E e \in entries : Narrow(e, ip)

\* The texts of which toInt and parseInt make something else: an IPv4 address with
\* an octet, and a prefix length, that is not what it should be.
Coerced(entry) == ~entry.exact \/ (entry.addr.v = 4 /\ Malformed(entry.addr))

\* An API key with an allowlist is good from exactly the addresses that share the
\* prefix of an entry, in whatever spelling, but for the two kinds of entries that
\* admit less; administrators use theirs from elsewhere and are logged.  The
\* configured lists admit no more than that unless an entry is coerced: one that is
\* out of range or too short admits nobody.  The metrics know no IPv6 network and
\* hold this of the address that the client's header claims.  A route behind
\* AdminTwoFactorGuard takes a two-factor session and never a key, the other admin
\* routes an administrator's key too (ipInCidr, ipv6ToBytes,
\* enforceApiKeyIpAllowlist, IpAllowlistGuard, MetricsGuard, AdminTwoFactorGuard).
AllowlistIsExact ==
    verdict # "none" =>
        LET r == request
            claimed == IF r.route = "metrics" THEN ExtractClientIp(r) ELSE r.ip IN
        /\ verdict = "admitted" =>
              /\ r.route # "metrics" /\ r.authType = "apiKey" /\ r.allowlist # {} =>
                    Covered(r.allowlist, r.ip) \/ bypassLogged
              /\ r.route = "metrics" \/ (r.route \in ConfiguredRoutes /\ ~r.devBypass) =>
                    \/ ~IsIp(claimed) \/ \E e \in r.adminIps : Coerced(e)
                    \/ Covered(r.adminIps, claimed)
              /\ r.route \in AdminRoutes => r.role \in r.roles \cap BypassRoles
              /\ r.route \in TwoFactorRoutes => r.authType = "jwt" /\ r.admin2fa
        /\ verdict = "IP_NOT_ALLOWED" \/ bypassLogged =>
              ~Covered(r.allowlist, r.ip) \/ AnyNarrow(r.allowlist, r.ip)
        /\ verdict \in {"IP not in allowlist", "denied"} =>
              \/ ~IsIp(claimed) \/ (r.route = "metrics" /\ claimed.v = 6)
              \/ ~Covered(r.adminIps, claimed) \/ AnyNarrow(r.adminIps, claimed)
=============================================================================
