------------------------------ MODULE Serving ------------------------------
(* What the server decides from values alone: which settings file it takes  *)
(* (localspace-cli settings.rs), the checks before it opens a socket        *)
(* (lib.rs), and whose address a request carries behind trusted proxies     *)
(* (net.rs).                                                                *)
(*                                                                          *)
(* An address is a record of its family and a number of AddressBits bits    *)
(* (the code's 32 and 128; the arithmetic is the same at every width).      *)
(* Text that names no address is left out: parse_hop drops it before any    *)
(* hop is looked at. The X-Forwarded-For header is its lines, each the hops  *)
(* it lists and whether it is visible ASCII throughout.                      *)
EXTENDS Naturals, Sequences, SequencesExt, FiniteSets

AddressBits == 2
Families == {4, 6}
Addresses == [family : Families, number : 0..(2 ^ AddressBits - 1)]

\* mask: the address with everything after its first `prefix` bits cleared.
Mask(ip, prefix) ==
    LET unit == 2 ^ (AddressBits - prefix)
    IN  [ip EXCEPT !.number = (ip.number \div unit) * unit]

\* Cidr::from_str: the network part is kept masked.
Cidr(ip, prefix) == [network |-> Mask(ip, prefix), prefix |-> prefix]

\* Cidr::contains
CidrContains(range, ip) ==
    /\ ip.family = range.network.family
    /\ Mask(ip, range.prefix) = range.network

IsTrusted(ip, trusted) == \E range \in trusted : CidrContains(range, ip)

\* auth.rs: the first line, which is as good as absent if it is not readable.
Hops(lines) == IF lines # <<>> /\ Head(lines).readable THEN Head(lines).hops ELSE <<>>

\* A plausible slip: the header read from the left.
ClientIpFromLeft(peer, lines, trusted) ==
    LET hops == Hops(lines)
        strangers == {i \in DOMAIN hops : ~IsTrusted(hops[i], trusted)}
    IN  IF ~IsTrusted(peer, trusted) \/ hops = <<>> THEN peer
        ELSE IF strangers = {} THEN Head(hops)
        ELSE hops[CHOOSE i \in strangers : \A j \in strangers : i <= j]

\* client_ip: without a hop the connection's address stands.
ClientIp(peer, lines, trusted) ==
    LET hops == Hops(lines)
        strangers == {i \in DOMAIN hops : ~IsTrusted(hops[i], trusted)}
    IN  IF ~IsTrusted(peer, trusted) \/ hops = <<>> THEN peer
        ELSE IF strangers = {} THEN Head(hops)
        ELSE hops[CHOOSE i \in strangers : \A j \in strangers : j <= i]

\* A client's own header, and what each proxy on the way adds at its end: the
\* address the request came to it from, on the one line it makes of what is
\* there (joins), or on a line of its own.
Line(hops) == [readable |-> TRUE, hops |-> hops]
Forwarded(claimed, client, proxies, joins) ==
    LET added == <<client>> \o Front(proxies)
    IN  IF proxies = <<>> THEN claimed
        ELSE IF joins
        THEN <<[readable |-> \A n \in DOMAIN claimed : claimed[n].readable,
                hops |-> FlattenSeq([n \in DOMAIN claimed |-> claimed[n].hops]) \o added]>>
        ELSE claimed \o [n \in DOMAIN added |-> Line(<<added[n]>>)]

(* preflight: what stops the server, or the warnings it starts with. A      *)
(* server that starts gets Secure cookies when its public address is https  *)
(* (Server::new).                                                           *)
Settings == [tls : {"none", "native", "behind-proxy"}, proxies : BOOLEAN,
             url : {"unset", "http", "https"}, loopback : BOOLEAN,
             insecure : BOOLEAN, secureCookies : BOOLEAN]

Plaintext(cfg) == ~cfg.loopback /\ cfg.tls # "behind-proxy"

Refusal(cfg) ==
    CASE cfg.tls = "native"                                  -> "no TLS of its own"
      [] cfg.tls = "behind-proxy" /\ ~cfg.proxies            -> "no trusted proxies"
      [] cfg.tls = "behind-proxy" /\ cfg.url = "unset"       -> "no public address"
      [] ~cfg.loopback /\ cfg.url = "unset"                  -> "no public address"
      [] Plaintext(cfg) /\ ~cfg.insecure                     -> "plaintext"
      [] OTHER                                               -> "none"

Started(cfg) ==
    [refusal |-> Refusal(cfg),
     warned |-> Refusal(cfg) = "none" /\ Plaintext(cfg),
     secureCookies |-> cfg.secureCookies \/ cfg.url = "https"]

-----------------------------------------------------------------------------
(* The settings file. A value is what apply tells apart; "unset" is a key   *)
(* that is not in the file. A time is its number and its unit in seconds.   *)
(* `other` is a key or section the file has beside those the release        *)
(* honours.                                                                 *)
Defaults == [organisation |-> "unset", bind |-> "loopback", url |-> "unset", tls |-> "none",
             proxies |-> FALSE, upload |-> 200, hosts |-> "with slug", encryption |-> "off",
             provider |-> "local", ttl |-> 12 * 3600, ceiling |-> "ask", search |-> "unset",
             registry |-> "offline", catalogs |-> "unset", sink |-> "local"]

EmptyFile == [[k \in DOMAIN Defaults |-> "unset"]
                EXCEPT !.upload = 200, !.ttl = <<12, 3600>>, !.proxies = {}]

\* parse_duration_ms: a number, then one of four units.
Duration(time) == IF time[2] \in {1, 60, 3600, 86400} THEN time[1] * time[2] ELSE 0

\* A plausible slip: keys the release does not have are passed over.
CheckKeysLoosely(others) == "misspelt" \notin others

\* check_keys: refused by name, whether the release has not built it or
\* nothing has.
CheckKeys(others) == others = {}

\* apply: the values it refuses.
Honoured(file) ==
    /\ file.organisation \notin {"blank", "long"}
    /\ file.bind # "blank"
    /\ file.url \in {"unset", "http", "https"}
    /\ file.tls \in {"unset", "behind-proxy"}
    /\ \A range \in file.proxies : range.prefix # 0
    /\ file.upload \in 1..65536
    /\ file.hosts # "without slug"
    /\ file.encryption \in {"unset", "off"}
    /\ file.provider \in {"unset", "local"}
    /\ Duration(file.ttl) \in 60..2592000
    /\ file.ceiling \in {"unset", "airgapped", "ask", "online"}
    /\ file.search \in {"unset", "searxng"}        \* the backend, at an http address
    /\ file.registry \in {"unset", "offline"}
    /\ file.catalogs # "no directory"
    /\ file.sink \in {"unset", "local"}

\* apply: what the file sets over the defaults.
Apply(file) ==
    [k \in DOMAIN Defaults |->
        CASE k = "ttl"     -> Duration(file.ttl)
          [] k = "proxies" -> file.proxies # {}
          [] k = "upload"  -> file.upload
          [] OTHER         -> IF file[k] = "unset" THEN Defaults[k] ELSE file[k]]

\* load, parse, and the settings `serve` starts with; the flags are its own.
Parsed(file, others) == CheckKeys(others) /\ Honoured(file)

Served(file, insecure) ==
    LET cfg == Apply(file)
    IN  [tls |-> cfg.tls, proxies |-> cfg.proxies, url |-> cfg.url,
         loopback |-> cfg.bind = "loopback", insecure |-> insecure, secureCookies |-> FALSE]

(* A client cannot choose the address it is known by. A request from an     *)
(* untrusted client, directly or through any chain of trusted proxies,      *)
(* carries that client's own address, if the proxies write on the one line  *)
(* of X-Forwarded-For they make of what it sent, or it sent none. If it     *)
(* sent what is not visible ASCII, the request carries the last proxy's     *)
(* address instead. Behind proxies that add lines of their own the line it  *)
(* sent is the one that is read, and nothing is promised (auth.rs and       *)
(* net.rs client_ip; the lockout of sign-in counts per address).            *)
AddressIsTheClients(claimed, client, proxies, joins, trusted) ==
    (/\ ~IsTrusted(client, trusted)
     /\ \A i \in DOMAIN proxies : IsTrusted(proxies[i], trusted)
     /\ proxies = <<>> \/ claimed = <<>> \/ joins)
        => LET peer == IF proxies = <<>> THEN client ELSE Last(proxies)
               address == ClientIp(peer, Forwarded(claimed, client, proxies, joins), trusted)
           IN  \/ address = client
               \/ address = peer /\ \E n \in DOMAIN claimed : ~claimed[n].readable

(* A server that starts serves nothing in the clear off loopback unless it  *)
(* was asked to and says so, knows the address to print, and never sends a  *)
(* session cookie of an https site over http (lib.rs preflight and new).    *)
StartsSafely(cfg) ==
    LET start == Started(cfg)
    IN  start.refusal = "none" =>
            /\ Plaintext(cfg) => cfg.insecure /\ start.warned
            /\ ~cfg.loopback => cfg.url # "unset"
            /\ cfg.tls = "behind-proxy" => cfg.proxies /\ cfg.url # "unset"
            /\ cfg.url = "https" => start.secureCookies

(* Nothing is believed to be in force that is not: a file the server takes  *)
(* has no key it does not know, every value it sets is the one the server   *)
(* runs with, a session lasts between a minute and thirty days, no range of *)
(* proxies is every address; and a server that starts on it starts safely   *)
(* (settings.rs check_keys and apply, lib.rs preflight).                    *)
SettingsAreHonoured(file, others, insecure) ==
    Parsed(file, others) =>
        /\ others = {}
        /\ \A k \in DOMAIN file \ {"ttl", "proxies", "upload"} :
               file[k] # "unset" => Apply(file)[k] = file[k]
        /\ Apply(file).ttl \in 60..(30 * 86400)
        /\ \A range \in file.proxies : \E ip \in Addresses :
               ip.family = range.network.family /\ ~CidrContains(range, ip)
        /\ StartsSafely(Served(file, insecure))
============================================================================
