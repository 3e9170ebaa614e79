------------------------------ MODULE Pairing ------------------------------
(* How an agent comes to have a hub, and what it then sends where.             *)
(*                                                                             *)
(* `pkgwatch agent pair` makes a fresh device key, exchanges a code for a      *)
(* token and keeps the pairing as five rows of hub_state, written in the order *)
(* in which Go happens to walk a map.  The daemon builds a client from four of *)
(* these rows before every push, one SELECT each, with no transaction around   *)
(* either.  The hub serves the certificate that LoadOrCreateCert found or      *)
(* made, spends the code in one statement and enrols the device in a later     *)
(* one.  A command may be killed, time out or fail between any two steps; a    *)
(* request that nobody waits for any more may still be served.                 *)
(*                                                                             *)
(* The pairings are numbered.  Pairing n is the device key n, the device ID    *)
(* computed from it, and the token its enrolment returns: the key is fresh per *)
(* pairing and one request carries it, so the token can be named after it.     *)
EXTENDS Naturals, FiniteSets

CONSTANTS
    Commands,     \* terminals in which `agent pair` and `agent unpair` are run
    Starters,     \* processes that run LoadOrCreateCert; "hub" goes on to serve
    Codes,        \* pairing codes the hub may hand out
    MaxPairings,  \* bound: pairings attempted
    MaxCerts      \* bound: certificates generated

ASSUME PairingAssumption == MaxPairings \in Nat /\ MaxCerts \in Nat /\ "hub" \in Starters

VARIABLES
    store,    \* hub_state of the agent: row -> value, 0 for no row
    revoked,  \* the revoked_at row of hub_state is set
    cmd,      \* command -> where it is, its pairing, the certificate seen, rows to write
    pairings, \* device keys generated
    codes,    \* pair_codes of the hub: code -> unissued, live, spent or expired
    enrol,    \* pairing -> where its enrolment request is, and the code it carries
    devices,  \* devices of the hub: pairing -> status, "none" for no row
    certFile, \* hub-cert.pem: the certificate in it, 0 for no file, Torn for a cut one
    keyFile,  \* hub-tls.key: the certificate its key belongs to, likewise
    readable, \* the two files can be opened
    made,     \* certificates generated
    starter,  \* process -> what LoadOrCreateCert does next, and the certificate it makes
    serving,  \* certificate the running hub presents, InClear with tls = false, 0 when none runs
    daemon,   \* the sync loop: where it is, the client it builds, the answer it holds
    done,     \* the pairing that last ended well, 0 after unpair
    void      \* pairings made with a hub that was rebuilt since

hubVars    == <<codes, enrol, devices>>
certVars   == <<certFile, keyFile, readable, made, starter, serving>>
agentVars  == <<store, revoked, cmd, pairings, done>>
vars == <<agentVars, hubVars, certVars, daemon, void>>

Numbers == 1 .. MaxPairings
Rows    == {"device_key", "device_id", "token", "hub_url", "cert_fp"}
Torn    == MaxCerts + 1
InClear == MaxCerts + 1

\* What hub_url begins with; 0 for no row.
Https == 1
Http  == 2

\* The five rows as pairing n leaves them, with a hub that presented cert or, at
\* an http address, nothing: SeenFingerprint is empty then.
Whole(n, cert) ==
    [device_key |-> n, device_id |-> n, token |-> n, cert_fp |-> cert,
     hub_url |-> IF cert = 0 THEN Http ELSE Https]

NoRows    == [row \in Rows |-> 0]
Rest      == [at |-> "idle", key |-> 0, seen |-> 0, todo |-> {}]
Unbuilt   == [at |-> "idle", next |-> 1, client |-> NoRows, reply |-> "none"]
Unasked   == [at |-> "unasked", code |-> "none"]
NoStarter == [at |-> "idle", cert |-> 0]

\* Rows as some pairing leaves them, or with some missing.
Stored ==
    {rows \in [Rows -> Nat] :
       /\ \A row \in {"device_key", "device_id", "token"} : rows[row] \in 0 .. MaxPairings
       /\ rows["hub_url"] \in {0, Https, Http} /\ rows["cert_fp"] \in 0 .. MaxCerts}

Asking  == [at : {"idle", "asking", "storing"}, key : 0 .. MaxPairings, seen : 0 .. MaxCerts,
            todo : SUBSET Rows]
Request == [at : {"unasked", "sent", "redeemed", "enrolled", "refused"},
            code : Codes \cup {"none"}]
Making  == [at : {"idle", "cert", "certbody", "key", "keybody"}, cert : 0 .. MaxCerts]
Syncing == [at : {"idle", "reading", "push", "answer", "halted"}, next : 1 .. 4, client : Stored,
            reply : {"none", "ok", "unknown", "revoked", "pending", "auth"}]

\* The daemon that has read past the third row has a hub to talk to.
TypeOK ==
    /\ store \in Stored /\ revoked \in BOOLEAN
    /\ cmd \in [Commands -> Asking]
    /\ pairings \in 0 .. MaxPairings
    /\ codes \in [Codes -> {"unissued", "live", "spent", "expired"}]
    /\ enrol \in [Numbers -> Request]
    /\ devices \in [Numbers -> {"none", "pending", "approved", "revoked"}]
    /\ certFile \in 0 .. Torn /\ keyFile \in 0 .. Torn /\ readable \in BOOLEAN
    /\ made \in 0 .. MaxCerts /\ serving \in 0 .. InClear
    /\ starter \in [Starters -> Making]
    /\ daemon \in Syncing
    /\ daemon.at \in {"push", "answer"} \/ daemon.next = 4
         => 0 \notin {daemon.client["token"], daemon.client["hub_url"], daemon.client["device_key"]}
    /\ done \in 0 .. MaxPairings /\ void \subseteq Numbers

Init ==
    /\ store = NoRows /\ revoked = FALSE
    /\ cmd = [c \in Commands |-> Rest] /\ pairings = 0
    /\ codes = [c \in Codes |-> "unissued"]
    /\ enrol = [n \in Numbers |-> Unasked]
    /\ devices = [n \in Numbers |-> "none"]
    /\ certFile = 0 /\ keyFile = 0 /\ readable = TRUE /\ made = 0
    /\ starter = [s \in Starters |-> NoStarter] /\ serving = 0
    /\ daemon = Unbuilt
    /\ done = 0 /\ void = {}

-----------------------------------------------------------------------------
(* `pkgwatch agent pair` and `agent unpair`                                    *)

\* agent.Open: the agent counts as paired by its token row alone.
Paired == store["token"] # 0

\* There is a hub, and it speaks what the address says.
Reached(address) == IF address = Http THEN serving = InClear ELSE serving \in 1 .. MaxCerts

\* `agent pair`: refused while paired; a fresh key; over https the handshake
\* accepts any certificate without --fingerprint and only that one with it, and
\* notes what it saw; over http there is none.  Then the request is under way.
\* A connection that fails changes nothing.
Pair(c, code, address) ==
    /\ cmd[c].at = "idle" /\ ~Paired
    /\ pairings < MaxPairings
    /\ Reached(address)
    /\ codes[code] # "unissued"
    /\ pairings' = pairings + 1
    /\ cmd' = [cmd EXCEPT ![c] = [at |-> "asking", key |-> pairings + 1,
                                  seen |-> IF address = Http THEN 0 ELSE serving, todo |-> Rows]]
    /\ enrol' = [enrol EXCEPT ![pairings + 1] = [at |-> "sent", code |-> code]]
    /\ UNCHANGED <<store, revoked, done, codes, devices, certVars, daemon, void>>

\* The answer with the token arrives.
Enrolled(c) ==
    /\ cmd[c].at = "asking" /\ enrol[cmd[c].key].at = "enrolled"
    /\ cmd' = [cmd EXCEPT ![c].at = "storing"]
    /\ UNCHANGED <<store, revoked, pairings, done, hubVars, certVars, daemon, void>>

\* Mutant: INSERT OR IGNORE.
KeepOldRow(rows, row, value) == IF rows[row] = 0 THEN [rows EXCEPT ![row] = value] ELSE rows

\* SetHubState: an upsert.
SetHubState(rows, row, value) == [rows EXCEPT ![row] = value]

\* One turn of the loop that stores the pairing; the rows come in any order.
StoreRow(c, row) ==
    /\ cmd[c].at = "storing" /\ row \in cmd[c].todo
    /\ store' = SetHubState(store, row, Whole(cmd[c].key, cmd[c].seen)[row])
    /\ IF cmd[c].todo = {row}
       THEN cmd' = [cmd EXCEPT ![c] = Rest] /\ done' = cmd[c].key
       ELSE cmd' = [cmd EXCEPT ![c].todo = cmd[c].todo \ {row}] /\ done' = done
    /\ UNCHANGED <<revoked, pairings, hubVars, certVars, daemon, void>>

\* The command ends early: refused, timed out, killed, or a row that cannot be
\* written.  Its request, if still under way, may be served all the same.
GiveUp(c) ==
    /\ cmd[c].at # "idle"
    /\ cmd' = [cmd EXCEPT ![c] = Rest]
    /\ UNCHANGED <<store, revoked, pairings, done, hubVars, certVars, daemon, void>>

\* `agent unpair`: every row of hub_state goes, the marker with it.
Unpair(c) ==
    /\ cmd[c].at = "idle" /\ Paired
    /\ store' = NoRows /\ revoked' = FALSE /\ done' = 0
    /\ UNCHANGED <<cmd, pairings, hubVars, certVars, daemon, void>>

-----------------------------------------------------------------------------
(* The hub's side of an enrolment                                              *)

\* `hub pair-code`.
IssuePairCode(code) ==
    /\ codes[code] = "unissued"
    /\ codes' = [codes EXCEPT ![code] = "live"]
    /\ UNCHANGED <<enrol, devices, agentVars, certVars, daemon, void>>

\* Ten minutes pass; ExpirePairCodes deletes what redemption refuses already.
CodeExpires(code) ==
    /\ codes[code] = "live"
    /\ codes' = [codes EXCEPT ![code] = "expired"]
    /\ UNCHANGED <<enrol, devices, agentVars, certVars, daemon, void>>

\* Mutant: used_at is not looked at.
Unexpired(code) == codes[code] \in {"live", "spent"}

\* The WHERE of the one UPDATE that spends a code.
Redeemable(code) == codes[code] = "live"

\* device.Verify of what an agent signed itself: it fails when the two clocks are
\* more than the window apart, in either direction.
Verify == BOOLEAN

\* handleEnroll up to the code: key and ID agree for every request an agent
\* makes; the signature is checked first, then the code is spent or refused.
RedeemPairCode(n) ==
    /\ serving # 0 /\ enrol[n].at = "sent"
    /\ \E signed \in Verify :
       IF signed /\ Redeemable(enrol[n].code)
       THEN /\ codes' = [codes EXCEPT ![enrol[n].code] = "spent"]
            /\ enrol' = [enrol EXCEPT ![n].at = "redeemed"]
       ELSE /\ enrol' = [enrol EXCEPT ![n].at = "refused"]
            /\ codes' = codes
    /\ UNCHANGED <<devices, agentVars, certVars, daemon, void>>

\* handleEnroll from the token on: the row is written and the token returned, or
\* the token, its hash or the row cannot be made and the code stays spent.
Enroll(n) ==
    /\ serving # 0 /\ enrol[n].at = "redeemed"
    /\ \/ /\ devices' = [devices EXCEPT ![n] = "pending"]
          /\ enrol' = [enrol EXCEPT ![n].at = "enrolled"]
       \/ /\ enrol' = [enrol EXCEPT ![n].at = "refused"]
          /\ devices' = devices
    /\ UNCHANGED <<codes, agentVars, certVars, daemon, void>>

\* `hub devices approve` and `revoke`, and the pages' buttons.
SetDeviceStatus(n, status) ==
    /\ devices[n] \notin {"none", status}
    /\ devices' = [devices EXCEPT ![n] = status]
    /\ UNCHANGED <<codes, enrol, agentVars, certVars, daemon, void>>

-----------------------------------------------------------------------------
(* The hub's certificate                                                       *)

\* Both files open, and the key is the certificate's.
PairLoads == readable /\ certFile = keyFile /\ certFile \in 1 .. MaxCerts

\* Mutant: any pair that does not load is replaced.
DoesNotLoad == ~PairLoads

\* LoadX509KeyPair opens both files before it parses either.
FileMissing == readable /\ 0 \in {certFile, keyFile}

\* LoadOrCreateCert finds a pair that loads: the hub serves it.  A pair that is
\* there and does not load is an error, and nothing changes.
LoadCert ==
    /\ starter["hub"].at = "idle" /\ serving = 0 /\ PairLoads
    /\ serving' = certFile
    /\ UNCHANGED <<certFile, keyFile, readable, made, starter, agentVars, hubVars, daemon, void>>

\* With tls = false the hub looks for no certificate.
ServeInClear ==
    /\ starter["hub"].at = "idle" /\ serving = 0
    /\ serving' = InClear
    /\ UNCHANGED <<certFile, keyFile, readable, made, starter, agentVars, hubVars, daemon, void>>

\* A file is missing: generateCert begins.
GenerateCert(s) ==
    /\ starter[s].at = "idle" /\ (s = "hub" => serving = 0)
    /\ FileMissing /\ made < MaxCerts
    /\ made' = made + 1
    /\ starter' = [starter EXCEPT ![s] = [at |-> "cert", cert |-> made + 1]]
    /\ UNCHANGED <<certFile, keyFile, readable, serving, agentVars, hubVars, daemon, void>>

\* writePEM, twice: each file is truncated, then filled.
WritePEM(s) ==
    LET cert == starter[s].cert
        to(at) == starter' = [starter EXCEPT ![s].at = at]
    IN  /\ \/ /\ starter[s].at = "cert" /\ to("certbody")
              /\ certFile' = Torn /\ UNCHANGED <<keyFile, serving>>
           \/ /\ starter[s].at = "certbody" /\ to("key")
              /\ certFile' = cert /\ UNCHANGED <<keyFile, serving>>
           \/ /\ starter[s].at = "key" /\ to("keybody")
              /\ keyFile' = Torn /\ UNCHANGED <<certFile, serving>>
           \/ /\ starter[s].at = "keybody"
              /\ keyFile' = cert /\ certFile' = certFile
              /\ starter' = [starter EXCEPT ![s] = NoStarter]
              /\ serving' = IF s = "hub" THEN cert ELSE serving
        /\ UNCHANGED <<readable, made, agentVars, hubVars, daemon, void>>

\* A process is stopped or killed; the hub's open requests die with it.
StarterStops(s) ==
    /\ starter[s].at # "idle" \/ (s = "hub" /\ serving # 0)
    /\ starter' = [starter EXCEPT ![s] = NoStarter]
    /\ IF s = "hub"
       THEN /\ serving' = 0
            /\ enrol' = [n \in Numbers |->
                           IF enrol[n].at \in {"sent", "redeemed"}
                           THEN [enrol[n] EXCEPT !.at = "refused"] ELSE enrol[n]]
       ELSE UNCHANGED <<serving, enrol>>
    /\ UNCHANGED <<certFile, keyFile, readable, made, codes, devices, agentVars, daemon, void>>

\* The files stop being readable to the hub, or become so again.
AccessChanges ==
    /\ readable' = ~readable
    /\ UNCHANGED <<certFile, keyFile, made, starter, serving, agentVars, hubVars, daemon, void>>

\* The hub's data directory is lost while it is down: certificate, devices and
\* codes go, and with them every pairing made so far.
RebuildHub ==
    /\ serving = 0 /\ \A s \in Starters : starter[s].at = "idle"
    /\ certFile # 0 \/ keyFile # 0
    /\ certFile' = 0 /\ keyFile' = 0
    /\ devices' = [n \in Numbers |-> "none"]
    /\ codes' = [c \in Codes |-> IF codes[c] = "live" THEN "expired" ELSE codes[c]]
    /\ void' = 1 .. pairings
    /\ UNCHANGED <<readable, made, starter, serving, enrol, agentVars, daemon>>

-----------------------------------------------------------------------------
(* The agent's sync loop                                                       *)

Reads == <<"token", "hub_url", "device_key", "cert_fp">>

\* Mutant: the missing pin is not asked about.
AnyPin(client) == FALSE

\* clientFor: an https hub with no pin on file is refused.
PinRefused(client) == client["hub_url"] = Https /\ client["cert_fp"] = 0

\* syncOnce begins.
Tick ==
    /\ daemon.at = "idle"
    /\ daemon' = [Unbuilt EXCEPT !.at = "reading"]
    /\ UNCHANGED <<agentVars, hubVars, certVars, void>>

\* An agent without token, address or key has no hub, and skips.
NoHub(client) == 0 \in {client["token"], client["hub_url"], client["device_key"]}

\* One SELECT of clientFor.  After the third an agent without a hub skips; after
\* the fourth the client is refused or built.
HubState ==
    LET client == [daemon.client EXCEPT ![Reads[daemon.next]] = store[Reads[daemon.next]]]
        skips  == daemon.next = 3 /\ NoHub(client)
    IN  /\ daemon.at = "reading"
        /\ \/ /\ daemon.next < 4 /\ ~skips
              /\ daemon' = [daemon EXCEPT !.next = daemon.next + 1, !.client = client]
           \/ /\ skips \/ (daemon.next = 4 /\ PinRefused(client))
              /\ daemon' = Unbuilt
           \/ /\ daemon.next = 4 /\ ~PinRefused(client)
              /\ daemon' = [Unbuilt EXCEPT !.at = "push", !.client = client]
        /\ UNCHANGED <<agentVars, hubVars, certVars, void>>

\* The stored hash is that of the token the device's enrolment returned.
TokenMatches(client) == client["token"] = client["device_key"]

\* requireDevice: the device, its signature, its status and then its token.
Answer(client, signed) ==
    LET status == devices[client["device_key"]]
    IN  CASE status = "none"                   -> "unknown"
          [] status # "none" /\ ~signed        -> "auth"
          [] status = "revoked" /\ signed      -> "revoked"
          [] status = "pending" /\ signed      -> "pending"
          [] status = "approved" /\ signed     -> IF TokenMatches(client) THEN "ok" ELSE "auth"

\* The pinned transport: no pin accepts anything, a pin only its certificate.
\* Over http there is no handshake.
HandshakeOK(client) == client["hub_url"] = Http \/ client["cert_fp"] \in {0, serving}

\* Push: the handshake, then the credentials and the hub's answer.  Another
\* certificate than the pinned one halts the loop; an absent hub, one that
\* speaks the other protocol, or an answer that is lost, ends the turn.
Push ==
    /\ daemon.at = "push"
    /\ \/ /\ ~Reached(daemon.client["hub_url"]) /\ daemon' = Unbuilt
       \/ /\ Reached(daemon.client["hub_url"]) /\ ~HandshakeOK(daemon.client)
          /\ daemon' = [Unbuilt EXCEPT !.at = "halted"]
       \/ /\ Reached(daemon.client["hub_url"]) /\ HandshakeOK(daemon.client)
          /\ \E signed \in Verify :
               daemon' = [daemon EXCEPT !.at = "answer", !.reply = Answer(daemon.client, signed)]
    /\ UNCHANGED <<agentVars, hubVars, certVars, void>>

\* syncOnce and handlePushError with the answer: a push that was taken clears the
\* marker, a refusal that needs a person sets it and halts, the rest is retried.
ApplyAnswer ==
    /\ daemon.at = "answer"
    /\ \/ /\ daemon.reply = "ok"
          /\ revoked' = FALSE /\ daemon' = Unbuilt
       \/ /\ daemon.reply \in {"revoked", "unknown"}
          /\ revoked' = TRUE /\ daemon' = [Unbuilt EXCEPT !.at = "halted"]
       \/ /\ daemon.reply \in {"pending", "auth"}
          /\ revoked' = revoked /\ daemon' = Unbuilt
    /\ UNCHANGED <<store, cmd, pairings, done, hubVars, certVars, void>>

\* The answer is lost, or the daemon is restarted, which is how a halted loop
\* comes back.
DaemonRestarts ==
    /\ daemon.at # "idle"
    /\ daemon' = Unbuilt
    /\ UNCHANGED <<agentVars, hubVars, certVars, void>>

-----------------------------------------------------------------------------
Next ==
    \/ \E c \in Commands :
         \/ \E code \in Codes, address \in {Https, Http} : Pair(c, code, address)
         \/ Enrolled(c)
         \/ \E row \in Rows : StoreRow(c, row)
         \/ GiveUp(c) \/ Unpair(c)
    \/ \E code \in Codes : IssuePairCode(code) \/ CodeExpires(code)
    \/ \E n \in Numbers : RedeemPairCode(n) \/ Enroll(n)
    \/ \E n \in Numbers, status \in {"approved", "revoked"} : SetDeviceStatus(n, status)
    \/ LoadCert \/ ServeInClear
    \/ \E s \in Starters : GenerateCert(s) \/ WritePEM(s) \/ StarterStops(s)
    \/ AccessChanges
    \/ RebuildHub
    \/ Tick \/ HubState \/ Push \/ ApplyAnswer \/ DaemonRestarts

Spec == Init /\ [][Next]_vars

-----------------------------------------------------------------------------
(* Correctness                                                                 *)

\* A pairing that stands: it ended well, was not undone, and its hub is the same.
Standing(n) == n # 0 /\ n = done /\ n \notin void

\* `agent pair` that ends without an error leaves a pairing that is whole: five
\* rows of one enrolment, the address with the pin that goes with it, whatever
\* earlier attempts left half written, a device
\* row on the hub that a person can approve, and a code that enrolled no other
\* device, however many requests with that code were under way
\* (cli/pair.go:87-104, hub/api.go:95-116).
PairedIsEnrolled ==
    Standing(done) =>
        /\ \E cert \in 0 .. MaxCerts : store = Whole(done, cert)
        /\ devices[done] # "none"
        /\ \A n \in Numbers :
             n # done /\ devices[n] # "none" => enrol[n].code # enrol[done].code

\* To an https address the daemon's token goes only over a connection whose
\* certificate is the one on file, and never when none is on file: not after a
\* pairing cut between its rows, not while one is being written, not to a hub
\* that was rebuilt (agent/sync.go:350-359, fleet/pin.go:73-100).  To an http
\* address it goes as it is.
PushIsPinned ==
    daemon.at # "answer" /\ daemon'.at = "answer" /\ daemon.client["hub_url"] = Https
        => daemon.client["cert_fp"] # 0 /\ daemon.client["cert_fp"] = serving
OnlyToAPinnedHub == [][PushIsPinned]_vars

\* As long as nobody removes the hub's certificate, the certificate a standing
\* pairing pinned is the one on file and the only one the hub presents: no
\* restart, crash, unreadable file or time without TLS replaces it
\* (hub/tls.go:74-93).
PinStaysGood ==
    Standing(done) /\ store["cert_fp"] # 0 =>
        /\ certFile = store["cert_fp"] /\ keyFile = certFile
        /\ serving \in {0, InClear, certFile}
-----------------------------------------------------------------------------
(* What does not hold                                                          *)

\* "The fingerprint is written in the same step as the token" (cli/pair.go:88):
\* an agent that counts as paired has the pin.
TokenComesWithPin == Paired /\ store["hub_url"] = Https => store["cert_fp"] # 0

\* A client is built from the rows of one pairing: the token of an https one, with
\* its pin, is not sent to the http address an earlier attempt left.
ClientIsOnePairing ==
    daemon.at = "push" =>
        /\ daemon.client["token"] = daemon.client["device_key"]
        /\ daemon.client["hub_url"] = Http => daemon.client["cert_fp"] = 0

\* The marker is set for the pairing that was refused.
MarkerIsAboutThisPairing ==
    [][~revoked /\ revoked' => daemon.client["device_key"] = store["device_key"]]_vars

=============================================================================
