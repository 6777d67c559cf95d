------------------------------ MODULE WebAdmin ------------------------------
(* HttpServer's authentication: the login lockout per source address, the     *)
(* bearer tokens, the one-time terminal grants, and the credential that can   *)
(* veto them all.  Every deadline counts uptime, which only moves forward.    *)
EXTENDS Integers, Sequences, FiniteSets

CONSTANTS
  Ips,          \* source addresses
  RateSlots,    \* slots of LoginRateTable
  MaxFails,     \* LOGIN_RATE_MAX_FAILS
  Lockout,      \* LOGIN_RATE_LOCKOUT_MS
  Quiet,        \* LOGIN_RATE_QUIET_MS
  MaxTokens,    \* MAX_TOKENS
  TokenTtl,     \* TOKEN_TTL_MS
  GrantSlots,   \* entries of _wsAuth
  GrantTtl,     \* 30 s
  MaxTime,      \* bound: the uptime a run explores
  MaxIssued,    \* bound: tokens issued in a run
  MaxGrants     \* bound: terminal grants given and neither used nor expired

VARIABLES
  now,        \* esp_timer uptime
  cred,       \* webCredState: "ok", or why nothing can authenticate
  rate,       \* LoginRateTable._e
  over,       \* LoginRateTable._over
  tokens,     \* _tokens: [id, expiry]
  grants,     \* _wsAuth: [ip, expiry]
  lockEnd,    \* per address: the end of the last lockout its own guesses earned
  issued,     \* when each token was issued, by id
  unspent,    \* terminal grants given and not used: [n, ip, at], n tells them apart
  usurped     \* a terminal opened with no grant left for its address

rateVars  == <<rate, over, lockEnd>>
tokenVars == <<tokens, issued>>
grantVars == <<grants, unspent, usurped>>
vars == <<now, cred, rateVars, tokenVars, grantVars>>

NoIp  == "none"
Empty == [ip |-> NoIp, fails |-> 0, until |-> 0, last |-> 0]
Slots == 1..RateSlots

TypeOK ==
  /\ now \in 0..MaxTime /\ cred \in {"ok", "default", "toolong"}
  /\ LET Entry == [ip : Ips \cup {NoIp}, fails : 0..MaxFails,
                   until : 0..(MaxTime + Lockout), last : 0..MaxTime]
     IN rate \in [Slots -> Entry] /\ over \in Entry /\ over.ip = NoIp
  /\ tokens \in [1..MaxTokens -> [id : 0..MaxIssued, expiry : 0..(MaxTime + TokenTtl)]]
  /\ grants \in [1..GrantSlots -> [ip : Ips \cup {NoIp}, expiry : 0..(MaxTime + GrantTtl)]]
  /\ lockEnd \in [Ips -> 0..(MaxTime + Lockout)]
  /\ issued \in Seq(0..MaxTime) /\ Len(issued) <= MaxIssued
  /\ unspent \subseteq [n : 1..MaxGrants, ip : Ips, at : 0..MaxTime]
  /\ usurped \in BOOLEAN

Init ==
  /\ now = 1 /\ cred = "ok"
  /\ rate = [s \in Slots |-> Empty] /\ over = Empty
  /\ tokens = [s \in 1..MaxTokens |-> [id |-> 0, expiry |-> 0]]
  /\ grants = [s \in 1..GrantSlots |-> [ip |-> NoIp, expiry |-> 0]]
  /\ lockEnd = [ip \in Ips |-> 0] /\ issued = <<>> /\ unspent = {}
  /\ usurped = FALSE

-----------------------------------------------------------------------------
(* LoginRateTable.  An entry is aged when it is read: a quiet one is cleared, *)
(* one whose lockout has passed sits one below the limit.  Ageing twice is    *)
(* ageing once, so the model ages what it reads and stores what it writes.    *)

Age(e) ==
  IF e.fails = 0 THEN e
  ELSE IF now >= e.last + Quiet THEN Empty
  ELSE IF e.fails >= MaxFails /\ now >= e.until
         THEN [e EXCEPT !.fails = MaxFails - 1, !.until = 0]
  ELSE e

Held(ip)  == {s \in Slots : Age(rate[s]).ip = ip}
Free      == {s \in Slots : Age(rate[s]).ip = NoIp}
Lowest(S) == CHOOSE s \in S : \A t \in S : s <= t

(* allow: the address's own entry decides, the shared one when the table is   *)
(* full of others.                                                            *)
Allow(ip) ==
  IF Held(ip) # {} THEN \A s \in Held(ip) : Age(rate[s]).fails < MaxFails
  ELSE Free # {} \/ Age(over).fails < MaxFails

Counted(e) ==
  IF e.fails >= MaxFails THEN e
  ELSE [e EXCEPT !.last = now, !.fails = @ + 1,
                 !.until = IF e.fails + 1 >= MaxFails THEN now + Lockout ELSE @]

\* Mutant: a full table gives the newcomer the slot of another address.
RateFailEvicts(ip) ==
  LET s == Lowest(IF Held(ip) # {} THEN Held(ip) ELSE IF Free # {} THEN Free ELSE Slots)
      e == Counted(IF Held(ip) # {} THEN Age(rate[s]) ELSE [Empty EXCEPT !.ip = ip])
  IN /\ rate' = [rate EXCEPT ![s] = e]
     /\ lockEnd' = [lockEnd EXCEPT ![ip] = IF e.fails >= MaxFails THEN e.until ELSE @]
     /\ UNCHANGED over

(* fail: on the address's own slot, a free or quiet one, else the shared one. *)
RateFail(ip) ==
  IF Held(ip) \cup Free = {}
    THEN over' = Counted(Age(over)) /\ UNCHANGED <<rate, lockEnd>>
    ELSE LET s == Lowest(IF Held(ip) # {} THEN Held(ip) ELSE Free)
             e == Counted([Age(rate[s]) EXCEPT !.ip = ip])
         IN /\ rate' = [rate EXCEPT ![s] = e]
            /\ lockEnd' = [lockEnd EXCEPT ![ip] = IF e.fails >= MaxFails THEN e.until ELSE @]
            /\ UNCHANGED over

(* reset: a success forgets the address, never the shared entry.              *)
RateReset(ip) ==
  /\ rate' = [s \in Slots |-> IF rate[s].ip = ip THEN Empty ELSE rate[s]]
  /\ UNCHANGED <<over, lockEnd>>

-----------------------------------------------------------------------------
(* Tokens and grants.                                                         *)

Active(expiry) == expiry # 0 /\ now < expiry
Validates(id)  == \E s \in 1..MaxTokens : tokens[s].id = id /\ Active(tokens[s].expiry)

\* Mutant: with no expired slot the first one is taken, not the oldest.
TokenSlotFirst ==
  LET dead == {s \in 1..MaxTokens : ~Active(tokens[s].expiry)}
  IN IF dead # {} THEN Lowest(dead) ELSE 1

(* _createToken: the first slot that is not live, else the one that expires   *)
(* soonest.                                                                   *)
TokenSlot ==
  LET dead == {s \in 1..MaxTokens : ~Active(tokens[s].expiry)}
      soonest == {s \in 1..MaxTokens :
                    \A t \in 1..MaxTokens : tokens[s].expiry <= tokens[t].expiry}
  IN Lowest(IF dead # {} THEN dead ELSE soonest)

CreateToken ==
  /\ tokens' = [tokens EXCEPT ![TokenSlot] = [id |-> Len(issued) + 1,
                                              expiry |-> now + TokenTtl]]
  /\ issued' = Append(issued, now)

(* _grantWsAuth: the first slot that is not live, else the first.             *)
GrantSlot ==
  LET dead == {s \in 1..GrantSlots : ~Active(grants[s].expiry)}
  IN IF dead # {} THEN Lowest(dead) ELSE 1

-----------------------------------------------------------------------------
(* _checkAuth.  A request offers the password, a token by its number, or      *)
(* nothing; a browser sends the password across sites, never a token.         *)

Offers == [by : {"basic"}, right : BOOLEAN, cross : BOOLEAN]
            \cup [by : {"bearer"}, id : 1..(Len(issued) + 1)]
            \cup {[by |-> "nothing"]}

BasicAllowed(o) == ~(o.by = "basic" /\ o.cross)

CheckAuth(o) ==
  /\ cred = "ok"
  /\ \/ o.by = "bearer" /\ Validates(o.id)
     \/ o.by = "basic" /\ BasicAllowed(o) /\ o.right

(* A veto is not a wrong guess, and neither is a request with no credential.  *)
Guessed(o) == ~CheckAuth(o) /\ cred = "ok" /\ BasicAllowed(o) /\ o.by # "nothing"

(* GET /api/auth/check and POST /api/login: 429 while locked out, 403 under a *)
(* veto, 401 and a counted guess, or 200.                                     *)
AuthCheck(ip, o) ==
  /\ Allow(ip) /\ cred = "ok"
  /\ IF CheckAuth(o) THEN RateReset(ip)
     ELSE Guessed(o) /\ RateFail(ip)
  /\ UNCHANGED <<now, cred, tokenVars, grantVars>>

\* A login that succeeds; one that fails is AuthCheck.  Two tokens of the same
\* millisecond expire together and either may go first: one login per tick.
Login(ip, o) ==
  /\ Allow(ip) /\ CheckAuth(o)
  /\ Len(issued) < MaxIssued /\ (issued # <<>> => issued[Len(issued)] < now)
  /\ RateReset(ip) /\ CreateToken
  /\ UNCHANGED <<now, cred, grantVars>>

Unnumbered(ip) == {n \in 1..MaxGrants : [n |-> n, ip |-> ip, at |-> now] \notin unspent}

(* GET /api/ws/token, not rate limited.                                       *)
WsToken(ip, o) ==
  /\ CheckAuth(o) /\ Cardinality(unspent) < MaxGrants /\ Unnumbered(ip) # {}
  /\ grants' = [grants EXCEPT ![GrantSlot] = [ip |-> ip, expiry |-> now + GrantTtl]]
  /\ unspent' = unspent \cup {[n |-> Lowest(Unnumbered(ip)), ip |-> ip, at |-> now]}
  /\ UNCHANGED <<now, cred, rateVars, tokenVars, usurped>>

Usable(ip) == {g \in unspent : g.ip = ip /\ now < g.at + GrantTtl}
Oldest(G)  == CHOOSE g \in G : \A h \in G : g.at <= h.at
Spend(ip) ==
  /\ unspent' = unspent \ (IF Usable(ip) = {} THEN {} ELSE {Oldest(Usable(ip))})
  /\ usurped' = (usurped \/ Usable(ip) = {})

\* Mutant: the grant stays until it expires.
WsConnectKeeps(ip) ==
  LET live == {s \in 1..GrantSlots : Active(grants[s].expiry) /\ grants[s].ip = ip}
  IN /\ live # {} /\ UNCHANGED grants /\ Spend(ip)
     /\ UNCHANGED <<now, cred, rateVars, tokenVars>>

(* WS_EVT_CONNECT: the terminal opens for an address that holds a grant, and  *)
(* the grant is spent.                                                        *)
WsConnect(ip) ==
  LET live == {s \in 1..GrantSlots : Active(grants[s].expiry) /\ grants[s].ip = ip}
  IN /\ live # {}
     /\ grants' = [grants EXCEPT ![Lowest(live)].expiry = 0] /\ Spend(ip)
     /\ UNCHANGED <<now, cred, rateVars, tokenVars>>

(* web.user or web.password changes: a default, an over-long or a good one.   *)
SetCredential(c) ==
  /\ c # cred /\ cred' = c
  /\ UNCHANGED <<now, rateVars, tokenVars, grantVars>>

(* Time passes; the two records of the past forget what has run out.          *)
Tick ==
  /\ now < MaxTime /\ now' = now + 1
  /\ lockEnd' = [ip \in Ips |-> IF now' < lockEnd[ip] THEN lockEnd[ip] ELSE 0]
  /\ unspent' = {g \in unspent : now' < g.at + GrantTtl}
  /\ UNCHANGED <<cred, rate, over, tokenVars, grants, usurped>>

Next ==
  \/ \E ip \in Ips, o \in Offers : AuthCheck(ip, o) \/ Login(ip, o) \/ WsToken(ip, o)
  \/ \E ip \in Ips : WsConnect(ip)
  \/ \E c \in {"ok", "default", "toolong"} : SetCredential(c)
  \/ Tick

Spec == Init /\ [][Next]_vars

-----------------------------------------------------------------------------
(* Properties.                                                                *)

(* An address locked out by its own guesses is refused until that lockout has *)
(* passed, whatever other addresses do to the table in the meantime: a full   *)
(* table evicts nobody.                                                       *)
LockoutHolds == \A ip \in Ips : now < lockEnd[ip] => ~Allow(ip)

(* A token validates for its whole hour unless MaxTokens newer ones were      *)
(* issued, and never after it: a full table gives up the oldest.              *)
TokensKept ==
  \A id \in 1..Len(issued) :
    /\ Validates(id) => now < issued[id] + TokenTtl
    /\ now < issued[id] + TokenTtl /\ id > Len(issued) - MaxTokens => Validates(id)

(* Every terminal that opened used up a grant given to its own address less   *)
(* than thirty seconds before, one grant per terminal.                        *)
TerminalGranted == ~usurped
=============================================================================
