----------------------------- MODULE TokenCache -----------------------------
(***************************************************************************)
(* internal/api/oauth.go: GetToken, which every request of the API client  *)
(* calls first, on any goroutine.  The cached token is looked up under the *)
(* read lock and once more under the write lock, which its holder keeps    *)
(* while it asks the server for a new one.                                 *)
(*                                                                         *)
(* A token is the moment at which the server lets it expire: the cache     *)
(* reckons that moment from when the answer was read, which is later.      *)
(***************************************************************************)
EXTENDS Integers

CONSTANTS
  Callers, NoCaller,
  Margin,      \* how long before its expiry a token is no longer used: 30 s
  AskTimeout,  \* httpClient.Timeout: 30 s
  Lifetimes,   \* the values of expires_in the server sends
  MaxTime      \* bound: the last moment

ASSUME TokenCacheAssumption ==
  /\ NoCaller \notin Callers
  /\ Margin \in Nat /\ AskTimeout \in Nat /\ AskTimeout <= Margin
  /\ Lifetimes \subseteq Nat /\ MaxTime \in Nat

VARIABLES
  now,
  cached,     \* token, expiresAt: [expires, until], or NoToken
  tokenMu,    \* who holds mu for writing, or NoCaller
  gpc,        \* where each GetToken is
  asked,      \* when its request was sent
  issued,     \* the server's answer to it: [expires, life]
  returned    \* what GetToken last took from the cache, and when

tokenVars == <<now, cached, tokenMu, gpc, asked, issued, returned>>

NoToken == [expires |-> 0, until |-> 0]
NoIssue == [expires |-> 0, life |-> 0]
NoReturn == [expires |-> 1, at |-> 0]

TokenInit ==
  /\ now = 0 /\ cached = NoToken /\ tokenMu = NoCaller
  /\ gpc = [c \in Callers |-> "idle"]
  /\ asked = [c \in Callers |-> 0]
  /\ issued = [c \in Callers |-> NoIssue]
  /\ returned = [c \in Callers |-> NoReturn]

Usable == cached # NoToken /\ now < cached.until - Margin

(* Mutant: a token is used until it expires.                               *)
TakeCachedLate(c) ==
  /\ cached # NoToken /\ now < cached.until
  /\ returned' = [returned EXCEPT ![c] = [expires |-> cached.expires,
                                          at |-> now]]

TakeCached(c) ==
  /\ Usable
  /\ returned' = [returned EXCEPT ![c] = [expires |-> cached.expires,
                                          at |-> now]]

TcGoto(c, from, to) == gpc[c] = from /\ gpc' = [gpc EXCEPT ![c] = to]

(* Under the read lock.                                                    *)
TcLookup(c) ==
  /\ tokenMu = NoCaller
  /\ \/ TcGoto(c, "idle", "idle") /\ TakeCached(c)
     \/ TcGoto(c, "idle", "missed") /\ ~Usable /\ UNCHANGED returned
  /\ UNCHANGED <<now, cached, tokenMu, asked, issued>>

Ask(c) ==
  /\ TcGoto(c, "missed", "asking")
  /\ tokenMu' = c
  /\ asked' = [asked EXCEPT ![c] = now]
  /\ UNCHANGED returned

(* Mutant: there is no second look.                                        *)
TcLockAndAsk(c) ==
  /\ tokenMu = NoCaller
  /\ Ask(c)
  /\ UNCHANGED <<now, cached, issued>>

(* Under the write lock.                                                   *)
TcLock(c) ==
  /\ tokenMu = NoCaller
  /\ \/ /\ TcGoto(c, "missed", "idle") /\ TakeCached(c)
        /\ UNCHANGED <<tokenMu, asked>>
     \/ ~Usable /\ Ask(c)
  /\ UNCHANGED <<now, cached, issued>>

(* The server issues a token, some time before the answer is read.         *)
TcIssue(c) ==
  /\ TcGoto(c, "asking", "issued")
  /\ \E life \in Lifetimes :
       issued' = [issued EXCEPT ![c] = [expires |-> now + life, life |-> life]]
  /\ UNCHANGED <<now, cached, tokenMu, asked, returned>>

TcUnlock(c) ==
  /\ tokenMu' = NoCaller
  /\ asked' = [asked EXCEPT ![c] = 0]
  /\ issued' = [issued EXCEPT ![c] = NoIssue]

TcAnswer(c) ==
  /\ TcGoto(c, "issued", "idle")
  /\ now <= asked[c] + AskTimeout
  /\ cached' = [expires |-> issued[c].expires, until |-> now + issued[c].life]
  /\ TcUnlock(c)
  /\ UNCHANGED <<now, returned>>

(* No answer in time, none at all, or an answer that is no token.          *)
TcFail(c) ==
  /\ TcGoto(c, "asking", "idle") \/ TcGoto(c, "issued", "idle")
  /\ TcUnlock(c)
  /\ UNCHANGED <<now, cached, returned>>

Tick ==
  /\ now < MaxTime /\ now' = now + 1
  /\ UNCHANGED <<cached, tokenMu, gpc, asked, issued, returned>>

TokenNext ==
  \/ Tick
  \/ \E c \in Callers :
       TcLookup(c) \/ TcLock(c) \/ TcIssue(c) \/ TcAnswer(c) \/ TcFail(c)

TokenSpec == TokenInit /\ [][TokenNext]_tokenVars

-----------------------------------------------------------------------------
TokenTypeOK ==
  /\ now \in 0..MaxTime
  /\ cached \in [expires : Nat, until : Nat]
  /\ tokenMu \in Callers \cup {NoCaller}
  /\ gpc \in [Callers -> {"idle", "missed", "asking", "issued"}]
  /\ asked \in [Callers -> 0..MaxTime]
  /\ issued \in [Callers -> [expires : Nat, life : Nat]]
  /\ returned \in [Callers -> [expires : Nat, at : 0..MaxTime]]

(* A token taken from the cache has not expired at the server, though the  *)
(* cache reckons its life from the end of a request that may take as long  *)
(* as the client's timeout: the margin covers it.                          *)
CachedTokenAlive == \A c \in Callers : returned[c].at < returned[c].expires

(* While a caller asks the server nobody else does, and there is no usable *)
(* token all that time: callers that missed together make one request.     *)
NoNeedlessRequest ==
  \A c \in Callers :
    gpc[c] \in {"asking", "issued"} =>
      /\ ~Usable
      /\ \A d \in Callers \ {c} : gpc[d] \in {"idle", "missed"}
=============================================================================
