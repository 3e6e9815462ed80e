----------------------------- MODULE RelayBilling -----------------------------
(***************************************************************************)
(* How a relayed request is checked against and charged to the quota of    *)
(* its user and of its token: the total-quota check of middleware/quota.go,*)
(* RelayTextHelper, RelayAudioHelper and RelayImageHelper with their       *)
(* settling goroutines (relay/controller, relay/billing), the user quota   *)
(* cache (model/cache.go) and PreConsume/PostConsumeTokenQuota             *)
(* (model/token.go), over the columns and the updater of QuotaStore.       *)
(*                                                                         *)
(* A slot is one call of relayHelper together with the goroutine it leaves *)
(* behind; a free slot serves the next request.  Every Redis command and   *)
(* every SQL statement is a step of its own.                               *)
(***************************************************************************)
EXTENDS QuotaStore, FiniteSets, Functions

CONSTANTS
    Users, Tokens, Channel,  \* rows of Ids; requests go to one channel
    Owner,                   \* Owner[t]: tokens.user_id
    Unlimited,               \* tokens with unlimited_quota
    Slots,                   \* calls of relayHelper that may overlap
    Kinds,                   \* the helpers in use
    MaxCost, Costs,          \* what a request may cost, 0 included if free
    Grant,                   \* initial users.quota and tokens.remain_quota
    RedisEnabled,            \* common.RedisEnabled
    MayDelete,               \* may tokens be deleted while in use?
    MaxRequests              \* bound: requests in a behaviour

ASSUME BillingAssumption ==
    /\ Users \subseteq Ids /\ Tokens \subseteq Ids /\ Channel \in Ids
    /\ Tokens # {}
    /\ Owner \in [Tokens -> Users]
    /\ Unlimited \subseteq Tokens
    /\ IsFiniteSet(Slots) /\ IsFiniteSet(Tokens)
    /\ Kinds \subseteq {"text", "transcription", "speech", "image"}
    /\ MaxCost \in Nat /\ Costs \subseteq 0..MaxCost
    /\ Grant \in [Ids -> Nat]
    /\ RedisEnabled \in BOOLEAN /\ MayDelete \in BOOLEAN
    /\ MaxRequests \in Nat

VARIABLES
    pc,         \* pc[s]: the statement slot s is about to execute
    req,        \* req[s]: its local variables
    cached,     \* users with a user_quota:<id> key in Redis
    cache,      \* its value
    live,       \* tokens that have not been deleted
    exhausted,  \* tokens with status TokenStatusExhausted
    requests,   \* requests so far (history, bounded by MaxRequests)
    offBook,    \* offBook[s][u]: quota slot s charged to u but did not count as
                \* used, net, for a deleted token or a crash (history)
    leak        \* leak[s][u]: likewise, taken from a token but not from u (history)

billingVars == <<pc, req, cached, cache, live, exhausted, requests, offBook, leak>>
vars == <<storeVars, billingVars>>

quota(u)  == db["users.quota"][u]
used(u)   == db["users.used_quota"][u]
remain(t) == db["tokens.remain_quota"][t]

User(s) == Owner[req[s].tok]

Request(t, k, c) == [kind |-> k, tok |-> t, cost |-> c, pre |-> 0, seen |-> 0]

Blank == Request(CHOOSE t \in Tokens : TRUE, "none", 0)

Initially == [c \in Columns |-> [i \in Ids |->
                 IF c \in {"users.quota", "tokens.remain_quota"} THEN Grant[i] ELSE 0]]

Init ==
    /\ StoreInit(Initially)
    /\ pc = [s \in Slots |-> "idle"]
    /\ req = [s \in Slots |-> Blank]
    /\ cached = {} /\ cache = [u \in Users |-> 0]
    /\ live = Tokens /\ exhausted = {}
    /\ requests = 0
    /\ offBook = [s \in Slots |-> [u \in Users |-> 0]]
    /\ leak = [s \in Slots |-> [u \in Users |-> 0]]

-----------------------------------------------------------------------------
(* Moves of one slot.                                                       *)
Goto(s, l)   == pc' = [pc EXCEPT ![s] = l]
See(s, v, l) == Goto(s, l) /\ req' = [req EXCEPT ![s].seen = v]
Leave(s)     == Goto(s, "idle") /\ req' = [req EXCEPT ![s] = Blank]

ledgers  == <<offBook, leak>>
tokens   == <<live, exhausted, requests>>
caches   == <<cached, cache>>

-----------------------------------------------------------------------------
(* TokenAuth admits the request.  Without Redis ValidateUserToken reads the *)
(* row; with Redis it may read a cached copy from when the token was good.  *)
TokenAccepted(t) ==
    \/ RedisEnabled
    \/ /\ t \in live \ exhausted
       /\ t \in Unlimited \/ remain(t) > 0

Arrive(s, t, k, c) ==
    /\ pc[s] = "idle"
    /\ requests < MaxRequests
    /\ TokenAccepted(t)
    /\ requests' = requests + 1
    /\ Goto(s, "quota")
    /\ req' = [req EXCEPT ![s] = Request(t, k, c)]
    /\ UNCHANGED <<storeVars, caches, live, exhausted, ledgers>>

(* ValidateUserToken finds no quota left on the token and says so in its    *)
(* row, for good.                                                           *)
Exhaust(t) ==
    /\ ~RedisEnabled
    /\ t \in live \ (exhausted \cup Unlimited)
    /\ remain(t) <= 0
    /\ exhausted' = exhausted \cup {t}
    /\ UNCHANGED <<storeVars, pc, req, caches, live, requests, ledgers>>

(* DeleteTokenById, while requests that came with the token are under way.  *)
Delete(t) ==
    /\ MayDelete
    /\ t \in live
    /\ live' = live \ {t}
    /\ UNCHANGED <<storeVars, pc, req, caches, exhausted, requests, ledgers>>

-----------------------------------------------------------------------------
(* QuotaCheck: the two SELECTs of the total-quota check.                    *)
CheckQuota(s) ==
    /\ pc[s] = "quota"
    /\ See(s, quota(User(s)), "used")
    /\ UNCHANGED <<storeVars, caches, tokens, ledgers>>

TotalUsedUp(s) == req[s].seen > 0 /\ used(User(s)) >= req[s].seen

CheckUsed(s) ==
    /\ pc[s] = "used"
    /\ IF TotalUsedUp(s) THEN Leave(s)
                         ELSE Goto(s, "balance") /\ UNCHANGED req
    /\ UNCHANGED <<storeVars, caches, tokens, ledgers>>

-----------------------------------------------------------------------------
(* A helper's decision on a balance of q.  (Slip for the runs to catch: the *)
(* check of text dropped.)                                                  *)
SufficientAlways(s, q) == req[s].kind = "text" \/ q - req[s].cost >= 0

Sufficient(s, q) ==
    \/ req[s].kind = "text" /\ q > 0
    \/ req[s].kind = "transcription" /\ q >= 0
    \/ req[s].kind \in {"speech", "image"} /\ q - req[s].cost >= 0

(* Only speech pre-consumes (getPreConsumedQuota is 0), and only of a user  *)
(* who does not have more than 100 times the price.  (Slip for the runs to  *)
(* catch: it takes 100 times the price.)                                    *)
PreConsumedFactor(s, q) ==
    IF req[s].kind = "speech" /\ q <= 100 * req[s].cost THEN 100 * req[s].cost ELSE 0

PreConsumed(s, q) ==
    IF req[s].kind = "speech" /\ q <= 100 * req[s].cost THEN req[s].cost ELSE 0

Audio == {"speech", "transcription"}

Decide(s, q) ==
    \/ /\ ~Sufficient(s, q)
       /\ Leave(s)
    \/ /\ Sufficient(s, q)
       /\ req' = [req EXCEPT ![s].pre = PreConsumed(s, q)]
       /\ Goto(s, IF req[s].kind \in Audio /\ RedisEnabled THEN "reserve"
                  ELSE IF PreConsumed(s, q) > 0 THEN "preToken" ELSE "upstream")

(* CacheGetUserQuota: from the key if it holds more than PreConsumedQuota   *)
(* (0), else from the database, leaving what was read in the key.           *)
GetBalance(s) ==
    /\ pc[s] = "balance"
    /\ IF ~RedisEnabled THEN Decide(s, quota(User(s)))
       ELSE IF User(s) \in cached /\ cache[User(s)] > 0 THEN Decide(s, cache[User(s)])
       ELSE Goto(s, "fetch") /\ UNCHANGED req
    /\ UNCHANGED <<storeVars, caches, tokens, ledgers>>

FetchBalance(s) ==
    /\ pc[s] = "fetch"
    /\ See(s, quota(User(s)), "fill")
    /\ UNCHANGED <<storeVars, caches, tokens, ledgers>>

Fill(s) ==
    /\ cached' = cached \cup {User(s)}
    /\ cache' = [cache EXCEPT ![User(s)] = req[s].seen]

FillBalance(s) ==
    /\ pc[s] = "fill"
    /\ Fill(s)
    /\ Decide(s, req[s].seen)
    /\ UNCHANGED <<storeVars, tokens, ledgers>>

(* CacheDecreaseUserQuota: DECRBY, which starts a missing key at 0.  The    *)
(* price of a transcription is not known yet, and 0 is reserved.            *)
Reserved(s) == IF req[s].kind = "speech" THEN req[s].cost ELSE 0

Reserve(s) ==
    /\ pc[s] = "reserve"
    /\ cached' = cached \cup {User(s)}
    /\ cache' = [cache EXCEPT ![User(s)] =
                    (IF User(s) \in cached THEN @ ELSE 0) - Reserved(s)]
    /\ Goto(s, IF req[s].pre > 0 THEN "preToken" ELSE "upstream")
    /\ UNCHANGED <<storeVars, req, tokens, ledgers>>

Expire(u) ==
    /\ u \in cached
    /\ cached' = cached \ {u} /\ cache' = [cache EXCEPT ![u] = 0]
    /\ UNCHANGED <<storeVars, pc, req, tokens, ledgers>>

-----------------------------------------------------------------------------
(* PreConsumeTokenQuota(tok, pre).  A refusal ends the request: the key     *)
(* stays decremented, and nothing is given back.                            *)
PreCheckToken(s) ==
    /\ pc[s] = "preToken"
    /\ IF req[s].tok \in live /\ (req[s].tok \in Unlimited \/ remain(req[s].tok) >= req[s].pre)
       THEN Goto(s, "preUser") /\ UNCHANGED req
       ELSE Leave(s)
    /\ UNCHANGED <<storeVars, caches, tokens, ledgers>>

PreCheckUser(s) ==
    /\ pc[s] = "preUser"
    /\ IF quota(User(s)) >= req[s].pre
       THEN /\ Goto(s, IF req[s].tok \in Unlimited THEN "takeUser" ELSE "takeToken")
            /\ UNCHANGED req
       ELSE Leave(s)
    /\ UNCHANGED <<storeVars, caches, tokens, ledgers>>

TakeFromToken(s) ==
    /\ pc[s] = "takeToken"
    /\ Update(TokenQuota, req[s].tok, -req[s].pre)
    /\ Goto(s, "takeUser")
    /\ UNCHANGED <<req, caches, tokens, ledgers>>

TakeFromUser(s) ==
    /\ pc[s] = "takeUser"
    /\ Update(UserQuota, User(s), -req[s].pre)
    /\ Goto(s, "upstream")
    /\ UNCHANGED <<req, caches, tokens, ledgers>>

(* One of the two UPDATEs fails: the request is refused, and what the first *)
(* has taken from the token is not given back.                              *)
TakeFails(s) ==
    /\ pc[s] \in {"takeToken", "takeUser"}
    /\ Abandoned
    /\ leak' = [leak EXCEPT ![s][User(s)] =
                   IF pc[s] = "takeUser" /\ req[s].tok \notin Unlimited
                   THEN @ + req[s].pre ELSE @]
    /\ Leave(s)
    /\ UNCHANGED <<caches, tokens, offBook>>

-----------------------------------------------------------------------------
(* The upstream answers and the settling goroutine starts ...               *)
Answer(s) ==
    /\ pc[s] = "upstream"
    /\ Goto(s, "settle")
    /\ UNCHANGED <<storeVars, req, caches, tokens, ledgers>>

(* Slips for the runs to catch: nothing is given back; the price is, whether*)
(* it was pre-consumed or not.                                              *)
FailKeepsAll(s) ==
    /\ pc[s] = "upstream"
    /\ Leave(s)
    /\ UNCHANGED <<storeVars, caches, tokens, ledgers>>

FailReturnsPrice(s) ==
    /\ pc[s] = "upstream"
    /\ req' = [req EXCEPT ![s].kind = "rollback", ![s].pre = req[s].cost]
    /\ Goto(s, "settle")
    /\ UNCHANGED <<storeVars, caches, tokens, ledgers>>

(* ... or it does not, and the deferred function of RelayAudioHelper starts *)
(* a goroutine that gives back what was pre-consumed.                       *)
Fail(s) ==
    /\ pc[s] = "upstream"
    /\ IF req[s].pre > 0
       THEN /\ req' = [req EXCEPT ![s].kind = "rollback"]
            /\ Goto(s, "settle")
       ELSE Leave(s)
    /\ UNCHANGED <<storeVars, caches, tokens, ledgers>>

-----------------------------------------------------------------------------
(* PostConsumeTokenQuota(tok, Delta): the difference to the final price,    *)
(* which is nothing for a rollback.                                         *)
Price(s) == IF req[s].kind = "rollback" THEN 0 ELSE req[s].cost
Delta(s) == Price(s) - req[s].pre

(* Where the goroutine goes after it: CacheUpdateUserQuota, or nowhere.     *)
AfterCharge(s) ==
    IF req[s].kind = "rollback" THEN Leave(s)
    ELSE Goto(s, IF RedisEnabled THEN "refresh" ELSE "count") /\ UNCHANGED req

(* A token that is gone by now: neither it nor its user is charged.         *)
FindToken(s) ==
    /\ pc[s] = "settle"
    /\ IF req[s].tok \in live
       THEN Goto(s, "chargeUser") /\ UNCHANGED <<req, offBook>>
       ELSE /\ AfterCharge(s)
            /\ offBook' = [offBook EXCEPT ![s][User(s)] = @ - Delta(s)]
    /\ UNCHANGED <<storeVars, caches, tokens, leak>>

(* Slip for the runs to catch: a rollback that stops at the user.           *)
AfterUserStops(s) ==
    IF req[s].tok \in Unlimited \/ req[s].kind = "rollback" THEN AfterCharge(s)
    ELSE Goto(s, "chargeToken") /\ UNCHANGED req

AfterUser(s) ==
    IF req[s].tok \in Unlimited THEN AfterCharge(s)
    ELSE Goto(s, "chargeToken") /\ UNCHANGED req

ChargeUser(s) ==
    /\ pc[s] = "chargeUser"
    /\ Update(UserQuota, User(s), -Delta(s))
    /\ AfterUser(s)
    /\ UNCHANGED <<caches, tokens, ledgers>>

(* A failed UPDATE of the user is forgotten: the token is charged even so.  *)
ChargeUserFails(s) ==
    /\ pc[s] = "chargeUser"
    /\ UpdateFails(UserQuota, User(s), -Delta(s))
    /\ AfterUser(s)
    /\ UNCHANGED <<caches, tokens, ledgers>>

ChargeToken(s) ==
    /\ pc[s] = "chargeToken"
    /\ \/ Update(TokenQuota, req[s].tok, -Delta(s))
       \/ UpdateFails(TokenQuota, req[s].tok, -Delta(s))
    /\ AfterCharge(s)
    /\ UNCHANGED <<caches, tokens, ledgers>>

-----------------------------------------------------------------------------
(* CacheUpdateUserQuota: CacheGetUserQuota once more, and the value it      *)
(* returned written back, with a new lifetime.                              *)
Refresh(s) ==
    /\ pc[s] = "refresh"
    /\ IF User(s) \in cached /\ cache[User(s)] > 0
       THEN See(s, cache[User(s)], "store")
       ELSE Goto(s, "refetch") /\ UNCHANGED req
    /\ UNCHANGED <<storeVars, caches, tokens, ledgers>>

(* Slip for the runs to catch: the refetched value is stored and looked up *)
(* again, for ever.                                                         *)
StoreAgain(s) ==
    /\ pc[s] \in {"refill", "store"}
    /\ Fill(s)
    /\ Goto(s, "refresh")
    /\ UNCHANGED <<storeVars, req, tokens, ledgers>>

Refetch(s) ==
    /\ pc[s] = "refetch"
    /\ See(s, quota(User(s)), "refill")
    /\ UNCHANGED <<storeVars, caches, tokens, ledgers>>

Store(s) ==
    /\ pc[s] \in {"refill", "store"}
    /\ Fill(s)
    /\ Goto(s, IF pc[s] = "refill" THEN "store" ELSE "count")
    /\ UNCHANGED <<storeVars, req, tokens, ledgers>>

(* UpdateUserUsedQuotaAndRequestCount, after the consume log; skipped with  *)
(* the log for anything but text that turns out to be free.                 *)
Count(s) ==
    /\ pc[s] = "count"
    /\ IF req[s].kind = "text" \/ req[s].cost # 0
       THEN /\ \/ UpdateUsedAndCount(User(s), req[s].cost)
               \/ UsedAndCountFails(User(s), req[s].cost)
            /\ Goto(s, "channel") /\ UNCHANGED req
       ELSE Leave(s) /\ UNCHANGED storeVars
    /\ UNCHANGED <<caches, tokens, ledgers>>

CountChannel(s) ==
    /\ pc[s] = "channel"
    /\ \/ Update(ChannelUsedQuota, Channel, req[s].cost)
       \/ UpdateFails(ChannelUsedQuota, Channel, req[s].cost)
    /\ Leave(s)
    /\ UNCHANGED <<caches, tokens, ledgers>>

-----------------------------------------------------------------------------
(* What slot s has taken from user u and not yet counted as used.           *)
Uncounted(s, u) ==
    IF User(s) # u THEN 0
    ELSE IF pc[s] \in {"upstream", "settle", "chargeUser"} THEN req[s].pre
    ELSE IF pc[s] \in {"chargeToken", "refresh", "refetch", "refill", "store", "count"}
         THEN Price(s)
    ELSE 0

(* What it has taken from a limited token of u more than from u.            *)
TokenAhead(s, u) ==
    IF User(s) # u \/ req[s].tok \in Unlimited THEN 0
    ELSE IF pc[s] = "takeUser" THEN req[s].pre
    ELSE IF pc[s] = "chargeToken" THEN -Delta(s)
    ELSE 0

(* The process dies with every request and every settling goroutine in it.  *)
Die ==
    /\ Crash
    /\ offBook' = [s \in Slots |-> [u \in Users |-> offBook[s][u] + Uncounted(s, u)]]
    /\ leak' = [s \in Slots |-> [u \in Users |-> leak[s][u] + TokenAhead(s, u)]]
    /\ pc' = [s \in Slots |-> "idle"]
    /\ req' = [s \in Slots |-> Blank]
    /\ UNCHANGED <<caches, tokens>>

(* The upstream's part is to answer or to fail; the rest is the server's.   *)
Upstream(s) == Answer(s) \/ Fail(s)

Proceed(s) ==
    \/ CheckQuota(s) \/ CheckUsed(s)
    \/ GetBalance(s) \/ FetchBalance(s) \/ FillBalance(s) \/ Reserve(s)
    \/ PreCheckToken(s) \/ PreCheckUser(s) \/ TakeFromToken(s) \/ TakeFromUser(s)
    \/ TakeFails(s)
    \/ FindToken(s) \/ ChargeUser(s) \/ ChargeUserFails(s) \/ ChargeToken(s)
    \/ Refresh(s) \/ Refetch(s) \/ Store(s)
    \/ Count(s) \/ CountChannel(s)

Step(s) == Proceed(s) \/ Upstream(s)

Next ==
    \/ \E s \in Slots, t \in Tokens, k \in Kinds, c \in Costs : Arrive(s, t, k, c)
    \/ \E s \in Slots : Step(s)
    \/ \E t \in Tokens : Exhaust(t) \/ Delete(t)
    \/ \E u \in Users : Expire(u)
    \/ Updater /\ UNCHANGED billingVars
    \/ \E i \in Ids : ApplyFails(i) /\ UNCHANGED billingVars
    \/ Die

Spec == Init /\ [][Next]_vars

(* Goroutines are scheduled, and databases answer or fail.  The upstream    *)
(* need not: RELAY_TIMEOUT is 0 by default, and the client waits for ever.  *)
FairSpec == Spec /\ \A s \in Slots : WF_vars(Proceed(s))

-----------------------------------------------------------------------------
Labels == {"idle", "quota", "used", "balance", "fetch", "fill", "reserve",
           "preToken", "preUser", "takeToken", "takeUser", "upstream", "settle",
           "chargeUser", "chargeToken", "refresh", "refetch", "refill", "store",
           "count", "channel"}

Requests == [kind : Kinds \cup {"none", "rollback"}, tok : Tokens,
             cost : 0..MaxCost, pre : 0..MaxCost, seen : Int]

TypeOK ==
    /\ StoreTypeOK
    /\ pc \in [Slots -> Labels]
    /\ req \in [Slots -> Requests]
    /\ cached \subseteq Users /\ cache \in [Users -> Int]
    /\ live \subseteq Tokens /\ exhausted \subseteq Tokens
    /\ requests \in 0..MaxRequests
    /\ offBook \in [Slots -> [Users -> Int]]
    /\ leak \in [Slots -> [Users -> Int]]

(* Requests of u that passed the balance check and have yet to take their   *)
(* price.                                                                   *)
Charging(u) ==
    {s \in Slots :
        /\ User(s) = u
        /\ \/ pc[s] \in {"preToken", "preUser", "takeToken", "takeUser"}
           \/ pc[s] \in {"upstream", "settle", "chargeUser"} /\ req[s].pre = 0}

(* Nothing is held back while a request runs, so a balance can go negative; *)
(* but it is read anew for every request, so the debt never exceeds the     *)
(* price of the requests that overlap.  Stated in the form in which it is   *)
(* inductive: a request on its way uses up its share of the bound.          *)
OverdraftBounded ==
    \A u \in Users :
        quota(u) >= MaxCost * (Cardinality(Charging(u)) - Cardinality(Slots))

(* Balance and used_quota of a user always add up to the grant, but for     *)
(* what is on its way from one to the other and what offBook accounts for:  *)
(* a token deleted under a request, and a crash.  Effective columns include *)
(* what the updater holds and what failed UPDATEs dropped.                  *)
Ledger ==
    \A u \in Users :
        Effective["users.quota"][u] + Effective["users.used_quota"][u]
            + SumFunction([s \in Slots |-> Uncounted(s, u) + offBook[s][u]])
            = Grant[u]

(* What the limited tokens of a user have used is what the user has paid,   *)
(* through pre-consumption, settlement and rollback.                        *)
TokenLedger ==
    \A u \in Users :
        LET owned == {t \in Tokens : Owner[t] = u} IN
        owned \cap Unlimited = {} =>
            SumFunction([t \in owned |-> Effective["tokens.used_quota"][t]])
                = Grant[u] - Effective["users.quota"][u]
                  + SumFunction([s \in Slots |-> TokenAhead(s, u) + leak[s][u]])

(* Pre-consuming and giving back create no quota: neither a balance nor the *)
(* copy of it in Redis ever exceeds the grant.                              *)
NothingCreated ==
    \A u \in Users : quota(u) <= Grant[u] /\ cache[u] <= Grant[u]

(* Every request is refused or gets to the upstream, and is rolled back or  *)
(* settled in the end once the upstream has answered or failed.             *)
EventuallySettled ==
    \A s \in Slots :
        /\ pc[s] # "idle" ~> pc[s] \in {"upstream", "idle"}
        /\ pc[s] \in {"settle", "chargeUser", "chargeToken", "refresh", "refetch", "refill",
                      "store", "count", "channel"} ~> pc[s] = "idle"

-----------------------------------------------------------------------------
(* What documents and comments of the repository say, and the code does not *)
(* keep; the README says how to see it.                                    *)

(* docs/USER_QUOTA_DESIGN.md: a user whose quota is insufficient is refused.*)
(* Here: if QuotaCheck has seen a negative balance and it still is, the     *)
(* helper does not let the request pass.                                    *)
OverdrawnIsRefused ==
    [][\A s \in Slots :
          pc[s] = "balance" /\ req[s].seen < 0 /\ quota(User(s)) < 0
             => pc'[s] \in {"balance", "fetch", "idle"}]_vars

(* model/token.go: a token marked exhausted without Redis surely is: nothing*)
(* is left on it once no request is under way.                              *)
SurelyExhausted ==
    (\A s \in Slots : pc[s] = "idle") =>
        \A t \in exhausted : remain(t) <= 0
===============================================================================
