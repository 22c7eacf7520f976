------------------------------ MODULE Wallet ------------------------------
(***************************************************************************)
(* Users of one account and the block producers of module Producers: the   *)
(* transactions of the driver (src/client/driver.go) and the commands      *)
(* create, transfer, grant and wallet of cql (src/cmd/cql/internal).       *)
(*                                                                         *)
(* A user is a process with a driver of its own. It takes a nonce from its *)
(* block producer, sends a transaction with it, and may wait until it is   *)
(* confirmed; who creates a database may wait until that can be used. The  *)
(* database is named by the nonce. The miners are outside.                 *)
(***************************************************************************)
EXTENDS Producers

CONSTANT
  Scenarios   \* [total, last, lag, faults, users: user -> [kind, wait, cli, look, bp]],
              \* where wait is "no", "tx" or "db"

VARIABLES
  does,   \* what each user does, from the scenario
  user    \* see Fresh

vars == <<bpVars, does, user>>

Fresh ==
  [pc       |-> "init",
   driver   |-> "off",    \* driverInitialized is set in all others
   nonce    |-> -1,
   then     |-> "none",   \* what follows when the transaction is confirmed
   result   |-> "none",
   peers    |-> {},       \* peerList: the profile it was read from
   shown    |-> 0,        \* how many parts of the wallet were shown
   balance  |-> {},       \* the transactions the balance shows
   deposits |-> {}]       \* the databases, with their deposits

Init ==
  \E s \in Scenarios :
    /\ total = s.total /\ last = s.last /\ lag = s.lag
    /\ faults = s.faults /\ does = s.users
    /\ ProducersInit
    /\ user = [u \in DOMAIN s.users |-> Fresh]

BP(u) == does[u].bp

\* The transaction of user u.
Tx(u) == [owner |-> u, kind |-> does[u].kind, nonce |-> user[u].nonce]

Goes(u, pc) == user' = [user EXCEPT ![u].pc = pc]
Ends(u, result) == user' = [user EXCEPT ![u].pc = "done", ![u].result = result]

\* A call to the block producer fails.
Failing == faults > 0 /\ faults' = faults - 1

calm == <<total, last, lag, now, made, advice, strays, aborts>>

--------------------------------------------------------------------------
\* configInit: a command ends when the driver cannot be initialised. Another
\* program may go on.
configInit(u, d) ==
  user' = [user EXCEPT ![u].driver = d,
                       ![u].pc = IF does[u].cli THEN "done" ELSE "ready",
                       ![u].result = IF does[u].cli THEN "error" ELSE @]

\* A command does not take its arguments (runCreate, runTransfer, runGrant).
BadArguments(u) ==
  /\ user[u].pc = "init" /\ does[u].cli
  /\ Ends(u, "usage")
  /\ UNCHANGED <<bpVars, does>>

\* Init of the driver. The flag is set first and stays set when the rest fails:
\* without a configuration or a key there is no key, and when the node cannot be
\* registered the rest can be used.
InitDriver(u) ==
  /\ user[u].pc = "init"
  /\ \/ /\ user' = [user EXCEPT ![u].driver = "on", ![u].pc = "ready"]
        /\ UNCHANGED faults
     \/ Failing /\ \E d \in {"keyless", "unregistered"} : configInit(u, d)
  /\ UNCHANGED <<calm, bp, adding, does>>

\* The nonce a transaction is made with.
getNonce(u) ==
  /\ user[u].pc = "ready"
  /\ \/ /\ user[u].driver = "keyless"
        /\ Ends(u, "error") /\ UNCHANGED faults
     \/ /\ user[u].driver # "keyless"
        /\ \/ /\ user' = [user EXCEPT ![u].nonce = NextAccountNonce(BP(u)),
                                      ![u].pc = "send"]
              /\ UNCHANGED faults
           \/ Failing /\ Ends(u, "error")
  /\ UNCHANGED <<calm, bp, adding, does>>

\* requestBP(AddTx): it waits at the producer, or does not get there.
AddTx(u, ttl) ==
  \/ /\ Goes(u, "sending") /\ UNCHANGED faults
     /\ adding' = adding \union {[to |-> BP(u), tx |-> Tx(u), ttl |-> ttl,
                                  from |-> "user", checked |-> FALSE]}
  \/ Failing /\ Ends(u, "error") /\ UNCHANGED adding

\* Only the transaction of Create may be broadcast.
Create(u) == does[u].kind = "create" /\ AddTx(u, 1)
TransferToken(u) == does[u].kind = "transfer" /\ AddTx(u, 0)
UpdatePermission(u) == does[u].kind = "grant" /\ AddTx(u, 0)

Send(u) ==
  /\ user[u].pc = "send"
  /\ Create(u) \/ TransferToken(u) \/ UpdatePermission(u)
  /\ UNCHANGED <<calm, bp, does>>

\* What follows a transaction that was sent. A command waits for it if it was told
\* to, and then for the database if it has created one. Another program may wait for
\* the database at once, and cql console does for whatever database it is given.
Waits(u, then) ==
  \/ does[u].wait = "no" /\ Ends(u, "sent")
  \/ does[u].wait = "tx" /\ user' = [user EXCEPT ![u].pc = "wait", ![u].then = then]
  \/ does[u].wait = "db" /\ Goes(u, "creating")

runCreate(u) == does[u].kind = "create" /\ Waits(u, "creating")
runTransfer(u) == does[u].kind = "transfer" /\ Waits(u, "done")
runGrant(u) == does[u].kind = "grant" /\ Waits(u, "done")

\* The AddTx call returns, or its answer is lost.
Sent(u) ==
  /\ user[u].pc = "sending"
  /\ \E r \in adding : r.from = "user" /\ r.tx = Tx(u) /\ Take(r)
  /\ \/ (runCreate(u) \/ runTransfer(u) \/ runGrant(u)) /\ UNCHANGED faults
     \/ Failing /\ Ends(u, "error")
  /\ UNCHANGED <<calm, does>>

\* wait: every final state but one is an error.
Settled(state) == state = "confirmed"

\* WaitTxConfirmation asks every second; a state that is not found is final,
\* and wait makes an error of it. The context may end.
WaitTxConfirmation(u) ==
  /\ user[u].pc = "wait"
  /\ LET state == QueryTxState(BP(u), Tx(u))
     IN  \/ /\ state \notin {"pending", "packed"}
            /\ IF Settled(state)
               THEN user' = [user EXCEPT ![u].pc = user[u].then,
                                         ![u].result = "confirmed"]
               ELSE Ends(u, "bad state")
            /\ UNCHANGED faults
         \/ state \in {"pending", "packed"} /\ Ends(u, "timeout") /\ UNCHANGED faults
         \/ Failing /\ Ends(u, "error")
  /\ UNCHANGED <<calm, bp, adding, does>>

\* getPeers reads the miners from the profile, and keeps them.
getPeers(u) == QuerySQLChainProfile(BP(u), user[u].nonce)

cacheGetPeers(u) == IF user[u].peers # {} THEN user[u].peers ELSE getPeers(u)

\* WaitBPDatabaseCreation: once there is a profile, a query on a connection to
\* its miners, which may not have the database yet. The context may end.
WaitDBCreation(u) ==
  /\ user[u].pc = "creating"
  /\ \/ /\ getPeers(u) # {}
        /\ \E ok \in BOOLEAN :
             user' = [user EXCEPT
                        ![u].peers = cacheGetPeers(u),
                        ![u].pc = IF ok THEN "done" ELSE @,
                        ![u].result = IF ok THEN "created" ELSE @]
        /\ UNCHANGED faults
     \/ Ends(u, "timeout") /\ UNCHANGED faults
     \/ Failing /\ Ends(u, "error")
  /\ UNCHANGED <<calm, bp, adding, does>>

\* Open of a database whose creation was not waited for.
Open(u) ==
  /\ user[u].pc = "done" /\ does[u].kind = "create"
  /\ user[u].result \in {"sent", "timeout"} /\ user[u].peers = {}
  /\ cacheGetPeers(u) # {}
  /\ user' = [user EXCEPT ![u].peers = cacheGetPeers(u)]
  /\ UNCHANGED <<bpVars, does>>

\* runWallet shows the balance, and then with another call the deposits in the
\* account's databases. It is a command of its own.
GetTokenBalance(u) == Immutable(BP(u))

showAllTokenBalance(u) ==
  /\ user[u].shown = 0
  /\ user' = [user EXCEPT ![u].shown = 1, ![u].balance = GetTokenBalance(u)]

showAllDatabaseDeposit(u) ==
  /\ user[u].shown = 1
  /\ user' = [user EXCEPT ![u].shown = 2,
                          ![u].deposits = queryAccountSQLChainProfiles(BP(u))]

runWallet(u) ==
  /\ does[u].look /\ user[u].pc = "done" /\ user[u].driver = "on"
  /\ showAllTokenBalance(u) \/ showAllDatabaseDeposit(u)
  /\ UNCHANGED <<bpVars, does>>

UserStep(u) ==
  \/ BadArguments(u) \/ InitDriver(u) \/ getNonce(u) \/ Send(u) \/ Sent(u)
  \/ WaitTxConfirmation(u) \/ WaitDBCreation(u) \/ Open(u) \/ runWallet(u)

Next ==
  \/ ProducersNext /\ UNCHANGED <<does, user>>
  \/ \E u \in DOMAIN user : UserStep(u)

\* The clock goes on, calls that are under way arrive unless they fail, and the
\* goroutines of a producer run.
Fairness ==
  /\ WF_bpVars(Tick \/ AdviseNewBlock)
  /\ \A p \in 0..2 : WF_bpVars(p \in Producer /\ (mainCycle(p) \/ processBlocks(p)))

Spec == Init /\ [][Next]_vars /\ Fairness

--------------------------------------------------------------------------
(* Properties *)

Longest == Max({Count(made, b) : b \in DOMAIN made})

\* The irreversible blocks of all producers are on one chain.
Agree ==
  \A p, q \in Producer :
    \/ bp[p].irre \in Chain(made, bp[q].irre)
    \/ bp[q].irre \in Chain(made, bp[p].irre)

\* A producer builds on a longest chain there is, whichever broadcasts were lost, whoever is
\* late and whatever forks there are: a fork lasts no longer than until a producer that has
\* applied what it fetched takes its turn (syncCurrentHead, advanceNextHeight). mainCycle
\* goes on while processBlocks still has the block it was handed (blockingFetchBlock): then
\* the new block may be beside the longest chain, and at most one block behind it. This is
\* so until a fetched block is dropped, when what follows it has no parent there and is not
\* asked for again, or until the forks of producers that never wait have become irreversible.
BuildsOnLongest ==
  [][\A b \in DOMAIN made' \ DOMAIN made :
       LET held == Cardinality(bp[b % total].pushing)
       IN  aborts = 0 /\ Agree => Count(made', b) + held > Longest]_vars

\* When no one builds beside the longest chain, all producers end with the same
\* head, whichever broadcasts were lost (AdviseNewBlock, FetchBlock).
Converge ==
  <>[](\/ strays > 0 \/ aborts > 0
       \/ \A p, q \in Producer : bp[p].head = bp[q].head)

\* Who was told that a transaction is confirmed (WaitTxConfirmation) finds it in
\* the balance of the same producer and a new database among the deposits, and
\* what the balance has been charged for is among the deposits shown after it. When
\* the transaction is a Create and the database was waited for then, the database is
\* the one this user has created. Who waits for it without a confirmation may be given
\* that of another Create, which was given the same nonce and hence the same name.
ReadYourWrites ==
  \A u \in DOMAIN user :
    LET x == user[u]
        told == strays = 0 /\ x.then # "none" /\ x.result \in {"confirmed", "created"}
        databases == {t \in x.balance : t.kind = "create"}
    IN  /\ told /\ x.shown >= 1 => Tx(u) \in x.balance
        /\ x.shown = 2 => databases \subseteq x.deposits
        /\ told /\ x.result = "created" => x.peers = {Tx(u)}

=============================================================================
