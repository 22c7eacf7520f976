------------------------------ MODULE MetaState ------------------------------
(***************************************************************************)
(* The meta state of the main chain (src/blockproducer/metastate.go): what *)
(* the transactions do to account balances, to the deposits of providers   *)
(* and to the SQL chain profiles, where the tokens of a database are held. *)
(*                                                                         *)
(* The state is the merged view of the dirty and the readonly index, which *)
(* all handlers read; nonces and the commit of an index are in BPChain.  A *)
(* step is a transaction apply accepts.  One it rejects is in no block; it *)
(* leaves at most an empty receiver account behind (loadOrStoreAccount-    *)
(* Object in transferAccountToken), and every account exists here from the *)
(* start.  There is one token type (Particle): a database of another one   *)
(* finds no provider.  Heights are past BPHeightCIPFixProvideService and   *)
(* UpdateBilling has a version above 0.  Sums stay below 2^64.             *)
(*                                                                         *)
(* BaseAccount transactions are left out: base accounts come from the      *)
(* genesis configuration, whose balances are the initial ones here.        *)
(***************************************************************************)
EXTENDS Integers, FiniteSets, Sequences, SequencesExt, FiniteSetsExt, Functions

CONSTANTS
  Users,               \* accounts that own or use databases
  MinProviderDeposit,  \* conf.GConf.MinProviderDeposit
  DepositUnit,         \* conf.GConf.QPS * conf.GConf.BillingBlockCount
  Cases                \* the miners, balances and transactions to choose from

ASSUME MetaStateAssumption ==
  /\ MinProviderDeposit \in Nat /\ DepositUnit \in Nat \ {0}
  /\ IsFiniteSet(Users)
  /\ \A c \in Cases :
       /\ IsFiniteSet(c.miners) /\ c.miners \subseteq Nat /\ Users \cap c.miners = {}
       /\ c.balance \in [Users \cup c.miners -> Nat]
       /\ c.gasPrices \subseteq Nat \ {0}
       /\ c.advances \subseteq Nat /\ c.amounts \subseteq Nat \ {0}
       /\ c.targetUsers \subseteq SUBSET Users
       /\ \A t \in c.targetMiners : t \in Seq(c.miners)
       /\ c.cost \in Seq([Users -> Nat])
       /\ c.creates \in Nat

VARIABLES
  balance,    \* TokenBalance[Particle] of each account
  provider,   \* ProviderProfile of each miner that waits for a database
  databases,  \* SQLChainProfile of each database, in order of creation
  created,    \* history: the number of CreateDatabase transactions accepted
  case        \* the member of Cases, for good

vars == <<balance, provider, databases, created, case>>

Miners == case.miners             \* accounts that provide service, ordered as their node IDs
Accounts == Users \cup Miners

\* What transactions carry.
GasPrices == case.gasPrices
Advances == case.advances
Amounts == case.amounts
TargetUsers == case.targetUsers
TargetMiners == case.targetMiners
Permissions == case.permissions

Cost == case.cost                 \* what each user's queries cost in each SQL chain block
MaxCreates == case.creates        \* bound on the CreateDatabase transactions

Init ==
  /\ case \in Cases
  /\ balance = case.balance
  /\ provider = <<>>
  /\ databases = <<>>
  /\ created = 0

MinerSet(db) == {db.miners[i].address : i \in DOMAIN db.miners}

\* safeSub succeeds.
safeSub(x, y) == y <= x

\* The balances b with more on account a, and with less, which may fail.
increaseAccountToken(b, a, amount) == [b EXCEPT ![a] = @ + amount]

decreaseAccountToken(b, a, amount) ==
  /\ safeSub(b[a], amount)
  /\ balance' = [b EXCEPT ![a] = @ - amount]

minDeposit(gasPrice, minerNumber) == gasPrice * DepositUnit * minerNumber

-----------------------------------------------------------------------------
(***************************************************************************)
(* Transfers                                                               *)
(***************************************************************************)
transferAccountToken(sender, receiver, amount) ==
  /\ sender # receiver
  /\ safeSub(balance[sender], amount)
  /\ balance' = [balance EXCEPT ![sender] = @ - amount, ![receiver] = @ + amount]
  /\ UNCHANGED <<provider, databases, created, case>>

EnableQuery(status) == status \in {"Normal", "Reminder"}

\* A user's share in a database after a transfer: the deposit is filled up to
\* minDep first, the rest is advance payment.
Deposited(user, amount, minDep) ==
  LET missing == IF user.deposit < minDep THEN minDep - user.deposit ELSE 0
      fill    == IF missing >= amount THEN amount ELSE missing
      advance == user.advance + (amount - fill)
  IN  [user EXCEPT !.deposit = @ + fill,
                   !.advance = advance,
                   !.status = IF ~EnableQuery(@) /\ advance > minDep THEN "Normal" ELSE @]

\* Arrears are paid: every miner's pending income gets what its list of arrears
\* has for the user.  The new list is not stored, and user.Arrears is 0 when it
\* is subtracted from the amount.
PaidArrears(db, u) ==
  [db EXCEPT
     !.users[u].arrears = 0,
     !.users[u].status = "Normal",
     !.miners = [i \in DOMAIN @ |-> [@[i] EXCEPT !.pending = @ + db.miners[i].arrears[u]]]]

\* A sender that is no user of the database succeeds without any effect.
transferSQLChainTokenBalance(sender, d, amount) ==
  LET db   == databases[d]
      owes == db.users[sender].arrears
      paid == IF owes > 0 THEN PaidArrears(db, sender) ELSE db
  IN  /\ safeSub(balance[sender], amount)
      /\ IF sender \notin DOMAIN db.users THEN UNCHANGED <<balance, databases>>
         ELSE /\ owes <= amount
              /\ databases' = [databases EXCEPT ![d] =
                   [paid EXCEPT !.users[sender] =
                      Deposited(@, amount, minDeposit(db.gasPrice, Len(db.miners)))]]
              /\ balance' = [balance EXCEPT ![sender] = @ - amount]
      /\ UNCHANGED <<provider, created, case>>

-----------------------------------------------------------------------------
(***************************************************************************)
(* Providers and databases                                                 *)
(***************************************************************************)
\* Mutant: the deposit of the profile that is replaced is lost.
NoRefund(sender) == 0

Refund(sender) == IF sender \in DOMAIN provider THEN provider[sender].deposit ELSE 0

updateProviderList(sender, gasPrice, targetUser) ==
  /\ decreaseAccountToken(increaseAccountToken(balance, sender, Refund(sender)),
                          sender, MinProviderDeposit)
  /\ provider' = [m \in DOMAIN provider \cup {sender} |->
                    IF m # sender THEN provider[m]
                    ELSE [deposit |-> MinProviderDeposit, gasPrice |-> gasPrice,
                          targetUser |-> targetUser]]
  /\ UNCHANGED <<databases, created, case>>

\* Whether filterAndAppendMiner takes a provider.  The gas price stands for all
\* the terms isProviderReqMatch compares.
Matches(m, user, gasPrice) ==
  /\ m \in DOMAIN provider
  /\ provider[m].targetUser = {} \/ user \in provider[m].targetUser
  /\ provider[m].gasPrice <= gasPrice

\* The candidates of filterNMiners, by node ID: providers that are no targets.
filterMiners(targets, user, gasPrice) ==
  SetToSortSeq({m \in Miners \ ToSet(targets) : Matches(m, user, gasPrice)}, <)

\* The candidates for a database of n miners: the targets that match and, when
\* fewer than n targets were named, the other providers.  A target that is named
\* twice is taken twice: the loop looks at no earlier one.
Candidates(targets, user, gasPrice, n) ==
  SelectSeq(targets, LAMBDA m : Matches(m, user, gasPrice))
    \o IF Len(targets) < n THEN filterMiners(targets, user, gasPrice) ELSE <<>>

\* A transaction with n targets or more, not all of which match, fails with the
\* error of the last target: there is none when the last one matches, and the
\* transaction is accepted without a database.
matchProvidersWithUser(sender, gasPrice, n, advance, targets) ==
  LET minAdvance == minDeposit(gasPrice, n)
      candidates == Candidates(targets, sender, gasPrice, n)
      miners     == SubSeq(candidates, 1, n)
  IN  /\ created < MaxCreates
      /\ advance >= minAdvance
      /\ \/ /\ Len(candidates) >= n
            /\ decreaseAccountToken(balance, sender, minAdvance + advance)
            /\ databases' = Append(databases,
                 [gasPrice |-> gasPrice,
                  last     |-> 0,
                  miners   |-> [i \in 1..n |->
                                  [address |-> miners[i],
                                   deposit |-> provider[miners[i]].deposit,
                                   pending |-> 0, received |-> 0,
                                   arrears |-> [u \in Users |-> 0]]],
                  users    |-> [u \in {sender} |->
                                  [permission |-> "Admin", status |-> "Normal",
                                   deposit |-> minAdvance, advance |-> advance,
                                   arrears |-> 0]]])
            /\ provider' = Restrict(provider, DOMAIN provider \ ToSet(miners))
         \/ /\ Len(candidates) < n
            /\ Len(targets) >= n
            /\ Matches(Last(targets), sender, gasPrice)
            /\ UNCHANGED <<balance, databases, provider>>
      /\ created' = created + 1 /\ UNCHANGED case

-----------------------------------------------------------------------------
(***************************************************************************)
(* Permissions and keys                                                    *)
(***************************************************************************)
SuperUsers(db) == {u \in DOMAIN db.users : db.users[u].permission = "Admin"}

\* The test of the sender in updatePermission and updateKeys.
Permitted(db, sender) == sender \in DOMAIN db.users => sender \in SuperUsers(db)

\* The condition of ErrNoSuperUserLeft.
NoSuperUserLeft(db, sender, target, permission) ==
  Cardinality(SuperUsers(db)) <= 1 /\ target = sender /\ permission # "Admin"

NewUser(permission) ==
  [permission |-> permission, status |-> "UnknownStatus",
   deposit |-> 0, advance |-> 0, arrears |-> 0]

updatePermission(sender, d, target, permission) ==
  LET db == databases[d]
  IN  /\ Permitted(db, sender)
      /\ ~NoSuperUserLeft(db, sender, target, permission)
      /\ databases' = [databases EXCEPT ![d].users =
           [u \in DOMAIN db.users \cup {target} |->
              IF u # target THEN db.users[u]
              ELSE IF u \in DOMAIN db.users
                   THEN [db.users[u] EXCEPT !.permission = permission]
                   ELSE NewUser(permission)]]
      /\ UNCHANGED <<balance, provider, created, case>>

\* The keys are set in a copy of the profile that is not stored: an IssueKeys
\* transaction that is accepted changes nothing.
updateKeys(sender, d) == Permitted(databases[d], sender) /\ UNCHANGED vars

-----------------------------------------------------------------------------
(***************************************************************************)
(* Billing                                                                 *)
(***************************************************************************)
\* The queries of user u in block h; checkPermission of the miners lets no user
\* query who never had a status that enables it.
Spent(db, u, h) == IF db.users[u].status = "UnknownStatus" THEN 0 ELSE Cost[h][u]

\* What the blocks in (from, to] cost user u.
Due(db, u, from, to) ==
  db.gasPrice * MapThenSumSet(LAMBDA h : Spent(db, u, h), (from + 1)..to)

\* The part of it that is income of the account at place i of the miners, which
\* answer in turns; an account at two places has it at each of them.
Income(db, u, i, from, to) ==
  LET Turn(h) == db.miners[(h % Len(db.miners)) + 1].address
  IN  db.gasPrice * MapThenSumSet(LAMBDA h : Spent(db, u, h),
                                  {h \in (from + 1)..to : Turn(h) = db.miners[i].address})

\* uint64(float64(income) * rate): a whole product may come out just below.
Scaled(income, advance, due, below) ==
  LET p == income * advance
  IN  IF below /\ p > 0 /\ p % due = 0 THEN (p \div due) - 1 ELSE p \div due

\* Pending income is received.  A user whose advance payment covers the cost pays
\* it; another pays all it has, in proportion, and is in arrears for the rest.
Billed(db, from, to, below) ==
  LET Cov(u)     == db.users[u].advance >= Due(db, u, from, to)
      Inc(u, i)  == Income(db, u, i, from, to)
      Paid(u, i) == IF Cov(u) THEN Inc(u, i)
                    ELSE Scaled(Inc(u, i), db.users[u].advance, Due(db, u, from, to), below)
      Owed(u, i) == Inc(u, i) - Paid(u, i)
  IN  [db EXCEPT
         !.last = to,
         !.users = [u \in DOMAIN db.users |->
            IF Cov(u) THEN [db.users[u] EXCEPT !.advance = @ - Due(db, u, from, to)]
            ELSE [db.users[u] EXCEPT
                    !.advance = 0,
                    !.status = "Arrears",
                    !.arrears = @ + MapThenSumSet(LAMBDA i : Owed(u, i), DOMAIN db.miners)]],
         !.miners = [i \in DOMAIN db.miners |-> [db.miners[i] EXCEPT
            !.received = @ + db.miners[i].pending,
            !.pending = MapThenSumSet(LAMBDA u : Paid(u, i), DOMAIN db.users),
            !.arrears = [u \in Users |->
               db.miners[i].arrears[u] + IF u \in DOMAIN db.users THEN Owed(u, i) ELSE 0]]]]

\* Mutant: a range may start below the last billed height.
RangeFromBelow(db, from, to) == from < to /\ db.last >= from

\* The range test of updateBilling.
ValidRange(db, from, to) == from < to /\ db.last = from

updateBilling(sender, d, from, to) ==
  /\ ValidRange(databases[d], from, to)
  /\ sender \in MinerSet(databases[d])
  /\ \E below \in BOOLEAN :
       databases' = [databases EXCEPT ![d] = Billed(@, from, to, below)]
  /\ UNCHANGED <<balance, provider, created, case>>

-----------------------------------------------------------------------------
Transfer == \E s, r \in Accounts, a \in Amounts : transferAccountToken(s, r, a)

TransferToDatabase ==
  \E s \in Users, d \in DOMAIN databases, a \in Amounts : transferSQLChainTokenBalance(s, d, a)

ProvideService ==
  \E m \in Miners, g \in GasPrices, t \in TargetUsers : updateProviderList(m, g, t)

CreateDatabase ==
  \E u \in Users, g \in GasPrices, n \in 1..Cardinality(Miners), a \in Advances,
     t \in TargetMiners : matchProvidersWithUser(u, g, n, a, t)

UpdatePermission ==
  \E s, t \in Users, d \in DOMAIN databases, p \in Permissions : updatePermission(s, d, t, p)

IssueKeys == \E s \in Users, d \in DOMAIN databases : updateKeys(s, d)

UpdateBilling ==
  \E m \in Miners, d \in DOMAIN databases, from, to \in 0..Len(Cost) :
    updateBilling(m, d, from, to)

Next ==
  \/ Transfer
  \/ TransferToDatabase
  \/ ProvideService
  \/ CreateDatabase
  \/ UpdatePermission
  \/ IssueKeys
  \/ UpdateBilling

Spec == Init /\ [][Next]_vars

-----------------------------------------------------------------------------
(***************************************************************************)
(* Properties                                                              *)
(***************************************************************************)
\* The places of miners that are named before.
Repeats(db) ==
  {i \in DOMAIN db.miners : \E j \in 1..(i - 1) : db.miners[j].address = db.miners[i].address}

UserFunds(db)     == MapThenSumSet(LAMBDA u : db.users[u].deposit + db.users[u].advance,
                                DOMAIN db.users)
MinerFunds(db, I) == MapThenSumSet(LAMBDA i : db.miners[i].deposit + db.miners[i].pending
                                                + db.miners[i].received, I)

Supply ==
  MapThenSumSet(LAMBDA a : balance[a], Accounts)
    + MapThenSumSet(LAMBDA m : provider[m].deposit, DOMAIN provider)
    + MapThenSumSet(LAMBDA d : UserFunds(databases[d]) + MinerFunds(databases[d], DOMAIN databases[d].miners),
                    DOMAIN databases)

\* What the miners' lists have for users whose arrears are paid by this step. The
\* code sets user.Arrears to 0 before it subtracts them from the amount, so the
\* miners are credited with tokens that nobody has paid.
Credited ==
  MapThenSumSet(LAMBDA d :
    MapThenSumSet(LAMBDA u :
      IF databases[d].users[u].arrears = 0 \/ databases'[d].users[u].arrears # 0 THEN 0
      ELSE MapThenSumSet(LAMBDA i : databases[d].miners[i].arrears[u],
                         DOMAIN databases[d].miners \ Repeats(databases[d])),
      DOMAIN databases[d].users), DOMAIN databases)

\* What databases hold for miners they have twice. A provider that a transaction names
\* twice has its deposit and its income at both places, for one deposit and one payment.
Doubled ==
  MapThenSumSet(LAMBDA d : MinerFunds(databases[d], Repeats(databases[d])), DOMAIN databases)

\* Users that this step puts (again) into arrears, with the miners of their
\* database: each pair may lose one token to the rounding of the payment.
Rounded ==
  MapThenSumSet(LAMBDA d : Cardinality(MinerSet(databases[d])) *
                  Cardinality({u \in DOMAIN databases[d].users :
                    databases'[d].users[u].arrears > databases[d].users[u].arrears}),
                DOMAIN databases)

\* The tokens of the chain are accounted for, transaction by transaction: the supply grows
\* by exactly what a transfer that pays arrears credits the miners with and what a database
\* holds again for a miner it has twice, and shrinks by nothing but what updateBilling rounds
\* down when it shares out an advance payment that does not cover the cost.
Conservation ==
  [][LET lost == Supply + Credited + (Doubled' - Doubled) - Supply'
     IN  lost \in 0..Rounded]_vars

\* What the miners of a database have earned and what its users owe them.
Earned(db) ==
  MapThenSumSet(LAMBDA i : db.miners[i].pending + db.miners[i].received, DOMAIN db.miners)
    + MapThenSumSet(LAMBDA u : db.users[u].arrears, DOMAIN db.users)

\* What user u owes for the blocks above the last billed one up to block to, and again what
\* of it goes to a miner the database has twice.
DueToAll(db, u, to) ==
  Due(db, u, db.last, to)
    + MapThenSumSet(LAMBDA i : Income(db, u, i, db.last, to), Repeats(db))

\* The miners' lists of arrears have what the user owes.
Listed(db, u) ==
  MapThenSumSet(LAMBDA i : db.miners[i].arrears[u], DOMAIN db.miners) = db.users[u].arrears

\* Every block of a SQL chain is billed once and in full: earnings and arrears
\* together grow by the cost of the blocks between the old and the new last
\* billed height, by no other step, whoever pays and however little is left. What a
\* miner earns counts at every place the database has it.
\* Payments of arrears from stale lists are left out: PaidArrears keeps entries
\* that were paid, and pays them again.
BilledOnce ==
  [][\A d \in DOMAIN databases :
       LET db == databases[d] IN
         \/ databases'[d] = db
         \/ \E u \in DOMAIN db.users :
              db.users[u].arrears > databases'[d].users[u].arrears /\ ~Listed(db, u)
         \/ Earned(databases'[d]) = Earned(db)
              + MapThenSumSet(LAMBDA u : DueToAll(db, u, databases'[d].last),
                              DOMAIN db.users)]_vars

=============================================================================
