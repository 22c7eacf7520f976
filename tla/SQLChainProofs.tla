--------------------------- MODULE SQLChainProofs ---------------------------
(***************************************************************************)
(* The proof that the chains of the miners of a database match, whatever   *)
(* the writes and reads do to their states.                                *)
(***************************************************************************)
EXTENDS SQLChain, TLAPS

-----------------------------------------------------------------------------
(***************************************************************************)
(* The inductive invariant. The states and drafts of the miners do not     *)
(* occur in it: a block links by its parent, and a turn by its owner.      *)
(***************************************************************************)
Mined == 1..Len(mined)
Places == {"boot", "sync", "turn", "pack", "send", "turned", "publish"}
Boxes == {Idle} \cup [block : Mined, at : {"got", "replayed"}]

TypeInv ==
  /\ now \in Nat /\ nextTurn \in [Nodes -> Nat] /\ pc \in [Nodes -> Places]
  /\ mined \in Seq(ToSet(mined)) /\ \A i \in Mined : mined[i].height \in Nat
  /\ chain \in [Nodes -> Seq(Mined)] /\ box \in [Nodes -> Boxes]
  /\ stash \in [Nodes -> Seq(Mined)]
  /\ returning \in [Nodes -> SUBSET (Seq(Mined) \ {<<>>})]
  /\ net \subseteq (Nodes \X Mined)

\* Every block was produced in a turn of its producer that the clock has reached; a miner
\* past the start has no block of the turn it waits for or later, unless it produced the
\* block of this turn just now.
TurnInv ==
  /\ \A i \in Mined : mined[i].producer = Owner(mined[i].height) /\ mined[i].height <= now
  /\ \A n \in Nodes : pc[n] \in {"pack", "send"} => nextTurn[n] <= now /\ Owner(nextTurn[n]) = n
  /\ \A n \in Nodes, i \in Mined :
       mined[i].producer = n =>
         \/ pc[n] = "boot"
         \/ mined[i].height < nextTurn[n]
         \/ pc[n] = "turned" /\ mined[i].height = nextTurn[n]

HeightInv == \A i, j \in Mined : mined[i].height = mined[j].height => i = j

\* A stored block has the one before it as its parent, and a replayed one the head.
LinkInv ==
  /\ \A n \in Nodes : \A i \in 1..Len(chain[n]) :
       mined[chain[n][i]].parent = IF i = 1 THEN 0 ELSE chain[n][i - 1]
  /\ \A n \in Nodes : box[n].at = "replayed" => mined[box[n].block].parent = HeadOf(n)

MatchInv ==
  \A n, m \in Nodes : \A i \in 1..Len(chain[n]), j \in 1..Len(chain[m]) :
    chain[n][i] = chain[m][j] => i = j /\ \A k \in 1..i : chain[n][k] = chain[m][k]

IInv == TypeInv /\ TurnInv /\ HeightInv /\ LinkInv /\ MatchInv

-----------------------------------------------------------------------------
(***************************************************************************)
(* What the steps do to the turns.                                         *)
(***************************************************************************)
\* The main goroutine of n goes to `to', and waits for turn t.
Moves(n, to, t) ==
  /\ pc' = [pc EXCEPT ![n] = to] /\ nextTurn' = [nextTurn EXCEPT ![n] = t]
  /\ \/ t = nextTurn[n] /\ pc[n] \in {"sync", "publish"} /\ to \in {"sync", "turn"}
     \/ t = nextTurn[n] /\ pc[n] = "turn" /\ to = "turned"
     \/ /\ t = nextTurn[n] /\ pc[n] = "turn" /\ to = "pack"
        /\ now = nextTurn[n] /\ Owner(nextTurn[n]) = n
     \/ t = nextTurn[n] /\ pc[n] = "pack" /\ to = "send"
     \/ t = nextTurn[n] + 1 /\ pc[n] \in {"turn", "turned"} /\ to \in {"publish", "sync"}
     \/ t \in Nat /\ to = "boot"
     \/ t = nextTurn[n] /\ pc[n] = "boot" /\ to = "sync" /\ ~BehindClock(n)

\* The block n sends, with the contents of its draft.
Sent(n) == [height |-> nextTurn[n], producer |-> n, parent |-> draft[n].parent,
            writes |-> draft[n].pool.queries, reads |-> draft[n].pool.reads,
            failed |-> draft[n].pool.failed]
Sends(n) ==
  /\ pc[n] = "send" /\ pc' = [pc EXCEPT ![n] = "turned"]
  /\ mined' = Append(mined, Sent(n)) /\ UNCHANGED <<now, nextTurn, chain>>
  /\ box' = [box EXCEPT ![n] = [block |-> Len(mined'), at |-> "got"]]

TurnStep ==
  \/ UNCHANGED <<now, mined, nextTurn, pc>>
  \/ now' = now + 1 /\ UNCHANGED <<mined, nextTurn, pc>>
  \/ \E n \in Nodes, to \in Places : \E t \in Nat : Moves(n, to, t) /\ UNCHANGED <<now, mined>>
  \/ \E n \in Nodes : Sends(n)

\* A miner that stays where it is keeps its turn.
LEMMA Same ==
  ASSUME TypeInv, NEW n \in Nodes
  PROVE  /\ pc[n] \in Places /\ nextTurn[n] \in Nat /\ nextTurn[n] + 1 \in Nat /\ now + 1 \in Nat
         /\ nextTurn = [nextTurn EXCEPT ![n] = nextTurn[n]]
         /\ pc = [pc EXCEPT ![n] = pc[n]]
  BY DEF TypeInv

\* Every step does one of these to the turns.
LEMMA TurnSteps ==
  ASSUME TypeInv, Next
  PROVE  TurnStep
  <1>1. CASE RequestNext
    BY <1>1, Zenon DEF RequestNext, Write, Read, procVars, mainVars, chainVars, TurnStep
  <1>2. CASE Tick
    BY <1>2, Zenon DEF Tick, mainVars, chainVars, TurnStep
  <1>3. ASSUME NEW n \in Nodes, KayakCommit(n) PROVE TurnStep
    BY <1>3, Zenon DEF KayakCommit, mainVars, chainVars, TurnStep
  <1>4. ASSUME NEW n \in Nodes, ProcessNext(n) PROVE TurnStep
    BY <1>4, Zenon DEF ProcessNext, NewHeight, Stash, Refuse, PushOwn, Replay, PushBlock, Advise,
                       ReturnStash, mainVars, chainVars, TurnStep
  <1>5. ASSUME NEW n \in Nodes, NEW to \in Places, NEW t \in Nat, Moves(n, to, t),
               UNCHANGED <<now, mined>>
        PROVE  TurnStep
    BY <1>5, Zenon DEF TurnStep
  <1>6. ASSUME NEW n \in Nodes, MainNext(n) PROVE TurnStep
    <2>1. CASE SendBlock(n)
      <3>1. Sends(n)
        BY <2>1, Zenon DEF SendBlock, Take, Goto, Sends, Sent
      <3> QED
        BY <3>1, Zenon DEF TurnStep
    <2>2. CASE SyncHead(n)
      <3>1. pc[n] = "sync" /\ pc' = [pc EXCEPT ![n] = "turn"] /\ UNCHANGED <<now, mined, nextTurn>>
        BY <2>2, Zenon DEF SyncHead, Goto, chainVars
      <3>2. Moves(n, "turn", nextTurn[n])
        BY <3>1, Same, Zenon DEF Moves
      <3> QED
        BY <1>5, <3>1, <3>2, Same, Zenon DEF Places
    <2>3. CASE CommitEx(n)
      <3>1. /\ pc[n] = "turn" /\ now = nextTurn[n] /\ Owner(nextTurn[n]) = n
            /\ UNCHANGED <<now, mined, nextTurn>>
        BY <2>3, Zenon DEF CommitEx, chainVars
      <3>2. pc' = [pc EXCEPT ![n] = "turned"] \/ pc' = [pc EXCEPT ![n] = "pack"]
        BY <2>3, Zenon DEF CommitEx, Goto
      <3>3. Moves(n, "turned", nextTurn[n]) \/ Moves(n, "pack", nextTurn[n])
        BY <3>1, <3>2, Same, Zenon DEF Moves
      <3> QED
        BY <1>5, <3>1, <3>3, Same, Zenon DEF Places
    <2>4. CASE Pack(n)
      <3>1. pc[n] = "pack" /\ pc' = [pc EXCEPT ![n] = "send"] /\ UNCHANGED <<now, mined, nextTurn>>
        BY <2>4, Zenon DEF Pack, Goto, chainVars
      <3>2. Moves(n, "send", nextTurn[n])
        BY <3>1, Same, Zenon DEF Moves
      <3> QED
        BY <1>5, <3>1, <3>2, Same, Zenon DEF Places
    <2>5. CASE EndTurn(n)
      <3>1. /\ pc[n] \in {"turn", "turned"} /\ UNCHANGED <<now, mined>>
            /\ nextTurn' = [nextTurn EXCEPT ![n] = nextTurn[n] + 1]
        BY <2>5, Zenon DEF EndTurn, chainVars
      <3>2. pc' = [pc EXCEPT ![n] = "publish"] \/ pc' = [pc EXCEPT ![n] = "sync"]
        BY <2>5, Zenon DEF EndTurn, Goto
      <3>3. Moves(n, "publish", nextTurn[n] + 1) \/ Moves(n, "sync", nextTurn[n] + 1)
        BY <3>1, <3>2, Same, Zenon DEF Moves
      <3> QED
        BY <1>5, <3>1, <3>3, Same, Zenon DEF Places
    <2>6. CASE Publish(n)
      <3>1. pc[n] = "publish" /\ pc' = [pc EXCEPT ![n] = "sync"]
            /\ UNCHANGED <<now, mined, nextTurn>>
        BY <2>6, Zenon DEF Publish, Goto, chainVars
      <3>2. Moves(n, "sync", nextTurn[n])
        BY <3>1, Same, Zenon DEF Moves
      <3> QED
        BY <1>5, <3>1, <3>2, Same, Zenon DEF Places
    <2>7. ASSUME NEW i \in Fetchable(n), SyncBlock(n, i) PROVE TurnStep
      <3>1. pc[n] = "sync" /\ UNCHANGED <<now, mined, nextTurn>>
        BY <2>7, Zenon DEF SyncBlock, chainVars
      <3>2. pc' = [pc EXCEPT ![n] = "turn"] \/ pc' = [pc EXCEPT ![n] = "sync"]
        BY <2>7, Zenon DEF SyncBlock, Goto
      <3>3. Moves(n, "turn", nextTurn[n]) \/ Moves(n, "sync", nextTurn[n])
        BY <3>1, <3>2, Same, Zenon DEF Moves
      <3> QED
        BY <1>5, <3>1, <3>3, Same, Zenon DEF Places
    <2> QED
      BY <1>6, <2>1, <2>2, <2>3, <2>4, <2>5, <2>6, <2>7, Zenon DEF MainNext
  <1>7. ASSUME NEW n \in Nodes, RestartNext(n) PROVE TurnStep
    <2>1. CASE Crash(n)
      <3>1. /\ pc' = [pc EXCEPT ![n] = "boot"] /\ nextTurn' = [nextTurn EXCEPT ![n] = 1]
            /\ UNCHANGED <<now, mined>>
        BY <2>1, Zenon DEF Crash, Goto, chainVars
      <3>2. Moves(n, "boot", 1)
        BY <3>1, Zenon DEF Moves
      <3> QED
        BY <1>5, <3>1, <3>2, Zenon DEF Places
    <2>2. CASE BootSkip(n)
      <3>1. pc[n] = "boot" /\ UNCHANGED <<now, mined, pc>>
        BY <2>2, Zenon DEF BootSkip, chainVars
      <3>2. \/ nextTurn' = [nextTurn EXCEPT ![n] = now + 1]
            \/ nextTurn' = [nextTurn EXCEPT ![n] = nextTurn[n] + 1]
        BY <2>2, Zenon DEF BootSkip
      <3>3. Moves(n, "boot", now + 1) \/ Moves(n, "boot", nextTurn[n] + 1)
        BY <3>1, <3>2, Same, Zenon DEF Moves
      <3> QED
        BY <1>5, <3>1, <3>3, Same, Zenon DEF Places
    <2>3. CASE Booted(n)
      <3>1. /\ pc[n] = "boot" /\ ~BehindClock(n) /\ pc' = [pc EXCEPT ![n] = "sync"]
            /\ UNCHANGED <<now, mined, nextTurn>>
        BY <2>3, Zenon DEF Booted, Goto, chainVars
      <3>2. Moves(n, "sync", nextTurn[n])
        BY <3>1, Same, Zenon DEF Moves
      <3> QED
        BY <1>5, <3>1, <3>2, Same, Zenon DEF Places
    <2>4. ASSUME NEW i \in Fetchable(n), BootBlock(n, i) PROVE TurnStep
      <3>1. /\ pc[n] = "boot" /\ UNCHANGED <<now, mined, pc>>
            /\ nextTurn' = [nextTurn EXCEPT ![n] = nextTurn[n] + 1]
        BY <2>4, Zenon DEF BootBlock, chainVars
      <3>2. Moves(n, "boot", nextTurn[n] + 1)
        BY <3>1, Same, Zenon DEF Moves
      <3> QED
        BY <1>5, <3>1, <3>2, Same, Zenon DEF Places
    <2> QED
      BY <1>7, <2>1, <2>2, <2>3, <2>4, Zenon DEF RestartNext
  <1> QED
    BY <1>1, <1>2, <1>3, <1>4, <1>6, <1>7, Zenon DEF Next

\* A block is appended to the blocks mined.
LEMMA AppendFact ==
  ASSUME TypeInv, NEW n \in Nodes, mined' = Append(mined, Sent(n))
  PROVE  /\ Len(mined) \in Nat /\ Len(mined') = Len(mined) + 1
         /\ Mined' = Mined \cup {Len(mined')} /\ Len(mined') \notin Mined
         /\ mined'[Len(mined')] = Sent(n) /\ \A i \in Mined : mined'[i] = mined[i]
         /\ mined' \in Seq(ToSet(mined'))
  <1> DEFINE b == Sent(n)
  <1> HIDE DEF b
  <1>1. mined \in Seq(ToSet(mined)) /\ mined' = Append(mined, b)
    BY Zenon DEF TypeInv, b
  <1>2. Len(mined) \in Nat
    BY <1>1
  <1>3. mined \in Seq(ToSet(mined) \cup {b})
    BY <1>1
  <1>4. Len(mined') = Len(mined) + 1 /\ mined'[Len(mined')] = b
        /\ \A i \in 1..Len(mined) : mined'[i] = mined[i]
    BY <1>2, <1>3, <1>1
  <1>5. mined' \in Seq(ToSet(mined) \cup {b})
    BY <1>3, <1>1
  <1>6. DOMAIN mined' = 1..Len(mined')
    BY <1>5
  <1>7. \A i \in 1..Len(mined') : mined'[i] \in ToSet(mined')
    BY <1>6, Zenon DEF ToSet
  <1>8. mined' \in Seq(ToSet(mined'))
    BY <1>5, <1>7
  <1>9. 1..Len(mined') = 1..Len(mined) \cup {Len(mined')} /\ Len(mined') \notin 1..Len(mined)
    BY <1>2, <1>4
  <1> QED
    BY <1>2, <1>4, <1>8, <1>9, Zenon DEF Mined, b

\* Every step keeps the turns in order.
LEMMA TurnNext ==
  ASSUME TypeInv, TurnInv, HeightInv, Next
  PROVE  TurnInv' /\ HeightInv'
  <1>1. CASE UNCHANGED <<now, mined, nextTurn, pc>>
    BY <1>1, Zenon DEF TurnInv, HeightInv, Mined, Owner
  <1>2. CASE now' = now + 1 /\ UNCHANGED <<mined, nextTurn, pc>>
    <2>1. now \in Nat /\ \A i \in Mined : mined[i].height \in Nat
      BY Zenon DEF TypeInv
    <2>2. \A n \in Nodes : nextTurn[n] \in Nat
      BY Zenon DEF TypeInv
    <2>3. \A h \in Nat : h <= now => h <= now'
      BY <1>2, <2>1
    <2>4. Mined' = Mined /\ mined' = mined /\ nextTurn' = nextTurn /\ pc' = pc
      BY <1>2, Zenon DEF Mined
    <2> QED
      BY <2>1, <2>2, <2>3, <2>4, Zenon DEF TurnInv, HeightInv, Owner
  <1>3. ASSUME NEW n \in Nodes, NEW to \in Places, NEW t \in Nat, Moves(n, to, t),
               UNCHANGED <<now, mined>>
        PROVE  TurnInv' /\ HeightInv'
    <2>1. HeightInv'
      BY <1>3, Zenon DEF HeightInv, Mined
    <2>2. /\ pc'[n] = to /\ nextTurn'[n] = t
          /\ \A m \in Nodes \ {n} : pc'[m] = pc[m] /\ nextTurn'[m] = nextTurn[m]
      BY <1>3, Zenon DEF Moves, TypeInv
    <2>3. Mined' = Mined /\ mined' = mined /\ now' = now
      BY <1>3, Zenon DEF Mined
    <2>4. to \in {"pack", "send"} => t <= now /\ Owner(t) = n
      BY <1>3 DEF Moves, TurnInv, TypeInv
    <2>5. ASSUME NEW i \in Mined, mined[i].producer = n
          PROVE  to = "boot" \/ mined[i].height < t \/ (to = "turned" /\ mined[i].height = t)
      <3>1. mined[i].height \in Nat /\ nextTurn[n] \in Nat /\ now \in Nat
        BY Zenon DEF TypeInv
      <3>2. mined[i].height <= now
        BY Zenon DEF TurnInv
      <3>3. \/ pc[n] = "boot"
            \/ mined[i].height < nextTurn[n]
            \/ pc[n] = "turned" /\ mined[i].height = nextTurn[n]
        BY <2>5, Zenon DEF TurnInv
      <3> QED
        BY <1>3, <3>1, <3>2, <3>3 DEF Moves, BehindClock
    <2>6. TurnInv'
      <3>1. \A m \in Nodes : pc'[m] \in {"pack", "send"} =>
              nextTurn'[m] <= now /\ Owner(nextTurn'[m]) = m
        BY <2>2, <2>4, Zenon DEF TurnInv
      <3>2. \A m \in Nodes, i \in Mined : mined[i].producer = m =>
              \/ pc'[m] = "boot"
              \/ mined[i].height < nextTurn'[m]
              \/ pc'[m] = "turned" /\ mined[i].height = nextTurn'[m]
        BY <2>2, <2>5, Zenon DEF TurnInv
      <3> QED
        BY <2>3, <3>1, <3>2, Zenon DEF TurnInv, Owner
    <2> QED
      BY <2>1, <2>6, Zenon
  <1>4. ASSUME NEW n \in Nodes, Sends(n) PROVE TurnInv' /\ HeightInv'
    <2>1. /\ pc[n] = "send" /\ pc'[n] = "turned" /\ nextTurn' = nextTurn /\ now' = now
          /\ \A m \in Nodes \ {n} : pc'[m] = pc[m]
          /\ mined' = Append(mined, Sent(n))
      BY <1>4, Zenon DEF Sends, TypeInv
    <2> DEFINE k == Len(mined')
    <2>2. /\ Mined' = Mined \cup {k} /\ k \notin Mined
          /\ \A i \in Mined : mined'[i] = mined[i]
          /\ mined'[k].height = nextTurn[n] /\ mined'[k].producer = n
      <3>1. Sent(n).height = nextTurn[n] /\ Sent(n).producer = n
        BY Zenon DEF Sent
      <3>2. /\ Mined' = Mined \cup {k} /\ k \notin Mined /\ mined'[k] = Sent(n)
            /\ \A i \in Mined : mined'[i] = mined[i]
        BY <2>1, AppendFact, Zenon
      <3> QED
        BY <3>1, <3>2, Zenon
    <2> HIDE DEF k
    <2>3. nextTurn[n] <= now /\ Owner(nextTurn[n]) = n
      BY <2>1, Zenon DEF TurnInv
    <2>4. \A i \in Mined : mined[i].height # nextTurn[n]
      <3>1. SUFFICES ASSUME NEW i \in Mined, mined[i].height = nextTurn[n] PROVE FALSE
        BY Zenon
      <3>2. mined[i].producer = n
        BY <2>3, <3>1, Zenon DEF TurnInv
      <3>3. mined[i].height < nextTurn[n]
        BY <2>1, <3>2, Zenon DEF TurnInv
      <3> QED
        BY <3>1, <3>3 DEF TypeInv
    <2>5. HeightInv'
      BY <2>2, <2>4 DEF HeightInv
    <2>6. \A i \in Mined' : mined'[i].producer = Owner(mined'[i].height) /\ mined'[i].height <= now
      BY <2>2, <2>3, Zenon DEF TurnInv
    <2>7. \A m \in Nodes : pc'[m] \in {"pack", "send"} =>
            nextTurn[m] <= now /\ Owner(nextTurn[m]) = m
      BY <2>1, Zenon DEF TurnInv
    <2>8. \A m \in Nodes, i \in Mined : mined[i].producer = m =>
            \/ pc'[m] = "boot"
            \/ mined[i].height < nextTurn[m]
            \/ pc'[m] = "turned" /\ mined[i].height = nextTurn[m]
      BY <2>1, Zenon DEF TurnInv
    <2>9. \A m \in Nodes, i \in Mined' : mined'[i].producer = m =>
            \/ pc'[m] = "boot"
            \/ mined'[i].height < nextTurn[m]
            \/ pc'[m] = "turned" /\ mined'[i].height = nextTurn[m]
      <3>1. ASSUME NEW m \in Nodes, NEW i \in Mined', mined'[i].producer = m
            PROVE  \/ pc'[m] = "boot"
                   \/ mined'[i].height < nextTurn[m]
                   \/ pc'[m] = "turned" /\ mined'[i].height = nextTurn[m]
        <4>1. CASE i = k
          BY <2>1, <2>2, <3>1, <4>1, Zenon
        <4>2. CASE i \in Mined
          BY <2>2, <2>8, <3>1, <4>2
        <4> QED
          BY <2>2, <4>1, <4>2, Zenon
      <3> QED
        BY <3>1, Zenon
    <2>10. TurnInv'
      BY <2>1, <2>6, <2>7, <2>9, Zenon DEF TurnInv, Owner
    <2> QED
      BY <2>5, <2>10, Zenon
  <1> QED
    BY <1>1, <1>2, <1>3, <1>4, TurnSteps, Zenon DEF TurnStep

-----------------------------------------------------------------------------
(***************************************************************************)
(* What the steps do to the chains.                                        *)
(***************************************************************************)
\* The block processor of n takes another block, or is done with its own.
Receives(n) ==
  /\ UNCHANGED <<mined, chain>>
  /\ \E b \in Boxes : b.at # "replayed" /\ box' = [box EXCEPT ![n] = b]

\* A block that continues the head of n is replayed.
Replays(n) ==
  /\ UNCHANGED <<mined, chain>>
  /\ box[n].at = "got" /\ mined[box[n].block].parent = HeadOf(n)
  /\ box' = [box EXCEPT ![n].at = "replayed"]

\* A block that continues the head of n is stored.
Stores(n) ==
  /\ UNCHANGED mined
  /\ box[n].at # "idle" /\ mined[box[n].block].parent = HeadOf(n)
  /\ Push(n, box[n].block) /\ Done(n)

ChainStep ==
  \/ UNCHANGED <<mined, chain, box>>
  \/ \E n \in Nodes : Receives(n) \/ Replays(n) \/ Stores(n) \/ Sends(n)

\* A block a miner is given was mined.
LEMMA TakeFact ==
  ASSUME NEW n \in Nodes, NEW i \in Mined, Take(n, i), UNCHANGED <<mined, chain>>
  PROVE  Receives(n)
  <1>1. box' = [box EXCEPT ![n] = [block |-> i, at |-> "got"]]
    BY Zenon DEF Take
  <1>2. [block |-> i, at |-> "got"] \in Boxes /\ [block |-> i, at |-> "got"].at # "replayed"
    BY Zenon DEF Boxes
  <1> QED
    BY <1>1, <1>2, Zenon DEF Receives

\* A block processor that is done with a block leaves its box empty.
LEMMA DoneFact ==
  ASSUME NEW n \in Nodes, Done(n), UNCHANGED <<mined, chain>>
  PROVE  Receives(n)
  <1>1. Idle \in Boxes /\ Idle.at # "replayed"
    BY Zenon DEF Boxes, Idle
  <1> QED
    BY <1>1, Zenon DEF Receives, Done

\* A block another miner has stored was mined.
LEMMA FetchFact ==
  ASSUME TypeInv, NEW n \in Nodes, NEW i \in Fetchable(n)
  PROVE  i \in Mined
  <1>1. PICK p \in Nodes : i \in ToSet(chain[p])
    BY Zenon DEF Fetchable, Found
  <1>2. chain[p] \in Seq(Mined)
    BY Zenon DEF TypeInv
  <1> QED
    BY <1>1, <1>2 DEF ToSet

\* Every step does one of these to the chains.
LEMMA ChainSteps ==
  ASSUME TypeInv, LinkInv, Next
  PROVE  ChainStep
  <1>1. CASE RequestNext
    BY <1>1, Zenon DEF RequestNext, Write, Read, procVars, chainVars, ChainStep
  <1>2. CASE Tick
    BY <1>2, Zenon DEF Tick, procVars, chainVars, ChainStep
  <1>3. ASSUME NEW n \in Nodes, KayakCommit(n) PROVE ChainStep
    BY <1>3, Zenon DEF KayakCommit, procVars, chainVars, ChainStep
  <1>4. ASSUME NEW n \in Nodes, Receives(n) PROVE ChainStep
    BY <1>4, Zenon DEF ChainStep
  <1>5. ASSUME NEW n \in Nodes, MainNext(n) PROVE ChainStep
    <2>1. CASE SendBlock(n)
      <3>1. Sends(n)
        BY <2>1, Zenon DEF SendBlock, Take, Goto, Sends, Sent
      <3> QED
        BY <3>1, Zenon DEF ChainStep
    <2>2. CASE SyncHead(n) \/ CommitEx(n) \/ Pack(n) \/ EndTurn(n) \/ Publish(n)
      BY <2>2, Zenon DEF SyncHead, CommitEx, Pack, EndTurn, Publish, procVars, chainVars, ChainStep
    <2>3. ASSUME NEW i \in Fetchable(n), SyncBlock(n, i) PROVE ChainStep
      <3>1. Take(n, i) /\ UNCHANGED <<mined, chain>>
        BY <2>3, Zenon DEF SyncBlock, chainVars
      <3> QED
        BY <1>4, <3>1, FetchFact, TakeFact, Zenon
    <2> QED
      BY <1>5, <2>1, <2>2, <2>3, Zenon DEF MainNext
  <1>6. ASSUME NEW n \in Nodes, RestartNext(n) PROVE ChainStep
    <2>1. CASE Crash(n)
      <3>1. Done(n) /\ UNCHANGED <<mined, chain>>
        BY <2>1, Zenon DEF Crash, chainVars
      <3> QED
        BY <1>4, <3>1, DoneFact, Zenon
    <2>2. CASE BootSkip(n) \/ Booted(n)
      BY <2>2, Zenon DEF BootSkip, Booted, procVars, chainVars, ChainStep
    <2>3. ASSUME NEW i \in Fetchable(n), BootBlock(n, i) PROVE ChainStep
      <3>1. Take(n, i) /\ UNCHANGED <<mined, chain>>
        BY <2>3, Zenon DEF BootBlock, chainVars
      <3> QED
        BY <1>4, <3>1, FetchFact, TakeFact, Zenon
    <2> QED
      BY <1>6, <2>1, <2>2, <2>3, Zenon DEF RestartNext
  <1>7. ASSUME NEW n \in Nodes, ProcessNext(n) PROVE ChainStep
    <2>1. CASE NewHeight(n)
      BY <2>1, Zenon DEF NewHeight, chainVars, ChainStep
    <2>2. CASE Stash(n) \/ Refuse(n)
      <3>1. Done(n) /\ UNCHANGED <<mined, chain>>
        BY <2>2, Zenon DEF Stash, Refuse, chainVars
      <3> QED
        BY <1>4, <3>1, DoneFact, Zenon
    <2>3. CASE PushOwn(n)
      <3>1. Stores(n)
        BY <2>3, Zenon DEF PushOwn, Valid, Block, Stores
      <3> QED
        BY <3>1, Zenon DEF ChainStep
    <2>4. CASE Replay(n)
      <3>1. /\ Done(n) \/ box' = [box EXCEPT ![n].at = "replayed"]
            /\ UNCHANGED <<mined, chain>>
        BY <2>4, Zenon DEF Replay, chainVars
      <3>2. box[n].at = "got" /\ mined[box[n].block].parent = HeadOf(n)
        BY <2>4, Zenon DEF Replay, Valid, Block
      <3>3. CASE Done(n)
        BY <1>4, <3>1, <3>3, DoneFact, Zenon
      <3>4. CASE box' = [box EXCEPT ![n].at = "replayed"]
        <4>1. Replays(n)
          BY <3>1, <3>2, <3>4, Zenon DEF Replays
        <4> QED
          BY <4>1, Zenon DEF ChainStep
      <3> QED
        BY <3>1, <3>3, <3>4, Zenon
    <2>5. CASE PushBlock(n)
      <3>1. Stores(n)
        <4>1. box[n].at = "replayed" /\ Push(n, box[n].block) /\ Done(n) /\ UNCHANGED mined
          BY <2>5, Zenon DEF PushBlock
        <4> QED
          BY <4>1, Zenon DEF LinkInv, Stores
      <3> QED
        BY <3>1, Zenon DEF ChainStep
    <2>6. ASSUME NEW m \in net, Advise(n, m[2]) PROVE ChainStep
      <3>1. Take(n, m[2]) /\ UNCHANGED <<mined, chain>>
        BY <2>6, Zenon DEF Advise
      <3>2. m[2] \in Mined
        BY Zenon DEF TypeInv
      <3> QED
        BY <1>4, <3>1, <3>2, TakeFact, Zenon
    <2>7. ASSUME NEW s \in returning[n], ReturnStash(n, s) PROVE ChainStep
      <3>1. Take(n, s[1]) /\ UNCHANGED <<mined, chain>>
        BY <2>7, Zenon DEF ReturnStash, chainVars
      <3>2. s \in Seq(Mined) /\ s # <<>>
        BY Zenon DEF TypeInv
      <3>3. s[1] \in Mined
        BY <3>2
      <3> QED
        BY <1>4, <3>1, <3>3, TakeFact, Zenon
    <2> QED
      BY <1>7, <2>1, <2>2, <2>3, <2>4, <2>5, <2>6, <2>7, Zenon DEF ProcessNext
  <1> QED
    BY <1>1, <1>2, <1>3, <1>5, <1>6, <1>7, Zenon DEF Next

\* Blocks are only added.
LEMMA MinedGrows ==
  ASSUME TypeInv, LinkInv, Next
  PROVE  Mined \subseteq Mined' /\ Seq(Mined) \subseteq Seq(Mined')
  <1>1. mined' = mined \/ \E n \in Nodes : mined' = Append(mined, Sent(n))
    BY ChainSteps, Zenon DEF ChainStep, Receives, Replays, Stores, Sends
  <1>2. CASE mined' = mined
    BY <1>2, Zenon DEF Mined
  <1>3. ASSUME NEW n \in Nodes, mined' = Append(mined, Sent(n))
        PROVE  Mined \subseteq Mined'
    BY <1>3, AppendFact, Zenon
  <1>4. Mined \subseteq Mined'
    BY <1>1, <1>2, <1>3, Zenon
  <1> QED
    BY <1>4

\* The stashes and the calls under way hold blocks that were mined.
LEMMA QueueNext ==
  ASSUME TypeInv, LinkInv, Next
  PROVE  /\ stash' \in [Nodes -> Seq(Mined')]
         /\ returning' \in [Nodes -> SUBSET (Seq(Mined') \ {<<>>})]
         /\ net' \subseteq (Nodes \X Mined')
  <1> DEFINE S == Seq(Mined)
             Goal == /\ stash' \in [Nodes -> S] /\ returning' \in [Nodes -> SUBSET (S \ {<<>>})]
                     /\ net' \subseteq (Nodes \X Mined')
  <1>1. /\ stash \in [Nodes -> S] /\ returning \in [Nodes -> SUBSET (S \ {<<>>})]
        /\ net \subseteq (Nodes \X Mined')
    BY MinedGrows, Zenon DEF TypeInv
  <1>2. <<>> \in S /\ \A s \in S, i \in Mined : Append(s, i) \in S
    OBVIOUS
  <1>3. \A s \in S \ {<<>>} : Tail(s) \in S
    OBVIOUS
  <1>4. SUFFICES Goal
    BY MinedGrows, Zenon
  <1> HIDE DEF S
  <1>5. ASSUME UNCHANGED <<stash, returning, net>> PROVE Goal
    BY <1>1, <1>5, Zenon
  <1>6. CASE RequestNext
    BY <1>5, <1>6, Zenon DEF RequestNext, Write, Read, procVars, chainVars
  <1>7. CASE Tick
    BY <1>5, <1>7, Zenon DEF Tick, procVars, chainVars
  <1>8. ASSUME NEW n \in Nodes, KayakCommit(n) PROVE Goal
    BY <1>5, <1>8, Zenon DEF KayakCommit, procVars, chainVars
  <1>9. ASSUME NEW n \in Nodes, MainNext(n) PROVE Goal
    <2>1. CASE SendBlock(n)
      <3>1. /\ UNCHANGED <<stash, returning>>
            /\ net' = net \cup {<<p, Len(mined')>> : p \in Nodes \ {n}}
            /\ mined' = Append(mined, Sent(n))
        BY <2>1, Zenon DEF SendBlock, Sent
      <3>2. Len(mined') \in Mined'
        BY <3>1, AppendFact, Zenon
      <3>3. net' \subseteq (Nodes \X Mined')
        BY <1>1, <3>1, <3>2
      <3> QED
        BY <1>1, <3>1, <3>3, Zenon
    <2>2. ASSUME ~SendBlock(n) PROVE UNCHANGED <<stash, returning, net>>
      BY <1>9, <2>2, Zenon DEF MainNext, SyncHead, CommitEx, Pack, EndTurn, Publish, SyncBlock,
                              procVars, chainVars
    <2> QED
      BY <1>5, <2>1, <2>2, Zenon
  <1>10. ASSUME NEW n \in Nodes, RestartNext(n) PROVE Goal
    <2>1. CASE Crash(n)
      <3>1. /\ stash' = [stash EXCEPT ![n] = <<>>] /\ returning' = [returning EXCEPT ![n] = {}]
            /\ net' = net
        BY <2>1, Zenon DEF Crash, chainVars
      <3> QED
        BY <1>1, <1>2, <3>1, Zenon
    <2>2. ASSUME ~Crash(n) PROVE UNCHANGED <<stash, returning, net>>
      BY <1>10, <2>2, Zenon DEF RestartNext, BootSkip, Booted, BootBlock, procVars, chainVars
    <2> QED
      BY <1>5, <2>1, <2>2, Zenon
  <1>11. ASSUME NEW n \in Nodes, ProcessNext(n) PROVE Goal
    <2>1. CASE NewHeight(n)
      <3>1. /\ stash' = [stash EXCEPT ![n] = <<>>] /\ net' = net
            /\ returning' = [returning EXCEPT ![n] = returning[n] \cup ({stash[n]} \ {<<>>})]
        BY <2>1, Zenon DEF NewHeight, chainVars
      <3>2. returning[n] \cup ({stash[n]} \ {<<>>}) \in SUBSET (S \ {<<>>})
        BY <1>1
      <3> QED
        BY <1>1, <1>2, <3>1, <3>2, Zenon
    <2>2. CASE Stash(n)
      <3>1. /\ box[n].at = "got" /\ UNCHANGED <<returning, net>>
            /\ stash' = [stash EXCEPT ![n] = Append(stash[n], box[n].block)]
        BY <2>2, Zenon DEF Stash, chainVars
      <3>2. box[n].block \in Mined
        BY <3>1 DEF TypeInv, Boxes, Idle
      <3>3. Append(stash[n], box[n].block) \in S
        BY <1>1, <1>2, <3>2, Zenon
      <3> QED
        BY <1>1, <3>1, <3>3, Zenon
    <2>3. ASSUME NEW m \in net, Advise(n, m[2]) PROVE Goal
      <3>1. UNCHANGED <<stash, returning>> /\ net' \subseteq net
        BY <2>3, Zenon DEF Advise
      <3> QED
        BY <1>1, <3>1, Zenon
    <2>4. ASSUME NEW s \in returning[n], ReturnStash(n, s) PROVE Goal
      <3>1. /\ UNCHANGED <<stash, net>>
            /\ returning' = [returning EXCEPT ![n] =
                               (returning[n] \ {s}) \cup ({Tail(s)} \ {<<>>})]
        BY <2>4, Zenon DEF ReturnStash, chainVars
      <3>2. Tail(s) \in S
        BY <1>1, <1>3, Zenon
      <3>3. (returning[n] \ {s}) \cup ({Tail(s)} \ {<<>>}) \in SUBSET (S \ {<<>>})
        BY <1>1, <3>2, Zenon
      <3> QED
        BY <1>1, <3>1, <3>3, Zenon
    <2>5. CASE Refuse(n) \/ PushOwn(n) \/ Replay(n) \/ PushBlock(n)
      BY <1>5, <2>5, Zenon DEF Refuse, PushOwn, Replay, PushBlock, chainVars
    <2> QED
      BY <1>11, <2>1, <2>2, <2>3, <2>4, <2>5, Zenon DEF ProcessNext
  <1> QED
    BY <1>6, <1>7, <1>8, <1>9, <1>10, <1>11, Zenon DEF Next

\* The blocks a box may hold, once a block is added.
LEMMA BoxesGrow == ASSUME Mined \subseteq Mined' PROVE Boxes \subseteq Boxes'
  BY Zenon DEF Boxes

\* The chains and boxes hold blocks that were mined.
LEMMA ChainType ==
  ASSUME TypeInv, LinkInv, Next
  PROVE  chain' \in [Nodes -> Seq(Mined')] /\ box' \in [Nodes -> Boxes']
  <1>1. /\ chain \in [Nodes -> Seq(Mined')] /\ box \in [Nodes -> Boxes']
        /\ Boxes \subseteq Boxes' /\ Mined \subseteq Mined'
    BY MinedGrows, BoxesGrow, Zenon DEF TypeInv
  <1>2. CASE UNCHANGED <<mined, chain, box>>
    BY <1>1, <1>2, Zenon
  <1>3. ASSUME NEW n \in Nodes, Receives(n)
        PROVE  chain' \in [Nodes -> Seq(Mined')] /\ box' \in [Nodes -> Boxes']
    <2>1. PICK b \in Boxes : box' = [box EXCEPT ![n] = b]
      BY <1>3, Zenon DEF Receives
    <2>2. chain' = chain
      BY <1>3, Zenon DEF Receives
    <2> QED
      BY <1>1, <2>1, <2>2, Zenon
  <1>4. ASSUME NEW n \in Nodes, Replays(n)
        PROVE  chain' \in [Nodes -> Seq(Mined')] /\ box' \in [Nodes -> Boxes']
    <2>1. /\ chain' = chain /\ box' = [box EXCEPT ![n].at = "replayed"] /\ box[n].at = "got"
          /\ Mined' = Mined
      BY <1>4, Zenon DEF Replays, Mined
    <2>2. box[n] \in [block : Mined, at : {"got", "replayed"}]
      BY <2>1 DEF TypeInv, Boxes, Idle
    <2>3. [box[n] EXCEPT !.at = "replayed"] \in Boxes'
      BY <2>1, <2>2, Zenon DEF Boxes
    <2>4. box' = [box EXCEPT ![n] = [box[n] EXCEPT !.at = "replayed"]]
      BY <2>1, Zenon
    <2> QED
      BY <1>1, <2>1, <2>3, <2>4, Zenon
  <1>5. ASSUME NEW n \in Nodes, Stores(n)
        PROVE  chain' \in [Nodes -> Seq(Mined')] /\ box' \in [Nodes -> Boxes']
    <2>1. /\ chain' = [chain EXCEPT ![n] = Append(chain[n], box[n].block)]
          /\ box' = [box EXCEPT ![n] = Idle] /\ box[n].at # "idle"
      BY <1>5, Zenon DEF Stores, Push, Done
    <2>2. box[n].block \in Mined'
      BY <1>1, <2>1 DEF TypeInv, Boxes, Idle
    <2>3. Append(chain[n], box[n].block) \in Seq(Mined')
      BY <1>1, <2>2
    <2>4. Idle \in Boxes'
      BY Zenon DEF Boxes
    <2> QED
      BY <1>1, <2>1, <2>3, <2>4, Zenon
  <1>6. ASSUME NEW n \in Nodes, Sends(n)
        PROVE  chain' \in [Nodes -> Seq(Mined')] /\ box' \in [Nodes -> Boxes']
    <2>1. /\ chain' = chain /\ mined' = Append(mined, Sent(n))
          /\ box' = [box EXCEPT ![n] = [block |-> Len(mined'), at |-> "got"]]
      BY <1>6, Zenon DEF Sends
    <2>2. Len(mined') \in Mined'
      BY <2>1, AppendFact, Zenon
    <2>3. [block |-> Len(mined'), at |-> "got"] \in Boxes'
      BY <2>2, Zenon DEF Boxes
    <2> QED
      BY <1>1, <2>1, <2>3, Zenon
  <1> QED
    BY <1>2, <1>3, <1>4, <1>5, <1>6, ChainSteps, Zenon DEF ChainStep

\* Every step keeps the types.
LEMMA TypeNext ==
  ASSUME TypeInv, LinkInv, Next
  PROVE  TypeInv'
  <1>1. now' \in Nat /\ nextTurn' \in [Nodes -> Nat] /\ pc' \in [Nodes -> Places]
    <2>1. now \in Nat /\ nextTurn \in [Nodes -> Nat] /\ pc \in [Nodes -> Places]
      BY Zenon DEF TypeInv
    <2>2. CASE UNCHANGED <<now, mined, nextTurn, pc>>
      BY <2>1, <2>2, Zenon
    <2>3. CASE now' = now + 1 /\ UNCHANGED <<mined, nextTurn, pc>>
      BY <2>1, <2>3
    <2>4. ASSUME NEW n \in Nodes, NEW to \in Places, NEW t \in Nat, Moves(n, to, t),
                 UNCHANGED <<now, mined>>
          PROVE  now' \in Nat /\ nextTurn' \in [Nodes -> Nat] /\ pc' \in [Nodes -> Places]
      <3>1. pc' = [pc EXCEPT ![n] = to] /\ nextTurn' = [nextTurn EXCEPT ![n] = t] /\ now' = now
        BY <2>4, Zenon DEF Moves
      <3> QED
        BY <2>1, <3>1, Zenon
    <2>5. ASSUME NEW n \in Nodes, Sends(n)
          PROVE  now' \in Nat /\ nextTurn' \in [Nodes -> Nat] /\ pc' \in [Nodes -> Places]
      <3>1. pc' = [pc EXCEPT ![n] = "turned"] /\ UNCHANGED <<now, nextTurn>>
        BY <2>5, Zenon DEF Sends
      <3> QED
        BY <2>1, <3>1, Zenon DEF Places
    <2> QED
      BY <2>2, <2>3, <2>4, <2>5, TurnSteps, Zenon DEF TurnStep
  <1>2. mined' \in Seq(ToSet(mined')) /\ \A i \in Mined' : mined'[i].height \in Nat
    <2>1. mined' = mined \/ \E n \in Nodes : mined' = Append(mined, Sent(n))
      BY ChainSteps, Zenon DEF ChainStep, Receives, Replays, Stores, Sends
    <2>2. CASE mined' = mined
      BY <2>2, Zenon DEF TypeInv, Mined, ToSet
    <2>3. ASSUME NEW n \in Nodes, mined' = Append(mined, Sent(n))
          PROVE  mined' \in Seq(ToSet(mined')) /\ \A i \in Mined' : mined'[i].height \in Nat
      <3>1. /\ Mined' = Mined \cup {Len(mined')} /\ mined'[Len(mined')] = Sent(n)
            /\ mined' \in Seq(ToSet(mined')) /\ \A i \in Mined : mined'[i] = mined[i]
        BY <2>3, AppendFact, Zenon
      <3>2. Sent(n).height \in Nat
        BY Same, Zenon DEF Sent
      <3>3. \A i \in Mined : mined[i].height \in Nat
        BY Zenon DEF TypeInv
      <3> QED
        BY <3>1, <3>2, <3>3, Zenon
    <2> QED
      BY <2>1, <2>2, <2>3, Zenon
  <1> QED
    BY <1>1, <1>2, ChainType, QueueNext, Zenon DEF TypeInv

-----------------------------------------------------------------------------
(***************************************************************************)
(* The links and the theorem.                                              *)
(***************************************************************************)
\* What is stored is the head of the longer chain.
LEMMA StoreFact ==
  ASSUME TypeInv, NEW n \in Nodes, Stores(n)
  PROVE  LET l == Len(chain[n])
             b == box[n].block
         IN  /\ l \in Nat /\ Len(chain'[n]) = l + 1 /\ chain'[n][l + 1] = b /\ b \in Mined
             /\ \A i \in 1..l : chain'[n][i] = chain[n][i]
             /\ \A m \in Nodes \ {n} : chain'[m] = chain[m] /\ box'[m] = box[m]
             /\ mined[b].parent = IF l = 0 THEN 0 ELSE chain[n][l]
             /\ mined' = mined /\ box'[n].at = "idle"
  <1>1. /\ chain' = [chain EXCEPT ![n] = Append(chain[n], box[n].block)]
        /\ box' = [box EXCEPT ![n] = Idle] /\ box[n].at # "idle" /\ mined' = mined
        /\ mined[box[n].block].parent = HeadOf(n)
    BY Zenon DEF Stores, Push, Done
  <1>2. box[n].block \in Mined
    BY <1>1 DEF TypeInv, Boxes, Idle
  <1>3. chain \in [Nodes -> Seq(Mined)] /\ box \in [Nodes -> Boxes]
    BY Zenon DEF TypeInv
  <1>4. /\ chain'[n] = Append(chain[n], box[n].block) /\ box'[n].at = "idle"
        /\ \A m \in Nodes \ {n} : chain'[m] = chain[m] /\ box'[m] = box[m]
    BY <1>1, <1>3, Zenon DEF Idle
  <1>5. chain[n] \in Seq(Mined) /\ (chain[n] = <<>> <=> Len(chain[n]) = 0)
    BY <1>3
  <1>6. HeadOf(n) = IF Len(chain[n]) = 0 THEN 0 ELSE chain[n][Len(chain[n])]
    BY <1>5, Zenon DEF HeadOf, Last
  <1>7. /\ Len(chain[n]) \in Nat /\ Len(chain'[n]) = Len(chain[n]) + 1
        /\ chain'[n][Len(chain[n]) + 1] = box[n].block
        /\ \A i \in 1..Len(chain[n]) : chain'[n][i] = chain[n][i]
    BY <1>2, <1>4, <1>5
  <1> QED
    BY <1>1, <1>2, <1>4, <1>6, <1>7, SMTT(30), Zenon

\* Every step keeps the links.
LEMMA LinkNext ==
  ASSUME TypeInv, LinkInv, Next
  PROVE  LinkInv'
  <1>0. chain \in [Nodes -> Seq(Mined)] /\ box \in [Nodes -> Boxes]
    BY Zenon DEF TypeInv
  <1>1. CASE UNCHANGED <<mined, chain, box>>
    BY <1>1, Zenon DEF LinkInv, HeadOf
  <1>2. ASSUME NEW n \in Nodes, UNCHANGED <<mined, chain>>,
               box'[n].at = "replayed" => mined[box'[n].block].parent = HeadOf(n),
               \A m \in Nodes \ {n} : box'[m] = box[m]
        PROVE  LinkInv'
    <2>1. \A m \in Nodes : HeadOf(m)' = HeadOf(m)
      BY <1>2, Zenon DEF HeadOf
    <2>2. \A m \in Nodes : box'[m].at = "replayed" => mined[box'[m].block].parent = HeadOf(m)
      BY <1>2, Zenon DEF LinkInv
    <2> QED
      BY <1>2, <2>1, <2>2 DEF LinkInv
  <1>3. ASSUME NEW n \in Nodes, Receives(n) PROVE LinkInv'
    <2>1. PICK b \in Boxes : b.at # "replayed" /\ box' = [box EXCEPT ![n] = b]
      BY <1>3, Zenon DEF Receives
    <2>2. box'[n] = b /\ \A m \in Nodes \ {n} : box'[m] = box[m]
      BY <1>0, <2>1, Zenon
    <2>3. UNCHANGED <<mined, chain>>
      BY <1>3, Zenon DEF Receives
    <2> QED
      BY <1>2, <2>1, <2>2, <2>3, Zenon
  <1>4. ASSUME NEW n \in Nodes, Replays(n) PROVE LinkInv'
    <2>1. /\ UNCHANGED <<mined, chain>> /\ mined[box[n].block].parent = HeadOf(n)
          /\ box' = [box EXCEPT ![n].at = "replayed"] /\ box[n].at = "got"
      BY <1>4, Zenon DEF Replays
    <2>2. box[n] \in [block : Mined, at : {"got", "replayed"}]
      BY <1>0, <2>1 DEF Boxes, Idle
    <2>3. box'[n].block = box[n].block /\ \A m \in Nodes \ {n} : box'[m] = box[m]
      BY <1>0, <2>1, <2>2, Zenon
    <2> QED
      BY <1>2, <2>1, <2>3, Zenon
  <1>5. ASSUME NEW n \in Nodes, Sends(n) PROVE LinkInv'
    <2>1. /\ chain' = chain /\ mined' = Append(mined, Sent(n))
          /\ box' = [box EXCEPT ![n] = [block |-> Len(mined'), at |-> "got"]]
      BY <1>5, Zenon DEF Sends
    <2>2. \A i \in Mined : mined'[i] = mined[i]
      BY <2>1, AppendFact, Zenon
    <2>3. box'[n].at = "got" /\ \A m \in Nodes \ {n} : box'[m] = box[m]
      BY <1>0, <2>1, Zenon
    <2>4. \A m \in Nodes : HeadOf(m)' = HeadOf(m)
      BY <2>1, Zenon DEF HeadOf
    <2>5. ASSUME NEW m \in Nodes, NEW i \in 1..Len(chain[m])
          PROVE  mined'[chain[m][i]].parent = IF i = 1 THEN 0 ELSE chain[m][i - 1]
      <3>1. chain[m][i] \in Mined
        BY <1>0
      <3>2. mined[chain[m][i]].parent = IF i = 1 THEN 0 ELSE chain[m][i - 1]
        BY Zenon DEF LinkInv
      <3> QED
        BY <2>2, <3>1, <3>2, Zenon
    <2>6. ASSUME NEW m \in Nodes, box'[m].at = "replayed"
          PROVE  mined'[box'[m].block].parent = HeadOf(m)
      <3>1. box'[m] = box[m] /\ box[m].at = "replayed"
        BY <2>3, <2>6, Zenon
      <3>2. box[m].block \in Mined
        BY <1>0, <3>1 DEF Boxes, Idle
      <3> QED
        BY <2>2, <3>1, <3>2, Zenon DEF LinkInv
    <2>7. \A m \in Nodes : \A i \in 1..Len(chain'[m]) :
            mined'[chain'[m][i]].parent = IF i = 1 THEN 0 ELSE chain'[m][i - 1]
      BY <2>1, <2>5, Zenon
    <2>8. \A m \in Nodes : box'[m].at = "replayed" =>
            mined'[box'[m].block].parent = HeadOf(m)'
      BY <2>4, <2>6, Zenon
    <2> QED
      BY <2>7, <2>8, Zenon DEF LinkInv
  <1>6. ASSUME NEW n \in Nodes, Stores(n) PROVE LinkInv'
    <2> DEFINE l == Len(chain[n])
    <2>1. /\ l \in Nat /\ Len(chain'[n]) = l + 1 /\ chain'[n][l + 1] = box[n].block
          /\ \A i \in 1..l : chain'[n][i] = chain[n][i]
          /\ mined[box[n].block].parent = IF l = 0 THEN 0 ELSE chain[n][l]
      BY <1>6, StoreFact, Zenon
    <2>2. /\ \A m \in Nodes \ {n} : chain'[m] = chain[m] /\ box'[m] = box[m]
          /\ mined' = mined /\ box'[n].at = "idle"
      BY <1>6, StoreFact, Zenon
    <2>3. \A m \in Nodes \ {n} : HeadOf(m)' = HeadOf(m)
      BY <2>2, Zenon DEF HeadOf
    <2>4. \A m \in Nodes : box'[m].at = "replayed" => mined[box'[m].block].parent = HeadOf(m)'
      BY <2>2, <2>3 DEF LinkInv
    <2>5. ASSUME NEW i \in 1..(l + 1)
          PROVE  mined[chain'[n][i]].parent = IF i = 1 THEN 0 ELSE chain'[n][i - 1]
      <3>1. CASE i = l + 1
        <4>1. l # 0 => chain'[n][l] = chain[n][l]
          BY <2>1
        <4> QED
          BY <2>1, <3>1, <4>1
      <3>2. CASE i \in 1..l
        <4>1. mined[chain[n][i]].parent = IF i = 1 THEN 0 ELSE chain[n][i - 1]
          BY <3>2, Zenon DEF LinkInv
        <4>2. i # 1 => i - 1 \in 1..l
          BY <2>1, <3>2
        <4> QED
          BY <2>1, <3>2, <4>1, <4>2, Zenon
      <3> QED
        BY <2>1, <3>1, <3>2
    <2>6. ASSUME NEW m \in Nodes, NEW i \in 1..Len(chain'[m])
          PROVE  mined[chain'[m][i]].parent = IF i = 1 THEN 0 ELSE chain'[m][i - 1]
      <3>1. CASE m = n
        BY <2>1, <2>5, <3>1, Zenon
      <3>2. CASE m # n
        BY <2>2, <3>2 DEF LinkInv
      <3> QED
        BY <3>1, <3>2, Zenon
    <2> QED
      BY <2>2, <2>4, <2>6, Zenon DEF LinkInv
  <1> QED
    BY <1>1, <1>3, <1>4, <1>5, <1>6, ChainSteps, Zenon DEF ChainStep

\* A stored block is new to the chain, and another chain that has it has the same before it.
LEMMA StoreAgrees ==
  ASSUME TypeInv, LinkInv, MatchInv, NEW n \in Nodes, Stores(n), NEW m \in Nodes,
         NEW j \in 1..Len(chain[m]), chain[m][j] = box[n].block
  PROVE  j = Len(chain[n]) + 1 /\ \A k \in 1..Len(chain[n]) : chain[n][k] = chain[m][k]
  <1> DEFINE l == Len(chain[n])
  <1>1. l \in Nat /\ mined[box[n].block].parent = IF l = 0 THEN 0 ELSE chain[n][l]
    BY StoreFact, Zenon
  <1>2. mined[chain[m][j]].parent = IF j = 1 THEN 0 ELSE chain[m][j - 1]
    BY Zenon DEF LinkInv
  <1>3. chain[n] \in Seq(Mined) /\ chain[m] \in Seq(Mined)
    BY Zenon DEF TypeInv
  <1>4. Len(chain[m]) \in Nat /\ j \in Nat
    BY <1>3
  <1>5. CASE j = 1
    <2>1. l = 0 \/ chain[n][l] \in Mined
      BY <1>1, <1>3
    <2>2. 0 \notin Mined
      BY DEF Mined
    <2>3. l = 0
      BY <1>1, <1>2, <1>5, <2>1, <2>2, Zenon
    <2> QED
      BY <1>5, <2>3
  <1>6. CASE j # 1
    <2>1. j - 1 \in 1..Len(chain[m])
      BY <1>4, <1>6
    <2>2. chain[m][j - 1] \in Mined /\ 0 \notin Mined
      BY <1>3, <2>1 DEF Mined
    <2>3. l # 0 /\ chain[n][l] = chain[m][j - 1]
      BY <1>1, <1>2, <1>6, <2>2, Zenon
    <2>4. l \in 1..l
      BY <1>1, <2>3
    <2>5. l = j - 1 /\ \A k \in 1..l : chain[n][k] = chain[m][k]
      BY <2>1, <2>3, <2>4, Zenon DEF MatchInv
    <2> QED
      BY <1>4, <2>5
  <1> QED
    BY <1>5, <1>6, Zenon

\* Every step keeps the chains matching.
LEMMA MatchNext ==
  ASSUME TypeInv, LinkInv, MatchInv, Next
  PROVE  MatchInv'
  <1>1. CASE chain' = chain
    BY <1>1 DEF MatchInv
  <1>2. ASSUME NEW n \in Nodes, Stores(n) PROVE MatchInv'
    <2> DEFINE l == Len(chain[n])
    <2>1. /\ l \in Nat /\ Len(chain'[n]) = l + 1 /\ chain'[n][l + 1] = box[n].block
          /\ \A i \in 1..l : chain'[n][i] = chain[n][i]
          /\ \A m \in Nodes \ {n} : chain'[m] = chain[m]
      BY <1>2, StoreFact, Zenon
    <2>2. \A m \in Nodes : Len(chain[m]) \in Nat
      BY DEF TypeInv
    <2>3. ASSUME NEW m \in Nodes, NEW j \in 1..Len(chain[m])
          PROVE  chain'[m][j] = chain[m][j] /\ j \in 1..Len(chain'[m])
      BY <2>1, <2>2
    <2>4. ASSUME NEW m \in Nodes, NEW j \in 1..Len(chain'[m]), j \notin 1..Len(chain[m])
          PROVE  m = n /\ j = l + 1
      BY <2>1, <2>2, <2>4
    <2>5. ASSUME NEW m \in Nodes, NEW j \in 1..Len(chain[m]), chain[m][j] = box[n].block
          PROVE  j = l + 1 /\ \A k \in 1..l : chain'[n][k] = chain'[m][k]
      <3>1. j = l + 1 /\ \A k \in 1..l : chain[n][k] = chain[m][k]
        BY <1>2, <2>5, StoreAgrees, Zenon
      <3>2. \A k \in 1..l : k \in 1..Len(chain[m])
        BY <2>1, <2>2, <3>1
      <3> QED
        BY <2>1, <2>3, <3>1, <3>2, Zenon
    <2>6. ASSUME NEW m \in Nodes, NEW p \in Nodes,
                 NEW i \in 1..Len(chain'[m]), NEW j \in 1..Len(chain'[p]),
                 chain'[m][i] = chain'[p][j]
          PROVE  i = j /\ \A k \in 1..i : chain'[m][k] = chain'[p][k]
      <3>1. CASE i \in 1..Len(chain[m]) /\ j \in 1..Len(chain[p])
        <4>1. chain[m][i] = chain[p][j]
          BY <2>3, <2>6, <3>1, SMTT(30), Zenon
        <4>2. i = j /\ \A k \in 1..i : chain[m][k] = chain[p][k]
          BY <3>1, <4>1 DEF MatchInv
        <4>3. \A k \in 1..i : k \in 1..Len(chain[m]) /\ k \in 1..Len(chain[p])
          BY <2>2, <3>1, <4>2
        <4> QED
          BY <2>3, <4>2, <4>3, Zenon
      <3>2. CASE i \notin 1..Len(chain[m]) /\ j \in 1..Len(chain[p])
        <4>1. m = n /\ i = l + 1
          BY <2>4, <3>2, Zenon
        <4>2. chain[p][j] = box[n].block
          BY <2>1, <2>3, <2>6, <3>2, <4>1, Zenon
        <4>3. j = l + 1 /\ \A k \in 1..l : chain'[n][k] = chain'[p][k]
          BY <2>5, <3>2, <4>2, Zenon
        <4>4. \A k \in 1..i : k \in 1..l \/ k = i
          BY <2>1, <4>1
        <4> QED
          BY <2>6, <4>1, <4>3, <4>4, Zenon
      <3>3. CASE i \in 1..Len(chain[m]) /\ j \notin 1..Len(chain[p])
        <4>1. p = n /\ j = l + 1
          BY <2>4, <3>3, Zenon
        <4>2. chain[m][i] = box[n].block
          BY <2>1, <2>3, <2>6, <3>3, <4>1, Zenon
        <4>3. i = l + 1 /\ \A k \in 1..l : chain'[n][k] = chain'[m][k]
          BY <2>5, <3>3, <4>2, Zenon
        <4>4. \A k \in 1..i : k \in 1..l \/ k = i
          BY <2>1, <4>3
        <4> QED
          BY <2>6, <4>1, <4>3, <4>4, Zenon
      <3>4. CASE i \notin 1..Len(chain[m]) /\ j \notin 1..Len(chain[p])
        BY <2>4, <3>4, Zenon
      <3> QED
        BY <3>1, <3>2, <3>3, <3>4, Zenon
    <2> QED
      BY <2>6, Zenon DEF MatchInv
  <1> QED
    BY <1>1, <1>2, ChainSteps, Zenon DEF ChainStep, Receives, Replays, Sends

\* The first states: no block, and every miner before its first turn.
LEMMA InitIInv == Init => IInv
  <1> SUFFICES ASSUME Init PROVE IInv
    BY Zenon
  <1>1. mined = <<>> /\ Len(mined) = 0 /\ Mined = {}
    BY DEF Init, Mined
  <1>2. <<>> \in Seq(Mined) /\ mined \in Seq(ToSet(mined))
    BY <1>1
  <1>3. /\ now \in Nat /\ nextTurn \in [Nodes -> Nat] /\ pc \in [Nodes -> Places]
        /\ box \in [Nodes -> Boxes] /\ net = {}
        /\ \A n \in Nodes : chain[n] = <<>> /\ box[n].at = "idle" /\ pc[n] = "sync"
    BY Zenon DEF Init, Places, Boxes, Idle
  <1>4. /\ chain \in [Nodes -> Seq(Mined)] /\ stash \in [Nodes -> Seq(Mined)]
        /\ returning \in [Nodes -> SUBSET (Seq(Mined) \ {<<>>})]
    BY <1>2, Zenon DEF Init
  <1>5. TypeInv
    BY <1>1, <1>2, <1>3, <1>4, Zenon DEF TypeInv
  <1>6. TurnInv /\ HeightInv
    BY <1>1, <1>3, Zenon DEF TurnInv, HeightInv
  <1>7. LinkInv /\ MatchInv
    BY <1>3 DEF LinkInv, MatchInv
  <1> QED
    BY <1>5, <1>6, <1>7, Zenon DEF IInv

\* The invariant holds in every reachable state.
LEMMA Invariant == Spec => []IInv
  <1>1. IInv /\ [Next]_vars => IInv'
    <2> SUFFICES ASSUME IInv, [Next]_vars PROVE IInv'
      BY Zenon
    <2>1. CASE Next
      BY <2>1, TypeNext, TurnNext, LinkNext, MatchNext, Zenon DEF IInv
    <2>2. CASE UNCHANGED vars
      <3>1. UNCHANGED <<now, nextTurn, pc, mined, chain, box, stash, returning, net>>
        BY <2>2, Zenon DEF vars, procVars, mainVars, chainVars
      <3>2. TypeInv'
        BY <3>1, ZenonT(30) DEF IInv, TypeInv, Mined, Boxes, ToSet
      <3>3. TurnInv' /\ HeightInv'
        BY <3>1, ZenonT(30) DEF IInv, TurnInv, HeightInv, Mined, Owner
      <3>4. \A n \in Nodes : HeadOf(n)' = HeadOf(n)
        BY <3>1, Zenon DEF HeadOf
      <3>5. LinkInv'
        <4>1. \A n \in Nodes : \A i \in 1..Len(chain'[n]) :
                mined'[chain'[n][i]].parent = IF i = 1 THEN 0 ELSE chain'[n][i - 1]
          BY <3>1, Zenon DEF IInv, LinkInv
        <4>2. \A n \in Nodes :
                box'[n].at = "replayed" => mined'[box'[n].block].parent = HeadOf(n)'
          BY <3>1, <3>4, Zenon DEF IInv, LinkInv
        <4> QED
          BY <4>1, <4>2, Zenon DEF LinkInv
      <3>6. MatchInv'
        <4>1. MatchInv /\ chain' = chain
          BY <3>1, Zenon DEF IInv
        <4> QED
          BY <4>1, SMT DEF MatchInv
      <3> QED
        BY <3>2, <3>3, <3>5, <3>6, Zenon DEF IInv
    <2> QED
      BY <2>1, <2>2, Zenon
  <1> QED
    BY <1>1, InitIInv, PTL DEF Spec

\* No two blocks of a database have the same height, also when a miner restarts in its
\* turn (runCurrentTurn, sync), and two miners that store the same block store the same
\* blocks before it (CheckAndPushNewBlock): for every number of miners, blocks and
\* crashes, and whatever requests do to the states.
THEOREM ChainsAgree == Spec => []ChainsMatch
  <1>1. IInv => ChainsMatch
    <2> SUFFICES ASSUME IInv PROVE ChainsMatch
      BY Zenon
    <2>1. DOMAIN mined = Mined
      BY DEF IInv, TypeInv, Mined
    <2>2. ASSUME NEW n \in Nodes, NEW m \in Nodes, NEW i \in DOMAIN chain[n],
                 NEW j \in DOMAIN chain[m], chain[n][i] = chain[m][j]
          PROVE  SubSeq(chain[n], 1, i) = SubSeq(chain[m], 1, j)
      <3>1. chain[n] \in Seq(Mined) /\ chain[m] \in Seq(Mined)
        BY Zenon DEF IInv, TypeInv
      <3>2. i \in 1..Len(chain[n]) /\ j \in 1..Len(chain[m])
        BY <3>1
      <3>3. i = j /\ \A k \in 1..i : chain[n][k] = chain[m][k]
        BY <2>2, <3>2 DEF IInv, MatchInv
      <3>4. SubSeq(chain[n], 1, i) = [k \in 1..i |-> chain[n][k]]
        BY <3>1, <3>2
      <3>5. SubSeq(chain[m], 1, i) = [k \in 1..i |-> chain[m][k]]
        BY <3>1, <3>2, <3>3
      <3> QED
        BY <3>3, <3>4, <3>5, ZenonT(30)
    <2> QED
      BY <2>1, <2>2, Zenon DEF ChainsMatch, IInv, HeightInv
  <1> QED
    BY <1>1, Invariant, PTL

=============================================================================
