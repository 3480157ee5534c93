------------------------ MODULE ChainNameClaim_proofs ------------------------
(***************************************************************************)
(* For all addresses, names, requests and bounds: types, StatusFollowsChain   *)
(* and LiveClaimKept.                                                        *)
(***************************************************************************)
EXTENDS ChainNameClaim, SequenceTheorems, TLAPS

\* A claim that can still be taken up has a retry left.
RetriesLeft == \A a \in Addresses : status[a] \in Live => retries[a] < MaxRetries

\* The index on the name: no two rows have one.
NamesUnique ==
  \A a, b \in Addresses : a # b /\ status[a] # "none" /\ status[b] # "none" => name[a] # name[b]

(* What the worker of a has seen at the chain still stands when it comes to   *)
(* write, as long as the row has the status it will ask for: only this        *)
(* worker gives that status, and the name with it.                           *)
SeenStands(a) ==
  /\ status[a] = "preclaimed" =>
       /\ pc[a] \in {"claim", "owned", "given"} => read[a].name = name[a]
       /\ pc[a] \in {"owned", "claimed"} => owner[name[a]] = Sponsor
       /\ pc[a] = "given" => owner[name[a]] = a
  /\ status[a] = "claimed" =>
       /\ pc[a] = "update" => read[a].name = name[a]
       /\ pc[a] \in {"updated", "transferred"} => owner[name[a]] = a

\* A worker whose transaction the chain has taken holds the wallet's turn.
AtChain == {"preclaimed", "claimed", "transferred"}
TurnHeld == \A a \in Addresses : pc[a] \in AtChain => Running(a)

IInv == TypeOK /\ RetriesLeft /\ NamesUnique /\ TurnHeld /\ \A a \in Addresses : SeenStands(a)

-----------------------------------------------------------------------------
(* Types, by what a step may touch. *)

Statuses == Live \cup {"none", "completed", "failed"}
Owners == Addresses \cup {Nobody, Sponsor, Stranger}
Reads == [name : Names, salt : Names \cup {NoSalt}]

TableTypes ==
  /\ status \in [Addresses -> Statuses] /\ name \in [Addresses -> Names]
  /\ salt \in [Addresses -> Names \cup {NoSalt}]
  /\ retries \in [Addresses -> 0..MaxRetries] /\ due \in [Addresses -> BOOLEAN]

ChainTypes == owner \in [Names -> Owners] /\ age \in [Addresses -> {"new", "ripe", "old"}]

WorkerTypes == pc \in [Addresses -> PCs] /\ read \in [Addresses -> Reads] /\ queue \in Seq(Addresses)

RequestTypes == asks \in [Requests -> Asks \cup {NoRequest}]

BoundTypes == requests \in 0..MaxRequests /\ faults \in 0..MaxFaults

LEMMA TypesInParts ==
  /\ TypeOK <=> TableTypes /\ ChainTypes /\ WorkerTypes /\ RequestTypes /\ BoundTypes
  /\ TypeOK' <=> TableTypes' /\ ChainTypes' /\ WorkerTypes' /\ RequestTypes' /\ BoundTypes'
  BY DEF TypeOK, TableTypes, ChainTypes, WorkerTypes, RequestTypes, BoundTypes, Statuses, Owners, Reads

LEMMA UnreadType == AName \in Names /\ Unread \in Reads
<1>1. AName \in Names
  BY NameAssumption DEF AName
<1> QED BY <1>1 DEF Unread, Reads

LEMMA QueueTypes ==
  ASSUME queue \in Seq(Addresses), NEW a \in Addresses
  PROVE  /\ Enqueue(a) => queue' \in Seq(Addresses)
         /\ Running(a) => Tail(queue) \in Seq(Addresses)
  BY AppendProperties, HeadTailProperties DEF Enqueue, Running

(* What a worker that goes to p may do with the queue: leave it, join it, or   *)
(* give up its turn, which is not another's.                                 *)
Turn(a, p) ==
  \/ queue' = queue /\ (p \in AtChain => Running(a))
  \/ queue' = Append(queue, a) /\ p \notin AtChain
  \/ Running(a) /\ queue' = Tail(queue) /\ p \notin AtChain

LEMMA TurnKept ==
  ASSUME WorkerTypes, TurnHeld, NEW a \in Addresses, NEW p, GoTo(a, p), Turn(a, p)
  PROVE  queue' \in Seq(Addresses) /\ TurnHeld'
<1>1. queue' \in Seq(Addresses)
  BY QueueTypes DEF Turn, WorkerTypes, Enqueue
<1>2. ASSUME NEW b \in Addresses, pc'[b] \in AtChain PROVE Running(b)'
  <2>1. CASE b = a
    <3>1. p \in AtChain
      BY <1>2, <2>1 DEF WorkerTypes, GoTo
    <3> QED BY <2>1, <3>1 DEF Turn, Running
  <2>2. CASE b # a
    <3>1. Running(b)
      BY <1>2, <2>2 DEF WorkerTypes, GoTo, TurnHeld
    <3>2. ~Running(a)
      BY <2>2, <3>1 DEF Running
    <3>3. CASE queue' = queue
      BY <3>1, <3>3 DEF Running
    <3>4. CASE queue' = Append(queue, a)
      BY <3>1, <3>4 DEF Running, WorkerTypes
    <3> QED BY <3>2, <3>3, <3>4 DEF Turn
  <2> QED BY <2>1, <2>2
<1> QED BY <1>1, <1>2 DEF TurnHeld

\* A failure stays within the bound.
LEMMA FaultTypes == BoundTypes /\ Fault => faults' \in 0..MaxFaults
  BY BoundAssumption DEF BoundTypes, Fault

LEMMA RequestBound ==
  BoundTypes /\ requests < MaxRequests /\ requests' = requests + 1 => requests' \in 0..MaxRequests
  BY BoundAssumption DEF BoundTypes

-----------------------------------------------------------------------------
LEMMA InitInvariant == Init => IInv
<1> SUFFICES ASSUME Init PROVE IInv
  OBVIOUS
<1>0. PICK F \in {{}} \cup {{a} : a \in Addresses} :
        /\ status = [a \in Addresses |-> IF a \in F THEN "failed" ELSE "none"]
        /\ retries = [a \in Addresses |-> IF a \in F THEN MaxRetries ELSE 0]
  BY DEF Init
<1>1. \A a, b \in F : a = b
  BY <1>0
<1>2. TableTypes
  <2>1. 0 \in 0..MaxRetries /\ MaxRetries \in 0..MaxRetries
    BY BoundAssumption
  <2> QED BY <1>0, <2>1, UnreadType DEF Init, TableTypes, Statuses
<1>3. ChainTypes /\ RequestTypes /\ BoundTypes
  BY BoundAssumption DEF Init, ChainTypes, RequestTypes, BoundTypes, Owners
<1>4. WorkerTypes
  BY UnreadType, EmptySeq DEF Init, WorkerTypes, PCs
<1>5. RetriesLeft /\ NamesUnique
  <2>1. \A a \in Addresses : status[a] \notin Live
    BY <1>0 DEF Live
  <2>2. \A a \in Addresses : status[a] # "none" => a \in F
    BY <1>0
  <2> QED BY <1>1, <2>1, <2>2 DEF RetriesLeft, NamesUnique
<1>6. \A a \in Addresses : SeenStands(a)
  BY <1>0 DEF Init, SeenStands
<1>7. TurnHeld
  BY DEF Init, TurnHeld, AtChain
<1> QED BY <1>2, <1>3, <1>4, <1>5, <1>6, <1>7, TypesInParts DEF IInv

-----------------------------------------------------------------------------
(* Steps of the worker of a. *)

(* It goes on, and the table and the chain stay as they are: what it says it  *)
(* has seen must be so.                                                      *)
LEMMA WorkerMoves ==
  ASSUME IInv, NEW a \in Addresses, UNCHANGED <<table, onChain, asks>>,
         NEW p \in PCs, GoTo(a, p), NEW r \in Reads, read' = [read EXCEPT ![a] = r],
         Turn(a, p), BoundTypes',
         status[a] = "preclaimed" =>
            /\ p \in {"claim", "owned", "given"} => r.name = name[a]
            /\ p \in {"owned", "claimed"} => owner[name[a]] = Sponsor
            /\ p = "given" => owner[name[a]] = a,
         status[a] = "claimed" =>
            /\ p = "update" => r.name = name[a]
            /\ p \in {"updated", "transferred"} => owner[name[a]] = a
  PROVE  IInv'
<1>0. TableTypes /\ ChainTypes /\ WorkerTypes /\ RequestTypes
  BY TypesInParts DEF IInv
<1>1. TableTypes' /\ ChainTypes' /\ RequestTypes' /\ RetriesLeft' /\ NamesUnique'
  BY <1>0 DEF IInv, TableTypes, ChainTypes, RequestTypes, RetriesLeft, NamesUnique, table, onChain
<1>2. WorkerTypes'
  BY <1>0, TurnKept DEF WorkerTypes, GoTo, IInv
<1>3. TurnHeld'
  BY <1>0, TurnKept DEF IInv
<1>4. ASSUME NEW b \in Addresses PROVE SeenStands(b)'
  <2>0. SeenStands(b) /\ UNCHANGED <<status, name, owner>>
    BY DEF IInv, table, onChain
  <2>1. CASE b = a
    <3>1. pc'[a] = p /\ read'[a] = r
      BY <1>0 DEF WorkerTypes, GoTo
    <3> QED BY <2>0, <2>1, <3>1 DEF SeenStands
  <2>2. CASE b # a
    <3>1. pc'[b] = pc[b] /\ read'[b] = read[b]
      BY <1>0, <2>2 DEF WorkerTypes, GoTo
    <3> QED BY <2>0, <3>1 DEF SeenStands
  <2> QED BY <2>1, <2>2
<1> QED BY <1>1, <1>2, <1>3, <1>4, TypesInParts DEF IInv

(* It writes the row it holds, or finds it changed, and is done.             *)
LEMMA WorkerWrites ==
  ASSUME IInv, NEW a \in Addresses, UNCHANGED <<name, owner, asks, bounds>>, Done(a), Turn(a, "idle"),
         NEW s \in Statuses, status' = [status EXCEPT ![a] = s],
         s = status[a] \/ (s # "none" /\ status[a] \in Live),
         salt' \in [Addresses -> Names \cup {NoSalt}], due' \in [Addresses -> BOOLEAN],
         age' \in [Addresses -> {"new", "ripe", "old"}],
         NEW k \in 0..MaxRetries, retries' = [retries EXCEPT ![a] = k], s \in Live => k < MaxRetries
  PROVE  IInv'
<1>0. TableTypes /\ ChainTypes /\ WorkerTypes /\ RequestTypes /\ BoundTypes
  BY TypesInParts DEF IInv
<1>1. TableTypes' /\ ChainTypes' /\ RequestTypes' /\ BoundTypes'
  BY <1>0 DEF TableTypes, ChainTypes, RequestTypes, BoundTypes, bounds
<1>2. WorkerTypes' /\ TurnHeld'
  <2>1. queue' \in Seq(Addresses) /\ TurnHeld'
    BY <1>0, TurnKept DEF IInv, Done
  <2> QED BY <1>0, <2>1, UnreadType DEF WorkerTypes, Done, GoTo, PCs
<1>3. RetriesLeft'
  BY <1>0 DEF IInv, RetriesLeft, TableTypes
<1>4. NamesUnique'
  <2>1. \A b \in Addresses : status'[b] # "none" => status[b] # "none"
    BY <1>0 DEF TableTypes, Live
  <2> QED BY <2>1 DEF IInv, NamesUnique
<1>5. ASSUME NEW b \in Addresses PROVE SeenStands(b)'
  <2>0. SeenStands(b) /\ UNCHANGED <<name, owner>>
    BY DEF IInv
  <2>1. CASE b = a
    <3>1. pc'[a] = "idle"
      BY <1>0 DEF WorkerTypes, Done, GoTo
    <3> QED BY <2>1, <3>1 DEF SeenStands
  <2>2. CASE b # a
    <3>1. pc'[b] = pc[b] /\ read'[b] = read[b] /\ status'[b] = status[b]
      BY <1>0, <2>2 DEF WorkerTypes, TableTypes, Done, GoTo
    <3> QED BY <2>0, <3>1 DEF SeenStands
  <2> QED BY <2>1, <2>2
<1> QED BY <1>1, <1>2, <1>3, <1>4, <1>5, TypesInParts DEF IInv

(* A transaction of the worker of a gives the name of its row from nobody to  *)
(* the sponsor, or from the sponsor to a: of the row of another worker it is   *)
(* not the name, or that name was nobody's.                                  *)
LEMMA WorkerGives ==
  ASSUME IInv, NEW a \in Addresses, UNCHANGED <<table, age, asks>>,
         NEW p \in PCs, GoTo(a, p), NEW r \in Reads, read' = [read EXCEPT ![a] = r],
         Turn(a, p), BoundTypes', p \notin {"claim", "owned", "given", "update", "updated"},
         NEW o \in Owners, owner' = [owner EXCEPT ![name[a]] = o],
         \/ o = owner[name[a]]
         \/ owner[name[a]] = Nobody
         \/ owner[name[a]] = Sponsor /\ o = a /\ status[a] # "none",
         p = "claimed" => o = Sponsor, p = "transferred" => o = a
  PROVE  IInv'
<1>0. TableTypes /\ ChainTypes /\ WorkerTypes /\ RequestTypes
  BY TypesInParts DEF IInv
<1>1. TableTypes' /\ ChainTypes' /\ RequestTypes' /\ RetriesLeft' /\ NamesUnique'
  BY <1>0 DEF IInv, TableTypes, ChainTypes, RequestTypes, RetriesLeft, NamesUnique, table
<1>2. WorkerTypes'
  BY <1>0, TurnKept DEF WorkerTypes, GoTo, IInv
<1>3. TurnHeld'
  BY <1>0, TurnKept DEF IInv
<1>4. ASSUME NEW b \in Addresses PROVE SeenStands(b)'
  <2>0. SeenStands(b) /\ UNCHANGED <<status, name>> /\ name[a] \in Names /\ name[b] \in Names
    BY <1>0 DEF IInv, TableTypes, table
  <2>1. CASE b = a
    <3>1. pc'[a] = p /\ read'[a] = r /\ owner'[name[a]] = o
      BY <1>0, <2>0 DEF WorkerTypes, ChainTypes, GoTo
    <3> QED BY <2>0, <2>1, <3>1 DEF SeenStands
  <2>2. CASE b # a
    <3>1. pc'[b] = pc[b] /\ read'[b] = read[b]
      BY <1>0, <2>2 DEF WorkerTypes, GoTo
    <3>2. status[b] = "none" \/ owner[name[b]] \notin {Sponsor, b} \/ owner'[name[b]] = owner[name[b]]
      <4>1. CASE name[b] # name[a]
        BY <1>0, <2>0, <4>1 DEF ChainTypes
      <4>2. CASE name[b] = name[a]
        <5>1. owner[name[a]] = Nobody => owner[name[b]] \notin {Sponsor, b}
          BY <4>2, NameAssumption DEF Nobody, Sponsor
        <5>2. status[a] # "none" => status[b] = "none"
          BY <2>2, <4>2 DEF IInv, NamesUnique
        <5>3. o = owner[name[a]] => owner'[name[b]] = owner[name[b]]
          BY <1>0, <2>0, <4>2 DEF ChainTypes
        <5> QED BY <5>1, <5>2, <5>3
      <4> QED BY <4>1, <4>2
    <3> QED BY <2>0, <3>1, <3>2 DEF SeenStands
  <2> QED BY <2>1, <2>2
<1> QED BY <1>1, <1>2, <1>3, <1>4, TypesInParts DEF IInv

-----------------------------------------------------------------------------
(* The actions of the worker. *)

\* What every step may take for granted.
LEMMA Known ==
  ASSUME IInv, NEW a \in Addresses
  PROVE  /\ TableTypes /\ ChainTypes /\ WorkerTypes /\ RequestTypes /\ BoundTypes
         /\ SeenStands(a) /\ name[a] \in Names /\ read[a] \in Reads /\ status[a] \in Statuses
         /\ owner[name[a]] \in Owners /\ retries[a] \in 0..MaxRetries
         /\ status[a] \in Live => retries[a] < MaxRetries
         /\ read = [read EXCEPT ![a] = read[a]] /\ queue \in Seq(Addresses)
         /\ status = [status EXCEPT ![a] = status[a]] /\ retries = [retries EXCEPT ![a] = retries[a]]
<1>1. TableTypes /\ ChainTypes /\ WorkerTypes /\ RequestTypes /\ BoundTypes
  BY TypesInParts DEF IInv
<1> QED BY <1>1 DEF IInv, TableTypes, ChainTypes, WorkerTypes, RetriesLeft

\* It is started, kicked, or gives up before a transaction.
LEMMA BeginKeeps ==
  ASSUME IInv, NEW a \in Addresses, StartDue(a) \/ Kick(a) \/ Fails(a)
  PROVE  IInv'
<1>0. /\ BoundTypes /\ read[a] \in Reads /\ queue \in Seq(Addresses)
      /\ read' = [read EXCEPT ![a] = read[a]] /\ queue' = queue
      /\ UNCHANGED <<table, onChain, asks>>
  BY Known DEF StartDue, Kick, Fails, Begin
<1>1. BoundTypes'
  BY <1>0, FaultTypes, RequestBound DEF StartDue, Kick, Fails, BoundTypes, bounds
<1>2. \E p \in {"funds preclaim", "funds claim", "funds update", "retry"} : GoTo(a, p)
  <2>1. CASE Fails(a)
    BY <2>1 DEF Fails
  <2>2. CASE StartDue(a) \/ Kick(a)
    <3>1. status[a] \in {"pending", "preclaimed", "claimed"} /\ GoTo(a, FundsOf[status[a]])
      BY <2>2 DEF StartDue, Kick, Begin, Live
    <3>2. /\ FundsOf["pending"] = "funds preclaim" /\ FundsOf["preclaimed"] = "funds claim"
          /\ FundsOf["claimed"] = "funds update"
      BY DEF FundsOf
    <3> QED BY <3>1, <3>2
  <2> QED BY <2>1, <2>2
<1>3. PICK p \in PCs : GoTo(a, p) /\ p \in {"funds preclaim", "funds claim", "funds update", "retry"}
  BY <1>2 DEF PCs
<1>4. Turn(a, p)
  BY <1>0, <1>3 DEF Turn, AtChain
<1> QED BY <1>0, <1>1, <1>3, <1>4, WorkerMoves

\* Funds are there.
LEMMA FundedKeeps ==
  ASSUME IInv, NEW a \in Addresses, FundedPreclaim(a) \/ FundedClaim(a) \/ FundedUpdate(a)
  PROVE  IInv'
<1>0. /\ BoundTypes /\ read[a] \in Reads /\ queue \in Seq(Addresses) /\ name[a] \in Names
      /\ read = [read EXCEPT ![a] = read[a]] /\ salt[a] \in Names \cup {NoSalt}
      /\ UNCHANGED <<table, onChain, asks, bounds>>
  BY Known DEF FundedPreclaim, FundedClaim, FundedUpdate, TableTypes
<1>1. BoundTypes' /\ {"idle", "preclaim", "claim", "update"} \subseteq PCs
  BY <1>0 DEF BoundTypes, bounds, PCs
<1>2. CASE FundedPreclaim(a)
  <2>1. GoTo(a, "preclaim") /\ Turn(a, "preclaim") /\ read' = read
    BY <1>2 DEF FundedPreclaim, Enqueue, Turn, AtChain
  <2> QED BY <1>0, <1>1, <2>1, WorkerMoves
<1>3. CASE FundedClaim(a)
  <2> DEFINE r == [name |-> name[a], salt |-> salt[a]]
  <2>1. r \in Reads /\ r.name = name[a] /\ Turn(a, "claim") /\ Turn(a, "idle")
    BY <1>0, <1>3 DEF Reads, FundedClaim, Turn, AtChain
  <2>2. \/ GoTo(a, "claim") /\ read' = [read EXCEPT ![a] = r]
        \/ GoTo(a, "idle") /\ read' = read
    BY <1>3 DEF FundedClaim
  <2> HIDE DEF r
  <2>4. CASE GoTo(a, "claim") /\ read' = [read EXCEPT ![a] = r]
    BY <1>0, <1>1, <2>1, <2>4, WorkerMoves
  <2>5. CASE GoTo(a, "idle") /\ read' = read
    BY <1>0, <1>1, <2>1, <2>5, WorkerMoves
  <2> QED BY <2>2, <2>4, <2>5
<1>4. CASE FundedUpdate(a)
  <2> DEFINE r == [name |-> name[a], salt |-> NoSalt]
  <2>1. r \in Reads /\ r.name = name[a] /\ Turn(a, "update") /\ Turn(a, "idle")
    BY <1>0, <1>4 DEF Reads, FundedUpdate, Turn, AtChain
  <2>2. \/ GoTo(a, "update") /\ read' = [read EXCEPT ![a] = r]
        \/ GoTo(a, "idle") /\ read' = read
    BY <1>4 DEF FundedUpdate
  <2> HIDE DEF r
  <2>3. CASE GoTo(a, "update") /\ read' = [read EXCEPT ![a] = r]
    BY <1>0, <1>1, <2>1, <2>3, WorkerMoves
  <2>4. CASE GoTo(a, "idle") /\ read' = read
    BY <1>0, <1>1, <2>1, <2>4, WorkerMoves
  <2> QED BY <2>2, <2>3, <2>4
<1> QED BY <1>2, <1>3, <1>4

\* The preclaim is submitted, unless the row has changed.
LEMMA SubmitPreclaimKeeps ==
  ASSUME IInv, NEW a \in Addresses, SubmitPreclaim(a)
  PROVE  IInv'
<1>0. /\ BoundTypes /\ name[a] \in Names
      /\ UNCHANGED <<table, onChain, asks, bounds>>
  BY Known DEF SubmitPreclaim
<1>1. BoundTypes' /\ {"idle", "preclaimed"} \subseteq PCs /\ Unread \in Reads
  BY <1>0, UnreadType DEF BoundTypes, bounds, PCs
<1> DEFINE r == [name |-> name[a], salt |-> name[a]]
<1>2. r \in Reads
  BY <1>0 DEF Reads
<1>3. \/ GoTo(a, "preclaimed") /\ Turn(a, "preclaimed") /\ read' = [read EXCEPT ![a] = r]
      \/ GoTo(a, "idle") /\ Turn(a, "idle") /\ read' = [read EXCEPT ![a] = Unread]
  BY DEF SubmitPreclaim, Done, Turn, AtChain
<1> HIDE DEF r
<1>4. CASE GoTo(a, "preclaimed") /\ Turn(a, "preclaimed") /\ read' = [read EXCEPT ![a] = r]
  BY <1>0, <1>1, <1>2, <1>4, WorkerMoves
<1>5. CASE GoTo(a, "idle") /\ Turn(a, "idle") /\ read' = [read EXCEPT ![a] = Unread]
  BY <1>0, <1>1, <1>5, WorkerMoves
<1> QED BY <1>3, <1>4, <1>5

\* The name is looked up: what is seen is what the branch says.
LEMMA LookUpKeeps ==
  ASSUME IInv, NEW a \in Addresses, LookUpName(a) \/ LookUpClaimed(a)
  PROVE  IInv'
<1>0. /\ BoundTypes /\ read[a] \in Reads /\ queue \in Seq(Addresses) /\ SeenStands(a)
      /\ read' = [read EXCEPT ![a] = read[a]]
      /\ UNCHANGED <<table, onChain, asks, bounds>>
  BY Known DEF LookUpName, LookUpClaimed
<1>1. BoundTypes'
  BY <1>0 DEF BoundTypes, bounds
<1>2. \A p : p \notin AtChain /\ (Enqueue(a) \/ queue' = queue) => Turn(a, p)
  BY DEF Enqueue, Turn
<1> DEFINE o == owner[read[a].name]
<1>3. CASE LookUpName(a)
  <2>1. pc[a] = "claim" /\ GoTo(a, ClaimBranch(a))
    BY <1>3 DEF LookUpName
  <2>2. age[a] \in {"new", "ripe", "old"}
    BY Known DEF ChainTypes
  <2>3. /\ ClaimBranch(a) \in {"owned", "given", "expired", "early", "claiming"}
        /\ ClaimBranch(a) = "owned" => o = Sponsor
        /\ ClaimBranch(a) = "given" => o = a
    BY <2>2, NameAssumption DEF ClaimBranch
  <2>4. ClaimBranch(a) \in PCs
    BY <2>3 DEF PCs
  <2>5. status[a] = "preclaimed" => read[a].name = name[a]
    BY <1>0, <2>1 DEF SeenStands
  <2>6. Turn(a, ClaimBranch(a))
    BY <1>2, <1>3, <2>3 DEF LookUpName, AtChain
  <2> QED BY <1>0, <1>1, <2>1, <2>3, <2>4, <2>5, <2>6, WorkerMoves
<1>4. CASE LookUpClaimed(a)
  <2> DEFINE p == IF o = a THEN "updated" ELSE IF o \in {Sponsor, Nobody} THEN "updating" ELSE "retry"
  <2>1. pc[a] = "update" /\ GoTo(a, p)
    BY <1>4 DEF LookUpClaimed
  <2>2. p \in {"updated", "updating", "retry"} /\ p \in PCs /\ (p = "updated" => o = a)
    BY DEF PCs
  <2>3. status[a] = "claimed" => read[a].name = name[a]
    BY <1>0, <2>1 DEF SeenStands
  <2> HIDE DEF p
  <2>4. Turn(a, p)
    BY <1>2, <1>4, <2>2 DEF LookUpClaimed, AtChain
  <2> QED BY <1>0, <1>1, <2>1, <2>2, <2>3, <2>4, WorkerMoves
<1> QED BY <1>3, <1>4

(* The locked writes after the chain, and the others that end the work.       *)
LEMMA RecordKeeps ==
  ASSUME IInv, NEW a \in Addresses,
         \/ RecordPreclaim(a) \/ RecordOwned(a) \/ RecordGiven(a) \/ ResetExpired(a)
         \/ WaitForBlock(a) \/ RecordClaim(a) \/ RecordTransfer(a) \/ MarkRetry(a)
  PROVE  IInv'
<1>0. /\ TableTypes /\ ChainTypes /\ status[a] \in Statuses /\ retries[a] \in 0..MaxRetries
      /\ read[a] \in Reads /\ salt[a] \in Names \cup {NoSalt}
      /\ status[a] \in Live => retries[a] < MaxRetries
      /\ status = [status EXCEPT ![a] = status[a]] /\ retries = [retries EXCEPT ![a] = retries[a]]
  BY Known DEF TableTypes
<1>1. Done(a) /\ UNCHANGED <<name, owner, asks, bounds>>
  BY DEF RecordPreclaim, RecordOwned, RecordGiven, ResetExpired, WaitForBlock, RecordClaim,
         RecordTransfer, MarkRetry, onChain
<1>2. Turn(a, "idle")
  <2>1. pc[a] \in AtChain => Running(a)
    BY DEF IInv, TurnHeld
  <2> QED BY <2>1 DEF RecordPreclaim, RecordOwned, RecordGiven, ResetExpired, WaitForBlock, RecordClaim,
                      RecordTransfer, MarkRetry, Turn, AtChain
<1>3. /\ age' \in [Addresses -> {"new", "ripe", "old"}]
      /\ salt' \in [Addresses -> Names \cup {NoSalt}]
      /\ due' \in [Addresses -> BOOLEAN]
  <2>1. age' = age \/ age' = [age EXCEPT ![a] = "new"]
    BY DEF RecordPreclaim, RecordOwned, RecordGiven, ResetExpired, WaitForBlock, RecordClaim,
           RecordTransfer, MarkRetry, onChain
  <2>2. salt' = salt \/ salt' = [salt EXCEPT ![a] = NoSalt] \/ salt' = [salt EXCEPT ![a] = read[a].salt]
    BY DEF RecordPreclaim, RecordOwned, RecordGiven, ResetExpired, WaitForBlock, RecordClaim,
           RecordTransfer, MarkRetry
  <2>3. due' = due \/ due' = [due EXCEPT ![a] = FALSE] \/ due' = [due EXCEPT ![a] = TRUE]
    BY DEF RecordPreclaim, RecordOwned, RecordGiven, ResetExpired, WaitForBlock, RecordClaim,
           RecordTransfer, MarkRetry, Write
  <2> QED BY <1>0, <2>1, <2>2, <2>3 DEF TableTypes, ChainTypes, Reads
<1>4. \/ status' = status /\ retries' = retries
      \/ /\ status[a] \in Live /\ retries' = retries
         /\ \E s \in {"preclaimed", "claimed", "completed"} : status' = [status EXCEPT ![a] = s]
      \/ /\ status[a] \in Live /\ retries' = [retries EXCEPT ![a] = 0]
         /\ status' = [status EXCEPT ![a] = "pending"]
      \/ /\ status[a] \in Live /\ retries' = [retries EXCEPT ![a] = retries[a] + 1]
         /\ status' = [status EXCEPT ![a] = IF retries[a] + 1 >= MaxRetries THEN "failed" ELSE status[a]]
  <2>1. CASE RecordPreclaim(a)
    BY <2>1 DEF RecordPreclaim, Write, Still, Live
  <2>2. CASE RecordOwned(a) \/ RecordGiven(a) \/ RecordClaim(a) \/ RecordTransfer(a)
    BY <2>2 DEF RecordOwned, RecordGiven, RecordClaim, RecordTransfer, Write, Still, Live
  <2>3. CASE ResetExpired(a)
    BY <2>3 DEF ResetExpired, Write, Still, Live
  <2>4. CASE WaitForBlock(a)
    BY <2>4 DEF WaitForBlock
  <2>5. CASE MarkRetry(a)
    <3>1. [retries EXCEPT ![a] = @ + 1] = [retries EXCEPT ![a] = retries[a] + 1]
      OBVIOUS
    <3>2. [status EXCEPT ![a] = IF retries[a] + 1 >= MaxRetries THEN "failed" ELSE @]
            = [status EXCEPT ![a] = IF retries[a] + 1 >= MaxRetries THEN "failed" ELSE status[a]]
      OBVIOUS
    <3> QED BY <2>5, <3>1, <3>2 DEF MarkRetry, Exhausted
  <2> QED BY <2>1, <2>2, <2>3, <2>4, <2>5
<1>5. CASE status' = status /\ retries' = retries
  BY <1>0, <1>1, <1>2, <1>3, <1>5, WorkerWrites
<1>6. ASSUME status[a] \in Live, retries' = retries,
             NEW s \in {"preclaimed", "claimed", "completed"}, status' = [status EXCEPT ![a] = s]
      PROVE  IInv'
  <2>1. s \in Statuses /\ s # "none"
    BY DEF Statuses, Live
  <2> QED BY <1>0, <1>1, <1>2, <1>3, <1>6, <2>1, WorkerWrites
<1>7. CASE /\ status[a] \in Live /\ retries' = [retries EXCEPT ![a] = 0]
           /\ status' = [status EXCEPT ![a] = "pending"]
  <2>1. "pending" \in Statuses /\ 0 \in 0..MaxRetries /\ 0 < MaxRetries
    BY BoundAssumption DEF Statuses, Live
  <2> QED BY <1>0, <1>1, <1>2, <1>3, <1>7, <2>1, WorkerWrites
<1>8. CASE /\ status[a] \in Live /\ retries' = [retries EXCEPT ![a] = retries[a] + 1]
           /\ status' = [status EXCEPT ![a] = IF retries[a] + 1 >= MaxRetries THEN "failed" ELSE status[a]]
  <2> DEFINE s == IF retries[a] + 1 >= MaxRetries THEN "failed" ELSE status[a]
             k == retries[a] + 1
  <2>1. s \in Statuses /\ s # "none"
    BY <1>0, <1>8 DEF Statuses, Live
  <2>2. k \in 0..MaxRetries
    BY <1>0, <1>8, BoundAssumption
  <2>3. s \in Live => k < MaxRetries
    BY <1>0, BoundAssumption DEF Live
  <2>4. status' = [status EXCEPT ![a] = s] /\ retries' = [retries EXCEPT ![a] = k]
    BY <1>8
  <2> HIDE DEF s, k
  <2> QED BY <1>1, <1>2, <1>3, <1>8, <2>1, <2>2, <2>3, <2>4, WorkerWrites
<1> QED BY <1>4, <1>5, <1>6, <1>7, <1>8
(* The transactions that give the name.                                      *)
LEMMA SubmitKeeps ==
  ASSUME IInv, NEW a \in Addresses, SubmitClaim(a) \/ SubmitTransfer(a)
  PROVE  IInv'
<1>0. /\ BoundTypes /\ read[a] \in Reads /\ Unread \in Reads /\ read = [read EXCEPT ![a] = read[a]]
      /\ UNCHANGED <<table, age, asks, bounds>>
  BY Known, UnreadType DEF SubmitClaim, SubmitTransfer
<1>1. BoundTypes' /\ {"claimed", "transferred", "retry", "idle"} \subseteq PCs /\ {Sponsor, a} \subseteq Owners
  BY <1>0 DEF BoundTypes, bounds, PCs, Owners
<1>2. Running(a)
  BY DEF SubmitClaim, SubmitTransfer
<1>3. \A p : (p \notin AtChain /\ queue' = Tail(queue)) \/ queue' = queue => Turn(a, p)
  BY <1>2 DEF Turn
<1>4. \/ /\ GoTo(a, "claimed") /\ owner' = [owner EXCEPT ![name[a]] = Sponsor] /\ owner[name[a]] = Nobody
         /\ read' = read /\ queue' = queue
      \/ /\ GoTo(a, "transferred") /\ owner' = [owner EXCEPT ![name[a]] = a] /\ owner[name[a]] = Sponsor
         /\ status[a] # "none" /\ read' = read /\ queue' = queue
      \/ GoTo(a, "retry") /\ queue' = Tail(queue) /\ read' = read /\ owner' = owner
      \/ GoTo(a, "idle") /\ queue' = Tail(queue) /\ read' = [read EXCEPT ![a] = Unread] /\ owner' = owner
  BY DEF SubmitClaim, SubmitTransfer, Claimable, Done
<1>5. CASE /\ GoTo(a, "claimed") /\ owner' = [owner EXCEPT ![name[a]] = Sponsor] /\ owner[name[a]] = Nobody
           /\ read' = read /\ queue' = queue
  <2>1. Turn(a, "claimed")
    BY <1>3, <1>5
  <2> QED BY <1>0, <1>1, <1>5, <2>1, WorkerGives
<1>6. CASE /\ GoTo(a, "transferred") /\ owner' = [owner EXCEPT ![name[a]] = a] /\ owner[name[a]] = Sponsor
           /\ status[a] # "none" /\ read' = read /\ queue' = queue
  <2>1. Turn(a, "transferred")
    BY <1>3, <1>6
  <2> QED BY <1>0, <1>1, <1>6, <2>1, WorkerGives
<1>7. CASE GoTo(a, "retry") /\ queue' = Tail(queue) /\ read' = read /\ owner' = owner
  <2>1. Turn(a, "retry") /\ UNCHANGED onChain
    BY <1>0, <1>3, <1>7 DEF AtChain, onChain
  <2> QED BY <1>0, <1>1, <1>7, <2>1, WorkerMoves
<1>8. CASE GoTo(a, "idle") /\ queue' = Tail(queue) /\ read' = [read EXCEPT ![a] = Unread] /\ owner' = owner
  <2>1. Turn(a, "idle") /\ UNCHANGED onChain
    BY <1>0, <1>3, <1>8 DEF AtChain, onChain
  <2> QED BY <1>0, <1>1, <1>8, <2>1, WorkerMoves
<1> QED BY <1>4, <1>5, <1>6, <1>7, <1>8

\* The same, the answer lost: the name was given or not.
LEMMA LoseAnswerKeeps ==
  ASSUME IInv, NEW a \in Addresses, LoseAnswer(a)
  PROVE  IInv'
<1>0. /\ BoundTypes /\ read[a] \in Reads /\ read' = [read EXCEPT ![a] = read[a]]
      /\ owner[name[a]] \in Owners /\ UNCHANGED <<table, age, asks>>
  BY Known DEF LoseAnswer
<1>1. BoundTypes'
  BY <1>0, FaultTypes DEF LoseAnswer, BoundTypes
<1>2. GoTo(a, "retry") /\ Turn(a, "retry") /\ "retry" \in PCs /\ {Sponsor, a} \subseteq Owners
  BY DEF LoseAnswer, Turn, AtChain, PCs, Owners
<1>3. PICK o \in {Landed(a), owner[name[a]]} : owner' = [owner EXCEPT ![name[a]] = o]
  BY DEF LoseAnswer
<1>4. \/ o = owner[name[a]]
      \/ owner[name[a]] = Nobody /\ o = Sponsor
      \/ owner[name[a]] = Sponsor /\ o = a /\ status[a] # "none"
  BY <1>3 DEF Landed, Claimable
<1>5. o \in Owners
  BY <1>0, <1>2, <1>4
<1> QED BY <1>0, <1>1, <1>2, <1>3, <1>4, <1>5, WorkerGives

-----------------------------------------------------------------------------
(* Requests, faults and the world. *)

\* The rows and the workers stay as they are, and no name is taken from the sponsor or a claimant.
LEMMA WorkersRest ==
  ASSUME IInv, UNCHANGED <<status, name, retries, pc, read, queue>>,
         TableTypes', ChainTypes', RequestTypes', BoundTypes',
         \A n \in Names : owner[n] # Nobody => owner'[n] = owner[n]
  PROVE  IInv'
<1>1. WorkerTypes' /\ RetriesLeft' /\ NamesUnique' /\ TurnHeld'
  BY TypesInParts DEF IInv, WorkerTypes, RetriesLeft, NamesUnique, TurnHeld, Running
<1>2. ASSUME NEW a \in Addresses PROVE SeenStands(a)'
  <2>1. SeenStands(a) /\ name[a] \in Names
    BY Known
  <2>2. owner[name[a]] \in {Sponsor, a} => owner'[name[a]] = owner[name[a]]
    BY <2>1, NameAssumption DEF Nobody, Sponsor
  <2> QED BY <2>1, <2>2 DEF SeenStands
<1> QED BY <1>1, <1>2, TypesInParts DEF IInv

\* A request reads, and changes nothing but what it knows.
LEMMA ReadKeeps ==
  ASSUME IInv, UNCHANGED <<table, onChain, pc, read, queue>>, RequestTypes', BoundTypes'
  PROVE  IInv'
<1>1. TableTypes' /\ ChainTypes' /\ UNCHANGED <<status, name, retries, owner>>
  BY TypesInParts DEF IInv, TableTypes, ChainTypes, table, onChain
<1> QED BY <1>1, WorkersRest

LEMMA ReadClaimKeeps ==
  ASSUME IInv, NEW q \in Requests, NEW a \in Addresses, NEW n \in Names, ReadClaim(q, a, n)
  PROVE  IInv'
<1>0. RequestTypes /\ BoundTypes
  BY Known
<1>1. BoundTypes'
  BY <1>0, RequestBound DEF ReadClaim, BoundTypes
<1>2. RequestTypes'
  <2> DEFINE m == status[a] = "failed" /\ name[a] = n
  <2>1. m \in BOOLEAN
    OBVIOUS
  <2>2. asks' = [asks EXCEPT ![q] = [next |-> "name", address |-> a, name |-> n, other |-> Nobody, mine |-> m]]
    BY DEF ReadClaim
  <2> HIDE DEF m
  <2>3. [next |-> "name", address |-> a, name |-> n, other |-> Nobody, mine |-> m] \in Asks
    BY <2>1 DEF Asks
  <2> QED BY <1>0, <2>2, <2>3 DEF RequestTypes
<1> QED BY <1>1, <1>2, ReadKeeps DEF ReadClaim

LEMMA ReadNameKeeps ==
  ASSUME IInv, NEW q \in Requests, ReadName(q)
  PROVE  IInv'
<1>0. RequestTypes /\ BoundTypes
  BY TypesInParts DEF IInv
<1>1. asks[q] \in Asks
  BY <1>0 DEF ReadName, At, RequestTypes
<1>2. CASE Drop(q)
  BY <1>0, <1>2, ReadKeeps DEF ReadName, Drop, RequestTypes, BoundTypes, bounds
<1>3. CASE ~Drop(q)
  <2> DEFINE o == IF Others(q) = {} THEN Nobody ELSE CHOOSE b \in Others(q) : TRUE
  <2>1. o \in Addresses \cup {Nobody}
    BY DEF Others, Holders
  <2>2. asks' = [asks EXCEPT ![q].next = "chain", ![q].other = o]
    BY <1>3 DEF ReadName
  <2> HIDE DEF o
  <2>3. RequestTypes'
    BY <1>0, <1>1, <2>1, <2>2 DEF RequestTypes, Asks
  <2> QED BY <1>0, <2>3, ReadKeeps DEF ReadName, BoundTypes, bounds
<1> QED BY <1>2, <1>3

LEMMA ReadOwnerKeeps ==
  ASSUME IInv, NEW q \in Requests, ReadOwner(q)
  PROVE  IInv'
<1>0. RequestTypes /\ BoundTypes
  BY TypesInParts DEF IInv
<1>1. asks[q] \in Asks
  BY <1>0 DEF ReadOwner, At, RequestTypes
<1>2. Drop(q) \/ asks' = [asks EXCEPT ![q].next = "save"]
  BY DEF ReadOwner
<1>3. RequestTypes'
  BY <1>0, <1>1, <1>2 DEF Drop, RequestTypes, Asks
<1> QED BY <1>0, <1>3, ReadKeeps DEF ReadOwner, BoundTypes, bounds

(* Its transaction: the row of its address is pending, that of the other is    *)
(* gone, and the index says that no third has the name.                      *)
LEMMA SaveKeeps ==
  ASSUME IInv, NEW q \in Requests, Save(q)
  PROVE  IInv'
<1> DEFINE c == asks[q].address
           n == asks[q].name
<1>0. TableTypes /\ ChainTypes /\ WorkerTypes /\ RequestTypes /\ BoundTypes
  BY TypesInParts DEF IInv
<1>1. c \in Addresses /\ n \in Names
  BY <1>0 DEF Save, At, RequestTypes, Asks
<1>2. ChainTypes' /\ RequestTypes' /\ BoundTypes' /\ UNCHANGED <<owner, pc, read, queue>>
  BY <1>0 DEF Save, Drop, ChainTypes, RequestTypes, BoundTypes, onChain, bounds
<1>3. CASE UNCHANGED table
  <2>1. TableTypes' /\ UNCHANGED <<status, name, retries>>
    BY <1>0, <1>3 DEF TableTypes, table
  <2> QED BY <1>2, <2>1, WorkersRest
<1>4. CASE /\ Holders(n) \ (Deleted(q) \cup {c}) = {}
           /\ status' = [b \in Addresses |-> IF b = c THEN "pending"
                                             ELSE IF b \in Deleted(q) THEN "none" ELSE status[b]]
           /\ name' = [name EXCEPT ![c] = n]
           /\ salt' = [salt EXCEPT ![c] = NoSalt]
           /\ retries' = [retries EXCEPT ![c] = 0]
           /\ due' = [due EXCEPT ![c] = TRUE]
  <2> HIDE DEF c, n
  <2>0. 0 \in 0..MaxRetries /\ 0 < MaxRetries
    BY BoundAssumption
  <2>1. TableTypes'
    BY <1>0, <1>1, <1>4, <2>0 DEF TableTypes, Statuses, Live
  <2>2. RetriesLeft'
    BY <1>0, <1>1, <1>4, <2>0 DEF IInv, RetriesLeft, TableTypes, Live
  <2>3. \A b \in Addresses : b # c => /\ name'[b] = name[b]
                                      /\ status'[b] = "none" \/ (status'[b] = status[b] /\ b \notin Deleted(q))
    BY <1>0, <1>1, <1>4 DEF TableTypes
  <2>4. name'[c] = n /\ status'[c] = "pending"
    BY <1>0, <1>1, <1>4 DEF TableTypes
  <2>5. NamesUnique'
    <3>1. \A b \in Addresses : b # c /\ status'[b] # "none" => status[b] # "none" /\ name'[b] # n
      BY <1>4, <2>3 DEF Holders
    <3> QED BY <2>3, <2>4, <3>1 DEF IInv, NamesUnique
  <2>6. ASSUME NEW b \in Addresses PROVE SeenStands(b)'
    <3>0. SeenStands(b)
      BY DEF IInv
    <3>1. CASE b = c
      BY <2>4, <3>1 DEF SeenStands
    <3>2. CASE b # c
      BY <1>2, <2>3, <3>0, <3>2 DEF SeenStands
    <3> QED BY <3>1, <3>2
  <2>7. WorkerTypes' /\ TurnHeld'
    BY <1>0, <1>2 DEF IInv, WorkerTypes, TurnHeld, Running
  <2> QED BY <1>2, <2>1, <2>2, <2>5, <2>6, <2>7, TypesInParts DEF IInv
<1> QED BY <1>3, <1>4 DEF Save

\* Everything in the process is gone, and nobody has seen anything.
LEMMA CrashKeeps == IInv /\ Crash => IInv'
<1> SUFFICES ASSUME IInv, Crash PROVE IInv'
  OBVIOUS
<1>0. TableTypes /\ ChainTypes /\ WorkerTypes /\ RequestTypes /\ BoundTypes
  BY TypesInParts DEF IInv
<1>1. TableTypes' /\ ChainTypes' /\ RequestTypes'
  BY <1>0 DEF Crash, TableTypes, ChainTypes, RequestTypes, table, onChain
<1>2. BoundTypes'
  BY <1>0, FaultTypes DEF Crash, BoundTypes
<1>3. WorkerTypes'
  BY UnreadType, EmptySeq DEF Crash, WorkerTypes, PCs
<1>4. RetriesLeft' /\ NamesUnique'
  BY DEF IInv, Crash, RetriesLeft, NamesUnique, table
<1>5. TurnHeld' /\ \A a \in Addresses : SeenStands(a)'
  BY DEF Crash, TurnHeld, SeenStands, AtChain
<1> QED BY <1>1, <1>2, <1>3, <1>4, <1>5, TypesInParts DEF IInv

\* A stranger takes a name nobody has.
LEMMA StrangerKeeps ==
  ASSUME IInv, NEW n \in Names, StrangerTakes(n)
  PROVE  IInv'
<1>0. TableTypes /\ ChainTypes /\ RequestTypes /\ BoundTypes
  BY Known, TypesInParts DEF IInv
<1>1. TableTypes' /\ RequestTypes'
  BY <1>0 DEF StrangerTakes, TableTypes, RequestTypes, table
<1>2. ChainTypes'
  BY <1>0 DEF StrangerTakes, ChainTypes, Owners
<1>3. BoundTypes'
  BY <1>0, FaultTypes DEF StrangerTakes, BoundTypes
<1>4. \A m \in Names : owner[m] # Nobody => owner'[m] = owner[m]
  BY <1>0 DEF StrangerTakes, ChainTypes
<1> QED BY <1>1, <1>2, <1>3, <1>4, WorkersRest DEF StrangerTakes, table

\* Preclaims age, and retry delays elapse.
LEMMA TimeKeeps ==
  ASSUME IInv, NEW a \in Addresses, NextBlock(a) \/ PreclaimExpires(a) \/ RetryElapses(a)
  PROVE  IInv'
<1>0. TableTypes /\ ChainTypes /\ RequestTypes /\ BoundTypes
  BY Known
<1>1. TableTypes' /\ RequestTypes' /\ ChainTypes'
  BY <1>0 DEF NextBlock, PreclaimExpires, RetryElapses, TableTypes, RequestTypes, ChainTypes, table, onChain
<1>2. BoundTypes'
  BY <1>0, FaultTypes DEF NextBlock, PreclaimExpires, RetryElapses, BoundTypes, bounds
<1> QED BY <1>1, <1>2, WorkersRest DEF NextBlock, PreclaimExpires, RetryElapses, table, onChain

-----------------------------------------------------------------------------
LEMMA NextInvariant == IInv /\ [Next]_vars => IInv'
<1> SUFFICES ASSUME IInv, [Next]_vars PROVE IInv'
  OBVIOUS
<1>1. CASE UNCHANGED vars
  <2>1. /\ UNCHANGED <<status, name, salt, retries, due, owner, age, pc, read, queue, asks, requests, faults>>
    BY <1>1 DEF vars, table, onChain, bounds
  <2>2. TypeOK' /\ RetriesLeft' /\ NamesUnique' /\ TurnHeld'
    BY <2>1 DEF IInv, TypeOK, RetriesLeft, NamesUnique, TurnHeld, Running
  <2>3. \A a \in Addresses : SeenStands(a)'
    BY <2>1 DEF IInv, SeenStands
  <2> QED BY <2>2, <2>3 DEF IInv
<1>2. ASSUME NEW q \in Requests, Save(q) PROVE IInv'
  BY <1>2, SaveKeeps
<1>3. ASSUME NEW q \in Requests,
             ReadName(q) \/ ReadOwner(q) \/ \E a \in Addresses, n \in Names : ReadClaim(q, a, n)
      PROVE  IInv'
  BY <1>3, ReadClaimKeeps, ReadNameKeeps, ReadOwnerKeeps
<1>4. ASSUME NEW a \in Addresses,
             \/ StartDue(a) \/ Kick(a) \/ Work(a) \/ Fails(a) \/ LoseAnswer(a)
             \/ NextBlock(a) \/ PreclaimExpires(a) \/ RetryElapses(a)
      PROVE  IInv'
  BY <1>4, BeginKeeps, FundedKeeps, SubmitPreclaimKeeps, LookUpKeeps, RecordKeeps, SubmitKeeps,
     LoseAnswerKeeps, TimeKeeps DEF Work
<1>5. ASSUME NEW n \in Names, StrangerTakes(n) PROVE IInv'
  BY <1>5, StrangerKeeps
<1> QED BY <1>1, <1>2, <1>3, <1>4, <1>5, CrashKeeps DEF Next

LEMMA Invariance == Spec => []IInv
  BY InitInvariant, NextInvariant, PTL DEF Spec

\* The claims, the chain, the workers and the queue stay in their types: TypeOK.
THEOREM TypeCorrect == Spec => []TypeOK
<1>1. IInv => TypeOK
  BY DEF IInv
<1> QED BY <1>1, Invariance, PTL

(* The sponsor's spends run one after another: of the workers whose            *)
(* transaction the chain has taken and whose row is not yet written there is   *)
(* one at most.                                                              *)
THEOREM OneAtChain ==
  Spec => [](\A a, b \in Addresses : pc[a] \in AtChain /\ pc[b] \in AtChain => a = b)
<1>1. IInv => \A a, b \in Addresses : pc[a] \in AtChain /\ pc[b] \in AtChain => a = b
  BY DEF IInv, TurnHeld, Running
<1> QED BY <1>1, Invariance, PTL

-----------------------------------------------------------------------------
(* What a step may never do. *)

\* Of the steps that do not write the row of a claim after the chain, none makes one claimed or completed.
LEMMA OnlyRecordsSettle ==
  ASSUME IInv, Next, NEW a \in Addresses, status'[a] # status[a], status'[a] \in {"claimed", "completed"}
  PROVE  RecordOwned(a) \/ RecordGiven(a) \/ RecordClaim(a) \/ RecordTransfer(a)
<1>0. TableTypes
  BY Known
<1>1. ASSUME NEW q \in Requests, Save(q) PROVE FALSE
  <2>1. status' = status \/ status'[a] \in {"pending", "none", status[a]}
    BY <1>1 DEF Save, table
  <2> QED BY <2>1
<1>2. ASSUME NEW b \in Addresses, Work(b)
      PROVE  RecordOwned(a) \/ RecordGiven(a) \/ RecordClaim(a) \/ RecordTransfer(a)
  <2>1. CASE b = a
    <3>1. CASE RecordPreclaim(a)
      BY <1>0, <3>1 DEF RecordPreclaim, Write, TableTypes
    <3>2. CASE ResetExpired(a)
      BY <1>0, <3>2 DEF ResetExpired, Write, TableTypes
    <3>3. CASE MarkRetry(a)
      BY <1>0, <3>3 DEF MarkRetry, TableTypes
    <3> QED BY <1>2, <2>1, <3>1, <3>2, <3>3 DEF Work, FundedPreclaim, FundedClaim, FundedUpdate,
                 SubmitPreclaim, LookUpName, WaitForBlock, SubmitClaim, LookUpClaimed, SubmitTransfer, table
  <2>2. CASE b # a
    <3>1. status'[a] = status[a]
      BY <1>0, <1>2, <2>2 DEF Work, FundedPreclaim, FundedClaim, FundedUpdate, SubmitPreclaim, RecordPreclaim,
         LookUpName, RecordOwned, RecordGiven, ResetExpired, WaitForBlock, SubmitClaim, RecordClaim,
         LookUpClaimed, SubmitTransfer, RecordTransfer, MarkRetry, Write, TableTypes, table
    <3> QED BY <3>1
  <2> QED BY <2>1, <2>2
<1>3. ASSUME UNCHANGED status PROVE FALSE
  BY <1>3
<1> QED BY <1>1, <1>2, <1>3 DEF Next, ReadClaim, ReadName, ReadOwner, StartDue, Kick, Begin, Fails, LoseAnswer, NextBlock,
             PreclaimExpires, RetryElapses, StrangerTakes, Crash, table

LEMMA StepFollowsChain ==
  IInv /\ [Next]_vars =>
    [\A a \in Addresses : status'[a] # status[a] =>
       /\ status'[a] = "claimed" => owner'[name'[a]] = Sponsor
       /\ status'[a] = "completed" => owner'[name'[a]] = a]_vars
<1> SUFFICES ASSUME IInv, Next, NEW a \in Addresses, status'[a] # status[a],
                    status'[a] \in {"claimed", "completed"}
             PROVE  /\ status'[a] = "claimed" => owner'[name'[a]] = Sponsor
                    /\ status'[a] = "completed" => owner'[name'[a]] = a
  OBVIOUS
<1>1. TableTypes /\ SeenStands(a)
  BY Known
<1>2. RecordOwned(a) \/ RecordGiven(a) \/ RecordClaim(a) \/ RecordTransfer(a)
  BY OnlyRecordsSettle
<1>3. UNCHANGED <<name, owner>>
  BY <1>2 DEF RecordOwned, RecordGiven, RecordClaim, RecordTransfer, onChain
<1>4. CASE RecordOwned(a) \/ RecordClaim(a)
  <2>1. status[a] = "preclaimed" /\ status'[a] = "claimed" /\ pc[a] \in {"owned", "claimed"}
    BY <1>1, <1>4 DEF RecordOwned, RecordClaim, Write, Still, TableTypes
  <2> QED BY <1>1, <1>3, <2>1 DEF SeenStands
<1>5. CASE RecordGiven(a)
  <2>1. status[a] = "preclaimed" /\ status'[a] = "completed" /\ pc[a] = "given"
    BY <1>1, <1>5 DEF RecordGiven, Write, Still, TableTypes
  <2> QED BY <1>1, <1>3, <2>1 DEF SeenStands
<1>6. CASE RecordTransfer(a)
  <2>1. status[a] = "claimed" /\ status'[a] = "completed" /\ pc[a] \in {"updated", "transferred"}
    BY <1>1, <1>6 DEF RecordTransfer, Write, Still, TableTypes
  <2> QED BY <1>1, <1>3, <2>1 DEF SeenStands
<1> QED BY <1>2, <1>4, <1>5, <1>6

(* A claim becomes claimed only when its name is the sponsor's, completed only  *)
(* when it is the address's: StatusFollowsChain.                             *)
THEOREM SettledAsOnChain == Spec => StatusFollowsChain
<1>1. Spec => [][Next]_vars
  BY PTL DEF Spec
<1> QED BY <1>1, Invariance, StepFollowsChain, PTL DEF StatusFollowsChain

LEMMA StepKeepsLive ==
  IInv /\ [Next]_vars =>
    [\A a \in Addresses : status[a] \in Live \cup {"completed"} => status'[a] # "none"]_vars
<1> SUFFICES ASSUME IInv, Next, NEW a \in Addresses, status[a] \in Live \cup {"completed"}, status'[a] = "none"
             PROVE  FALSE
  OBVIOUS
<1>0. TableTypes /\ RequestTypes
  BY Known
<1>1. ASSUME NEW q \in Requests, Save(q) PROVE FALSE
  <2>1. a \notin Deleted(q)
    BY DEF Deleted, Live
  <2> QED BY <1>1, <2>1 DEF Save, Live, table
<1>2. ASSUME NEW b \in Addresses, Work(b) PROVE FALSE
  <2>1. UNCHANGED status \/ \E s \in Statuses \ {"none"} : status' = [status EXCEPT ![b] = s]
    <3>1. CASE MarkRetry(b) /\ status[b] \in Live
      <4> DEFINE s == IF Exhausted(retries[b] + 1) THEN "failed" ELSE status[b]
      <4>1. s \in Statuses \ {"none"} /\ status' = [status EXCEPT ![b] = s]
        BY <3>1 DEF MarkRetry, Statuses, Live
      <4> QED BY <4>1
    <3>2. CASE MarkRetry(b) /\ status[b] \notin Live
      BY <3>2 DEF MarkRetry
    <3> QED BY <1>2, <3>1, <3>2 DEF Work, FundedPreclaim, FundedClaim, FundedUpdate, SubmitPreclaim,
         RecordPreclaim, LookUpName, RecordOwned, RecordGiven, ResetExpired, WaitForBlock, SubmitClaim,
         RecordClaim, LookUpClaimed, SubmitTransfer, RecordTransfer, Write, Statuses, Live, table
  <2> QED BY <1>0, <2>1 DEF TableTypes, Live
<1>3. ASSUME UNCHANGED status PROVE FALSE
  BY <1>3 DEF Live
<1> QED BY <1>1, <1>2, <1>3 DEF Next, ReadClaim, ReadName, ReadOwner, StartDue, Kick, Begin, Fails, LoseAnswer, NextBlock,
             PreclaimExpires, RetryElapses, StrangerTakes, Crash, table

(* The row of a claim under way or completed is never deleted by a request for   *)
(* its name: LiveClaimKept.                                                  *)
THEOREM LiveRowsStay == Spec => LiveClaimKept
<1>1. Spec => [][Next]_vars
  BY PTL DEF Spec
<1> QED BY <1>1, Invariance, StepKeepsLive, PTL DEF LiveClaimKept
===============================================================================
