---------------------- MODULE WorkspaceMembershipProofs ----------------------
(* Theorems about WorkspaceMembership, for all workspaces, users, requests,  *)
(* failures and crashes.                                                     *)
EXTENDS WorkspaceMembership, TLAPS

LEMMA KeyParts ==
  /\ \A k \in Key : k[1] \in Workspace /\ k[2] \in User /\ k = <<k[1], k[2]>>
  /\ \A w \in Workspace, u \in User : /\ <<w, u>> \in Key
                                      /\ <<w, u>>[1] = w /\ <<w, u>>[2] = u
  BY DEF Key

\* What login lists is what the lookup table holds.
LEMMA ResolvedKeys ==
  /\ \A k \in Key : k[1] \in Resolved(k[2]) <=> k \in lookup
  /\ \A k \in Key : k[1] \in Resolved(k[2])' <=> k \in lookup'
  BY KeyParts DEF Resolved

-----------------------------------------------------------------------------
(* EventsOK and LookupFollows, key by key.                                 *)

KeyOK(k) ==
  Live(k) /\ k \notin disturbed =>
    /\ (\A q \in Request : ~BusyOn(q, k)) => Settled(k)
    /\ \A q \in Request : BusyOn(q, k) =>
         Owed(q, k) /\ \A p \in Request : BusyOn(p, k) => p = q

LEMMA Keys ==
  /\ (EventsOK /\ LookupFollows) <=> (\A k \in Key : KeyOK(k))
  /\ (EventsOK' /\ LookupFollows') <=> (\A k \in Key : KeyOK(k)')
<1>1. (EventsOK /\ LookupFollows) <=> (\A k \in Key : KeyOK(k))
  <2>1. ASSUME EventsOK, LookupFollows, NEW k \in Key PROVE KeyOK(k)
    BY <2>1, ResolvedKeys DEF EventsOK, LookupFollows, KeyOK, Settled, Member
  <2>2. ASSUME \A k \in Key : KeyOK(k) PROVE EventsOK /\ LookupFollows
    BY <2>2, ResolvedKeys DEF EventsOK, LookupFollows, KeyOK, Settled, Member
  <2> QED
    BY <2>1, <2>2
<1>2. (EventsOK' /\ LookupFollows') <=> (\A k \in Key : KeyOK(k)')
  <2>1. ASSUME EventsOK', LookupFollows', NEW k \in Key PROVE KeyOK(k)'
    BY <2>1, ResolvedKeys DEF EventsOK, LookupFollows, KeyOK, Settled, Member
  <2>2. ASSUME \A k \in Key : KeyOK(k)' PROVE EventsOK' /\ LookupFollows'
    BY <2>2, ResolvedKeys DEF EventsOK, LookupFollows, KeyOK, Settled, Member
  <2> QED
    BY <2>1, <2>2
<1> QED
  BY <1>1, <1>2

\* What the invariant of k reads of its rows is as it was.
SameRow(k) ==
  /\ role'[k] = role[k]
  /\ k \in lookup' <=> k \in lookup
  /\ k \in silent' <=> k \in silent
  /\ Live(k)' => Live(k)
  /\ k \in disturbed => k \in disturbed'

\* Of the requests only q moves.
Only(q) ==
  \A p \in Request : p # q =>
    /\ pc'[p] = pc[p] /\ key'[p] = key[p] /\ event'[p] = event[p]
    /\ by'[p] = by[p] /\ grant'[p] = grant[p] /\ uses'[p] = uses[p]

\* A step of q that is not about k.
LEMMA Elsewhere ==
  ASSUME IInv, NEW q \in Request, Only(q), NEW k \in Key, SameRow(k),
         ~BusyOn(q, k), ~BusyOn(q, k)'
  PROVE  KeyOK(k)'
<1> SUFFICES ASSUME Live(k)', k \notin disturbed'
             PROVE  /\ (\A p \in Request : ~BusyOn(p, k)') => Settled(k)'
                    /\ \A p \in Request : BusyOn(p, k)' =>
                         Owed(p, k)' /\ \A r \in Request : BusyOn(r, k)' => r = p
  BY DEF KeyOK
<1>1. KeyOK(k) /\ Live(k) /\ k \notin disturbed
  BY Keys DEF IInv, SameRow
<1>2. \A p \in Request : BusyOn(p, k)' <=> BusyOn(p, k)
  BY DEF Only, BusyOn
<1>3. Settled(k)' <=> Settled(k)
  BY DEF Settled, Member, SameRow
<1>4. \A p \in Request : BusyOn(p, k) /\ Owed(p, k) => Owed(p, k)'
  BY <1>3 DEF Only, Owed, Member, SameRow
<1> QED
  BY <1>1, <1>2, <1>3, <1>4 DEF KeyOK

\* A step of q, the only request at work on its key before or after.
LEMMA AtKey ==
  ASSUME IInv, NEW q \in Request, Only(q), NEW k \in Key,
         Live(k)' => Live(k), k \in disturbed => k \in disturbed',
         BusyOn(q, k),
         Live(k) /\ Owed(q, k) /\ k \notin disturbed' =>
           IF BusyOn(q, k)' THEN Owed(q, k)' ELSE Settled(k)'
  PROVE  KeyOK(k)'
<1> SUFFICES ASSUME Live(k)', k \notin disturbed'
             PROVE  /\ (\A p \in Request : ~BusyOn(p, k)') => Settled(k)'
                    /\ \A p \in Request : BusyOn(p, k)' =>
                         Owed(p, k)' /\ \A r \in Request : BusyOn(r, k)' => r = p
  BY DEF KeyOK
<1>1. Owed(q, k) /\ \A p \in Request : BusyOn(p, k) => p = q
  BY Keys DEF IInv, KeyOK
<1>2. \A p \in Request : BusyOn(p, k)' => p = q
  BY <1>1 DEF Only, BusyOn
<1> QED
  BY <1>1, <1>2

\* A request that begins finds the key settled, or disturbs it.
LEMMA BeginAtKey ==
  ASSUME IInv, NEW q \in Request, Only(q), NEW k \in Key, SameRow(k), Contend(k),
         pc[q] = "free", pc'[q] \in {"add", "remove"}, key'[q] = k, event'[q] = Null
  PROVE  KeyOK(k)'
<1> SUFFICES ASSUME Live(k)', k \notin disturbed'
             PROVE  /\ (\A p \in Request : ~BusyOn(p, k)') => Settled(k)'
                    /\ \A p \in Request : BusyOn(p, k)' =>
                         Owed(p, k)' /\ \A r \in Request : BusyOn(r, k)' => r = p
  BY DEF KeyOK
<1>1. /\ Live(k) /\ k \notin disturbed
      /\ \A p \in Request : ~BusyOn(p, k)
  BY DEF SameRow, Contend
<1>2. Settled(k)
  BY <1>1, Keys DEF IInv, KeyOK
<1>3. Settled(k)' /\ BusyOn(q, k)' /\ Owed(q, k)'
  BY <1>2 DEF Settled, Member, SameRow, BusyOn, Owed
<1>4. \A p \in Request : BusyOn(p, k)' => p = q
  BY <1>1 DEF Only, BusyOn
<1> QED
  BY <1>3, <1>4

-----------------------------------------------------------------------------
(* The parts about requests, where only q moves.                           *)

LEMMA RequestsFrame ==
  ASSUME IInv, NEW q \in Request, Only(q),
         accounts \subseteq accounts',
         \A w \in Workspace : workspace[w] # "absent" => workspace'[w] # "absent",
         \A p \in Request : p # q /\ status'[p] # Null => status[p] # Null,
         pc'[q] = "free" => key'[q] = Null,
         key'[q] \in Key \cup {Null},
         key'[q] # Null => workspace'[key'[q][1]] # "absent",
         pc'[q] \in {"add", "adding", "emit", "remove", "removing", "delete", "invite"}
           => key'[q] \in Key,
         event'[q] # Null => key'[q] \in Key /\ pc'[q] \in {"adding", "removing", "done"},
         status'[q] # Null => key'[q] \in Key /\ grant'[q] \in Role /\ pc'[q] = "done",
         pc'[q] \in {"add", "adding", "invite"} => grant'[q] \in Role,
         pc'[q] \in {"expire", "hash"} => uses'[q] \in Request,
         \A k \in Key : BusyOn(q, k)' => k[2] \in accounts'
  PROVE  RequestsOK'
<1> SUFFICES ASSUME NEW p \in Request, p # q
             PROVE  /\ pc'[p] = "free" => key'[p] = Null
                    /\ key'[p] # Null => workspace'[key'[p][1]] # "absent"
                    /\ pc'[p] \in {"add", "adding", "emit", "remove", "removing", "delete", "invite"}
                         => key'[p] \in Key
                    /\ event'[p] # Null => key'[p] \in Key /\ pc'[p] \in {"adding", "removing", "done"}
                    /\ status'[p] # Null => key'[p] \in Key /\ grant'[p] \in Role /\ pc'[p] = "done"
                    /\ pc'[p] \in {"add", "adding", "invite"} => grant'[p] \in Role
                    /\ pc'[p] \in {"expire", "hash"} => uses'[p] \in Request
                    /\ \A k \in Key : BusyOn(p, k)' => k[2] \in accounts'
  BY DEF RequestsOK
<1>1. key[p] # Null => key[p][1] \in Workspace
  BY KeyParts DEF IInv, TypeOK
<1>2. \A k \in Key : BusyOn(p, k)' => BusyOn(p, k)
  BY DEF Only, BusyOn
<1> QED
  BY <1>1, <1>2 DEF IInv, RequestsOK, Only

\* The rows are the same and an invitation keeps its key.
LEMMA AcceptedFrame ==
  ASSUME IInv, \A u \in accounts : origin'[u] = origin[u],
         \A i \in Request : status'[i] = "ACCEPTED" =>
           status[i] = "ACCEPTED" /\ (key[i] # Null => key'[i] = key[i])
  PROVE  AcceptedMadeAccount'
<1> SUFFICES ASSUME NEW i \in Request, status'[i] = "ACCEPTED"
             PROVE  origin'[key'[i][2]] = i
  BY DEF AcceptedMadeAccount
<1>1. key[i] \in Key /\ key'[i] = key[i] /\ origin[key[i][2]] = i /\ i # Null
  BY ConstantsAssumption DEF IInv, RequestsOK, AcceptedMadeAccount
<1>2. key[i][2] \in accounts
  BY <1>1, KeyParts DEF IInv, AccountsOK
<1> QED
  BY <1>1, <1>2

-----------------------------------------------------------------------------
(* One lemma per action.                                                   *)

LEMMA RegisterStep ==
  ASSUME IInv, NEW w \in Workspace, NEW u \in User, Register(w, u)
  PROVE  IInv'
<1>1. TypeOK'
  BY ConstantsAssumption DEF IInv, TypeOK, Busy, Register, AddressFree, inputs, Key, Role
<1>2. RequestsOK'
  BY ConstantsAssumption DEF IInv, TypeOK, RequestsOK, BusyOn, Register, AddressFree, inputs, Key, Role
<1>3. LocksOK'
  BY ConstantsAssumption DEF IInv, TypeOK, LocksOK, Live, Member, Register, AddressFree, inputs, Key, Role
<1>4. AccountsOK'
  BY ConstantsAssumption DEF IInv, TypeOK, AccountsOK, Live, Member, Register, AddressFree, inputs, Key, Role
<1>5. RemovalsOK'
  <2> SUFFICES ASSUME NEW q \in Request, Removing(q), Live(key[q])', key[q][1] \notin raced
               PROVE  /\ role'[<<key[q][1], by[q]>>] = "OWNER" /\ by[q] \in User /\ by[q] # key[q][2]
                      /\ \A p \in Request : Removing(p) /\ key[p][1] = key[q][1] => p = q
    BY DEF RemovalsOK, Register, Removing, inputs, Live
  <2>1. key[q] \in Key /\ key[q][1] # w
    BY ConstantsAssumption DEF IInv, RequestsOK, Removing, Register, Role
  <2>2. Live(key[q])
    BY <2>1, KeyParts DEF Live, Register, IInv, TypeOK, inputs
  <2>3. by[q] \in User
    BY <2>1, <2>2, KeyParts, ConstantsAssumption DEF IInv, TypeOK, RemovalsOK, Removing, Role
  <2>4. role'[<<key[q][1], by[q]>>] = role[<<key[q][1], by[q]>>]
    BY <2>1, <2>3, KeyParts DEF Register, IInv, TypeOK
  <2> QED
    BY <2>2, <2>4 DEF IInv, RemovalsOK
<1>6. HasOwnerUnlessRaced'
  BY ConstantsAssumption DEF IInv, TypeOK, HasOwnerUnlessRaced, Register, AddressFree, inputs, Key, Role
<1>7. NothingOutlivesWorkspace'
  BY ConstantsAssumption DEF IInv, TypeOK, NothingOutlivesWorkspace, Live, Register, AddressFree, inputs, Key, Role
<1>8. AcceptedMadeAccount'
  BY AcceptedFrame DEF Register, AddressFree, inputs, IInv, TypeOK
<1>9. EventsOK' /\ LookupFollows'
  <2>1. \A p \in Request, x \in Key : BusyOn(p, x)' <=> BusyOn(p, x)
    BY DEF Register, BusyOn, inputs
  <2>2. ASSUME NEW x \in Key, x[1] = w PROVE KeyOK(x)'
    <3>1. \A p \in Request : ~BusyOn(p, x)
      BY <2>2, ConstantsAssumption DEF Register, IInv, RequestsOK, BusyOn, Role
    <3>2. x \notin lookup /\ x \notin silent /\ role[x] = Null
      BY <2>2 DEF Register, IInv, NothingOutlivesWorkspace, AccountsOK, Live
    <3>3. role'[x] # Null <=> x \in silent'
      BY <3>2, KeyParts, ConstantsAssumption DEF Register, IInv, TypeOK, Role
    <3>4. Settled(x)'
      BY <3>2, <3>3 DEF Settled, Member, Register
    <3> QED
      BY <2>1, <3>1, <3>4 DEF KeyOK
  <2>3. ASSUME NEW x \in Key, x[1] # w PROVE KeyOK(x)'
    <3>1. x # <<w, u>>
      BY <2>3, KeyParts
    <3>2. /\ role'[x] = role[x] /\ (x \in lookup' <=> x \in lookup)
          /\ (x \in silent' <=> x \in silent) /\ (Live(x)' <=> Live(x))
      BY <2>3, <3>1, KeyParts DEF Register, IInv, TypeOK, Live
    <3>3. UNCHANGED <<pc, event, disturbed>>
      BY DEF Register
    <3>4. KeyOK(x)
      BY Keys DEF IInv
    <3>5. Settled(x)' <=> Settled(x)
      BY <3>2 DEF Settled, Member
    <3>6. \A p \in Request : Owed(p, x)' <=> Owed(p, x)
      BY <3>2, <3>3, <3>5 DEF Owed, Member
    <3> QED
      BY <2>1, <3>2, <3>3, <3>4, <3>5, <3>6 DEF KeyOK
  <2> QED
    BY <2>2, <2>3, Keys
<1> QED
  BY <1>1, <1>2, <1>3, <1>4, <1>5, <1>6, <1>7, <1>8, <1>9 DEF IInv

LEMMA CreateStep ==
  ASSUME IInv, NEW q \in Request, NEW w \in Workspace, NEW u \in User, Create(q, w, u)
  PROVE  IInv'
<1>1. /\ pc[q] = "free" /\ key[q] = Null /\ event[q] = Null /\ status[q] = Null
      /\ pc'[q] = "emit" /\ key'[q] = <<w, u>> /\ event'[q] = Null
      /\ Only(q)
  BY DEF IInv, TypeOK, RequestsOK, Create, Goto, Only
<1>2. \A p \in Request, x \in Key : x[1] = w => ~BusyOn(p, x)
  BY ConstantsAssumption DEF Create, IInv, RequestsOK, BusyOn, Role
<1>3. TypeOK'
  BY ConstantsAssumption DEF IInv, TypeOK, Busy, Create, Goto, inputs, history, Key, Role
<1>4. RequestsOK'
  BY ConstantsAssumption DEF IInv, TypeOK, RequestsOK, BusyOn, Create, Goto, inputs, history, Key, Role
<1>5. LocksOK'
  BY ConstantsAssumption DEF IInv, TypeOK, LocksOK, Live, Member, Create, Goto, inputs, history, Key, Role
<1>6. AccountsOK'
  BY ConstantsAssumption DEF IInv, TypeOK, AccountsOK, Live, Member, Create, Goto, inputs, history, Key, Role
<1>7. RemovalsOK'
  <2> SUFFICES ASSUME NEW p \in Request, Removing(p)', Live(key[p])', key'[p][1] \notin raced
               PROVE  /\ role'[<<key'[p][1], by'[p]>>] = "OWNER" /\ by'[p] \in User /\ by'[p] # key'[p][2]
                      /\ \A r \in Request : Removing(r)' /\ key'[r][1] = key'[p][1] => r = p
    BY DEF RemovalsOK, Create, history
  <2>1. p # q /\ Removing(p) /\ key'[p] = key[p] /\ by'[p] = by[p]
    BY <1>1 DEF Removing, Only
  <2>2. key[p] \in Key /\ key[p][1] # w
    BY <2>1, ConstantsAssumption DEF IInv, RequestsOK, Removing, Create, Role
  <2>3. Live(key[p])
    BY <2>1, <2>2 DEF Live, Create, IInv, TypeOK
  <2>4. by[p] \in User
    BY <2>1, <2>2, <2>3, KeyParts, ConstantsAssumption DEF IInv, TypeOK, RemovalsOK, Role
  <2>5. role'[<<key[p][1], by[p]>>] = role[<<key[p][1], by[p]>>]
    BY <2>2, <2>4, KeyParts DEF Create, IInv, TypeOK
  <2>6. \A r \in Request : Removing(r)' => Removing(r) /\ key'[r] = key[r]
    BY <1>1 DEF Removing, Only
  <2> QED
    BY <2>1, <2>3, <2>5, <2>6 DEF IInv, RemovalsOK
<1>8. HasOwnerUnlessRaced'
  BY ConstantsAssumption DEF IInv, TypeOK, HasOwnerUnlessRaced, Create, Goto, inputs, history, Key, Role
<1>9. NothingOutlivesWorkspace'
  BY ConstantsAssumption DEF IInv, TypeOK, NothingOutlivesWorkspace, Live, Create, Goto, inputs, history, Key, Role
<1>10. AcceptedMadeAccount'
  BY <1>1, AcceptedFrame DEF Create, Only
<1>11. EventsOK' /\ LookupFollows'
  <2>1. ASSUME NEW x \in Key, x = <<w, u>> PROVE KeyOK(x)'
    <3>1. x[1] = w /\ x \notin silent /\ role'[x] = "OWNER" /\ BusyOn(q, x)'
      BY <1>1, <2>1, KeyParts DEF Create, IInv, TypeOK, AccountsOK, BusyOn
    <3>2. \A p \in Request : BusyOn(p, x)' => p = q
      BY <1>1, <1>2, <3>1 DEF BusyOn, Only
    <3>3. Owed(q, x)'
      BY <1>1, <3>1, ConstantsAssumption DEF Owed, Member, Create, history, Role
    <3> QED
      BY <3>1, <3>2, <3>3 DEF KeyOK
  <2>2. ASSUME NEW x \in Key, x # <<w, u>>, x[1] = w PROVE KeyOK(x)'
    <3>1. \A p \in Request : ~BusyOn(p, x)'
      BY <1>1, <1>2, <2>2 DEF BusyOn, Only
    <3>2. role'[x] = Null /\ x \notin lookup'
      BY <2>2 DEF Create, IInv, TypeOK, NothingOutlivesWorkspace, Live
    <3> QED
      BY <3>1, <3>2 DEF KeyOK, Settled, Member
  <2>3. ASSUME NEW x \in Key, x[1] # w PROVE KeyOK(x)'
    <3>1. x # <<w, u>>
      BY <2>3, KeyParts
    <3>2. SameRow(x)
      BY <2>3, <3>1, KeyParts DEF SameRow, Create, history, IInv, TypeOK, Live
    <3>3. ~BusyOn(q, x) /\ ~BusyOn(q, x)'
      BY <1>1, <3>1, ConstantsAssumption DEF BusyOn, Role
    <3> QED
      BY <1>1, <3>2, <3>3, Elsewhere
  <2> QED
    BY <2>1, <2>2, <2>3, Keys
<1> QED
  BY <1>3, <1>4, <1>5, <1>6, <1>7, <1>8, <1>9, <1>10, <1>11 DEF IInv

LEMMA EmitStep ==
  ASSUME IInv, NEW q \in Request, Emit(q)
  PROVE  IInv'
<1>1. /\ key[q] \in Key
      /\ pc[q] = "emit" /\ pc'[q] = "done"
      /\ event'[q] = "added"
      /\ Only(q) /\ key'[q] = key[q]
  BY DEF IInv, TypeOK, RequestsOK, Emit, Goto, Only, Emitted, inputs
<1>2. TypeOK'
  BY ConstantsAssumption DEF IInv, TypeOK, Busy, Emit, Goto, Emitted, tables, inputs, history, Key, Role
<1>3. RequestsOK'
  BY ConstantsAssumption DEF IInv, TypeOK, RequestsOK, BusyOn, Emit, Goto, Emitted, tables, inputs, history, Key, Role
<1>4. LocksOK'
  BY ConstantsAssumption DEF IInv, TypeOK, LocksOK, Live, Member, Emit, Goto, Emitted, tables, inputs, history, Key, Role
<1>5. AccountsOK'
  BY ConstantsAssumption DEF IInv, TypeOK, AccountsOK, Live, Member, Emit, Goto, Emitted, tables, inputs, history, Key, Role
<1>6. RemovalsOK'
  BY ConstantsAssumption DEF IInv, TypeOK, RemovalsOK, Removing, Live, Emit, Goto, Emitted, tables, inputs, history, Key, Role
<1>7. HasOwnerUnlessRaced'
  BY ConstantsAssumption DEF IInv, TypeOK, HasOwnerUnlessRaced, Emit, Goto, Emitted, tables, inputs, history, Key, Role
<1>8. NothingOutlivesWorkspace'
  BY ConstantsAssumption DEF IInv, TypeOK, NothingOutlivesWorkspace, Live, Emit, Goto, Emitted, tables, inputs, history, Key, Role
<1>9. AcceptedMadeAccount'
  BY ConstantsAssumption DEF IInv, TypeOK, AcceptedMadeAccount, Emit, Goto, Emitted, tables, inputs, history, Key, Role
<1>10. EventsOK' /\ LookupFollows'
  <2>1. ASSUME NEW x \in Key, x # key[q] PROVE KeyOK(x)'
    <3>1. SameRow(x)
      BY <2>1 DEF Emit, SameRow, Live, IInv, TypeOK, tables, history
    <3> QED
      BY <1>1, <2>1, <3>1, Elsewhere DEF BusyOn
  <2>2. KeyOK(key[q])'
    <3>1. BusyOn(q, key[q]) /\ BusyOn(q, key[q])'
      BY <1>1, ConstantsAssumption DEF BusyOn, Role
    <3>2. Owed(q, key[q]) => Owed(q, key[q])'
      BY <1>1 DEF Owed, Member, Emit, tables, history
    <3> QED
      BY <1>1, <3>1, <3>2, AtKey DEF Emit, tables, history, Live
  <2> QED
    BY <1>1, <2>1, <2>2, Keys
<1> QED
  BY <1>2, <1>3, <1>4, <1>5, <1>6, <1>7, <1>8, <1>9, <1>10 DEF IInv

LEMMA DeleteCheckStep ==
  ASSUME IInv, NEW q \in Request, NEW w \in Workspace, NEW o \in User, DeleteCheck(q, w, o)
  PROVE  IInv'
<1>1. /\ pc[q] = "free" /\ key[q] = Null /\ event[q] = Null /\ status[q] = Null
      /\ pc'[q] = "delete" /\ key'[q] = <<w, o>> /\ event'[q] = Null /\ status'[q] = Null
      /\ TRUE
      /\ Only(q)
  BY DEF IInv, TypeOK, RequestsOK, DeleteCheck, Goto, Only, tables
<1>2. \A x \in Key : SameRow(x) /\ ~BusyOn(q, x)
  BY <1>1 DEF DeleteCheck, Contend, tables, history, SameRow, Live, BusyOn
<1>3. <<w, o>> \in Key /\ Live(<<w, o>>)
  BY KeyParts, ConstantsAssumption DEF DeleteCheck, IInv, TypeOK, NothingOutlivesWorkspace, Live, Role
<1>4. TypeOK'
  BY ConstantsAssumption DEF IInv, TypeOK, Busy, DeleteCheck, Goto, tables, history, Key, Role
<1>5. RequestsOK'
  <2>1. \A x \in Key : BusyOn(q, x)' => x[2] \in accounts
    BY <1>1 DEF DeleteCheck, BusyOn
  <2>2. UNCHANGED <<accounts, workspace, status>>
    BY DEF DeleteCheck, tables
  <2> QED
    BY <1>1, <1>3, <2>1, <2>2, RequestsFrame, ConstantsAssumption DEF Live, Role
<1>6. LocksOK'
  BY ConstantsAssumption DEF IInv, TypeOK, LocksOK, Live, Member, DeleteCheck, Goto, tables, history, Key, Role
<1>7. AccountsOK'
  BY ConstantsAssumption DEF IInv, TypeOK, AccountsOK, Live, Member, DeleteCheck, Goto, tables, history, Key, Role
<1>8. RemovalsOK'
  BY ConstantsAssumption DEF IInv, TypeOK, RemovalsOK, Removing, Live, DeleteCheck, Goto, tables, history, Key, Role
<1>9. HasOwnerUnlessRaced'
  BY ConstantsAssumption DEF IInv, TypeOK, HasOwnerUnlessRaced, DeleteCheck, Goto, tables, history, Key, Role
<1>10. NothingOutlivesWorkspace'
  BY ConstantsAssumption DEF IInv, TypeOK, NothingOutlivesWorkspace, Live, DeleteCheck, Goto, tables, history, Key, Role
<1>11. AcceptedMadeAccount'
  BY <1>1, AcceptedFrame DEF DeleteCheck, tables, Only
<1>12. EventsOK' /\ LookupFollows'
  <2>1. \A x \in Key : ~BusyOn(q, x)'
    BY <1>1 DEF BusyOn
  <2> QED
    BY <1>1, <1>2, <2>1, Elsewhere, Keys
<1> QED
  BY <1>4, <1>5, <1>6, <1>7, <1>8, <1>9, <1>10, <1>11, <1>12 DEF IInv

LEMMA DeleteWorkspaceStep ==
  ASSUME IInv, NEW q \in Request, DeleteWorkspace(q)
  PROVE  IInv'
<1>1. /\ key[q] \in Key /\ pc[q] = "delete" /\ pc'[q] = "done" /\ event[q] = Null
      /\ event'[q] = Null /\ key'[q] = key[q] /\ Only(q)
  BY DEF IInv, TypeOK, RequestsOK, DeleteWorkspace, Goto, Only, inputs
<1> DEFINE w == key[q][1]
<1>2. \A x \in Key : x[1] # w =>
        /\ workspace'[x[1]] = workspace[x[1]] /\ role'[x] = role[x]
        /\ x \in lookup' <=> x \in lookup
  BY KeyParts DEF DeleteWorkspace, Live, LookupWithout, IInv, TypeOK
<1>3. \/ UNCHANGED <<workspace, role, lookup, status>> /\ workspace[w] # "live"
      \/ /\ workspace'[w] = "deleted"
         /\ \A x \in Key : x[1] = w => role'[x] = Null /\ x \notin lookup' /\ ~Locked(x)
  <2>1. \A x \in Key : x[1] = w => x[2] \in User /\ x = <<w, x[2]>>
    BY KeyParts
  <2>2. CASE ~Live(key[q])
    BY <2>2 DEF DeleteWorkspace, Live
  <2>3. CASE Live(key[q])
    <3>1. /\ \A u \in User : ~Locked(<<w, u>>)
          /\ workspace' = [workspace EXCEPT ![w] = "deleted"]
          /\ role' = [k \in Key |-> IF k[1] = w THEN Null ELSE role[k]]
          /\ lookup' = LookupWithout(w)
      BY <2>3 DEF DeleteWorkspace
    <3>2. workspace'[w] = "deleted"
      BY <1>1, <3>1, KeyParts DEF IInv, TypeOK
    <3>3. \A x \in Key : x[1] = w => role'[x] = Null /\ x \notin lookup'
      BY <3>1 DEF LookupWithout
    <3>4. \A x \in Key : x[1] = w => ~Locked(x)
      BY <2>1, <3>1
    <3> QED
      BY <3>2, <3>3, <3>4
  <2> QED
    BY <2>2, <2>3
<1>4. UNCHANGED <<by, disturbed, raced, silent>>
  BY DEF DeleteWorkspace, inputs, history
<1> HIDE DEF w
<1>7. TypeOK'
  BY ConstantsAssumption DEF IInv, TypeOK, Busy, DeleteWorkspace, Goto, Live, Locked, LookupWithout, inputs, history, Key, Role
<1>8. RequestsOK'
  BY ConstantsAssumption DEF IInv, TypeOK, RequestsOK, BusyOn, DeleteWorkspace, Goto, Live, Locked, LookupWithout, inputs, history, Key, Role
<1>9. LocksOK'
  <2>1. ASSUME NEW p \in Request, pc'[p] \in {"adding", "removing"}
        PROVE  /\ pc[p] = pc'[p] /\ key[p] = key'[p] /\ key[p] \in Key
               /\ Live(key[p])' /\ role'[key[p]] = role[key[p]]
    <3>1. pc[p] = pc'[p] /\ key[p] = key'[p] /\ key[p] \in Key /\ Live(key[p])
      BY <1>1, <2>1 DEF Only, IInv, RequestsOK, LocksOK
    <3>2. key[p][1] = w => UNCHANGED <<workspace, role>>
      BY <1>3, <2>1, <3>1 DEF Locked
    <3> QED
      BY <1>2, <3>1, <3>2 DEF Live
  <2> QED
    BY <2>1 DEF IInv, LocksOK, Live, Member
<1>10. AccountsOK'
  BY ConstantsAssumption DEF IInv, TypeOK, AccountsOK, Live, Member, DeleteWorkspace, Goto, Locked, LookupWithout, inputs, history, Key, Role
<1>11. RemovalsOK'
  <2> SUFFICES ASSUME NEW p \in Request, Removing(p)', Live(key[p])', key'[p][1] \notin raced
               PROVE  /\ role'[<<key'[p][1], by[p]>>] = "OWNER" /\ by[p] \in User /\ by[p] # key'[p][2]
                      /\ \A r \in Request : Removing(r)' /\ key'[r][1] = key'[p][1] => r = p
    BY <1>4 DEF RemovalsOK
  <2>1. Removing(p) /\ key'[p] = key[p] /\ key[p] \in Key
    BY <1>1 DEF Removing, Only, IInv, RequestsOK
  <2>2. Live(key[p]) /\ (key[p][1] # w \/ UNCHANGED role)
    BY <1>2, <1>3, <2>1 DEF Live
  <2>3. by[p] \in User /\ role[<<key[p][1], by[p]>>] = "OWNER" /\ by[p] # key[p][2]
    BY <2>1, <2>2, KeyParts, ConstantsAssumption DEF IInv, TypeOK, RemovalsOK, Role
  <2>4. role'[<<key[p][1], by[p]>>] = "OWNER"
    BY <1>2, <2>1, <2>2, <2>3, KeyParts
  <2>5. \A r \in Request : Removing(r)' => Removing(r) /\ key'[r] = key[r]
    BY <1>1 DEF Removing, Only
  <2> QED
    BY <2>1, <2>2, <2>3, <2>4, <2>5 DEF IInv, RemovalsOK
<1>12. HasOwnerUnlessRaced'
  <2> SUFFICES ASSUME NEW v \in Workspace \ raced, workspace'[v] = "live"
               PROVE  \E u \in User : role'[<<v, u>>] = "OWNER"
    BY <1>4 DEF HasOwnerUnlessRaced
  <2>1. v # w \/ UNCHANGED <<workspace, role>>
    BY <1>3
  <2>2. workspace[v] = "live" /\ w \in Workspace
    BY <1>1, <2>1, KeyParts DEF w, DeleteWorkspace, IInv, TypeOK
  <2>3. PICK u \in User : role[<<v, u>>] = "OWNER"
    BY <2>2 DEF IInv, HasOwnerUnlessRaced
  <2> QED
    BY <1>2, <2>1, <2>3, KeyParts
<1>13. NothingOutlivesWorkspace'
  <2>1. ASSUME NEW x \in Key, ~Live(x)' PROVE role'[x] = Null /\ x \notin lookup'
    BY <1>2, <1>3, <2>1 DEF IInv, NothingOutlivesWorkspace, Live
  <2>2. ASSUME NEW i \in Request, status'[i] # Null PROVE Live(key[i])'
    <3>1. status[i] # Null /\ key'[i] = key[i] /\ key[i] \in Key /\ Live(key[i])
      BY <2>2, ConstantsAssumption DEF DeleteWorkspace, inputs, IInv, TypeOK, RequestsOK, NothingOutlivesWorkspace, Role
    <3>2. key[i][1] # w \/ UNCHANGED workspace
      BY <2>2, <3>1 DEF w, DeleteWorkspace, IInv, TypeOK
    <3> QED
      BY <1>2, <3>1, <3>2 DEF Live
  <2> QED
    BY <2>1, <2>2 DEF NothingOutlivesWorkspace
<1>14. AcceptedMadeAccount'
  BY ConstantsAssumption DEF IInv, TypeOK, AcceptedMadeAccount, DeleteWorkspace, Goto, Live, Locked, LookupWithout, inputs, history, Key, Role
<1>15. EventsOK' /\ LookupFollows'
  <2>1. \A x \in Key : ~BusyOn(q, x) /\ ~BusyOn(q, x)'
    BY <1>1 DEF BusyOn
  <2>2. ASSUME NEW x \in Key PROVE Live(x)' => SameRow(x)
    BY <1>2, <1>3, <1>4 DEF SameRow, Live
  <2>3. \A x \in Key : ~Live(x)' => KeyOK(x)'
    BY DEF KeyOK
  <2> QED
    BY <1>1, <2>1, <2>2, <2>3, Elsewhere, Keys
<1> QED
  BY <1>7, <1>8, <1>9, <1>10, <1>11, <1>12, <1>13, <1>14, <1>15 DEF IInv

LEMMA AddCheckStep ==
  ASSUME IInv, NEW q \in Request, NEW o \in User, NEW k \in Key, NEW r \in Role, AddCheck(q, o, k, r)
  PROVE  IInv'
<1>1. /\ pc[q] = "free" /\ key[q] = Null /\ event[q] = Null /\ status[q] = Null
      /\ pc'[q] = "add" /\ key'[q] = k /\ event'[q] = Null /\ status'[q] = Null
      /\ grant'[q] = r
      /\ Only(q)
  BY DEF IInv, TypeOK, RequestsOK, AddCheck, Goto, Only, tables
<1>2. \A x \in Key : SameRow(x) /\ ~BusyOn(q, x)
  BY <1>1 DEF AddCheck, Contend, tables, history, SameRow, Live, BusyOn
<1>3. k \in Key /\ Live(k)
  BY KeyParts, ConstantsAssumption DEF AddCheck, IInv, TypeOK, NothingOutlivesWorkspace, Live, Role
<1>4. TypeOK'
  BY ConstantsAssumption DEF IInv, TypeOK, Busy, AddCheck, Goto, Contend, tables, Key, Role
<1>5. RequestsOK'
  <2>1. \A x \in Key : BusyOn(q, x)' => x[2] \in accounts
    BY <1>1 DEF AddCheck, BusyOn
  <2>2. UNCHANGED <<accounts, workspace, status>>
    BY DEF AddCheck, tables
  <2> QED
    BY <1>1, <1>3, <2>1, <2>2, RequestsFrame, ConstantsAssumption DEF Live, Role
<1>6. LocksOK'
  BY ConstantsAssumption DEF IInv, TypeOK, LocksOK, Live, Member, AddCheck, Goto, Contend, tables, Key, Role
<1>7. AccountsOK'
  BY ConstantsAssumption DEF IInv, TypeOK, AccountsOK, Live, Member, AddCheck, Goto, Contend, tables, Key, Role
<1>8. RemovalsOK'
  BY ConstantsAssumption DEF IInv, TypeOK, RemovalsOK, Removing, Live, AddCheck, Goto, Contend, tables, Key, Role
<1>9. HasOwnerUnlessRaced'
  BY ConstantsAssumption DEF IInv, TypeOK, HasOwnerUnlessRaced, AddCheck, Goto, Contend, tables, Key, Role
<1>10. NothingOutlivesWorkspace'
  BY ConstantsAssumption DEF IInv, TypeOK, NothingOutlivesWorkspace, Live, AddCheck, Goto, Contend, tables, Key, Role
<1>11. AcceptedMadeAccount'
  BY <1>1, AcceptedFrame DEF AddCheck, tables, Only
<1>12. EventsOK' /\ LookupFollows'
  <2>1. KeyOK(k)'
    BY <1>1, <1>2, <1>3, BeginAtKey DEF AddCheck
  <2>2. ASSUME NEW x \in Key, x # k PROVE KeyOK(x)'
    <3>1. ~BusyOn(q, x)'
      BY <1>1, <2>2 DEF BusyOn
    <3> QED
      BY <1>1, <1>2, <3>1, Elsewhere
  <2> QED
    BY <2>1, <2>2, Keys
<1> QED
  BY <1>4, <1>5, <1>6, <1>7, <1>8, <1>9, <1>10, <1>11, <1>12 DEF IInv

LEMMA AddWriteStep ==
  ASSUME IInv, NEW q \in Request, AddWrite(q)
  PROVE  IInv'
<1>1. /\ key[q] \in Key /\ pc[q] = "add" /\ event[q] = Null
      /\ Only(q) /\ key'[q] = key[q]
      /\ \/ /\ pc'[q] = "adding" /\ event'[q] = "added"
            /\ Live(key[q]) /\ ~Member(key[q])
         \/ pc'[q] = "done" /\ event'[q] = Null
  BY DEF IInv, TypeOK, RequestsOK, AddWrite, Goto, Only, inputs, Member
<1>2. TypeOK'
  BY ConstantsAssumption DEF IInv, TypeOK, Busy, AddWrite, Goto, Locked, Live, tables, inputs, history, Key, Role
<1>3. RequestsOK'
  BY ConstantsAssumption DEF IInv, TypeOK, RequestsOK, BusyOn, AddWrite, Goto, Locked, Live, tables, inputs, history, Key, Role
<1>4. LocksOK'
  BY ConstantsAssumption DEF IInv, TypeOK, LocksOK, Live, Member, AddWrite, Goto, Locked, tables, inputs, history, Key, Role
<1>5. AccountsOK'
  BY ConstantsAssumption DEF IInv, TypeOK, AccountsOK, Live, Member, AddWrite, Goto, Locked, tables, inputs, history, Key, Role
<1>6. RemovalsOK'
  BY ConstantsAssumption DEF IInv, TypeOK, RemovalsOK, Removing, Live, AddWrite, Goto, Locked, tables, inputs, history, Key, Role
<1>7. HasOwnerUnlessRaced'
  BY ConstantsAssumption DEF IInv, TypeOK, HasOwnerUnlessRaced, AddWrite, Goto, Locked, Live, tables, inputs, history, Key, Role
<1>8. NothingOutlivesWorkspace'
  BY ConstantsAssumption DEF IInv, TypeOK, NothingOutlivesWorkspace, Live, AddWrite, Goto, Locked, tables, inputs, history, Key, Role
<1>9. AcceptedMadeAccount'
  BY ConstantsAssumption DEF IInv, TypeOK, AcceptedMadeAccount, AddWrite, Goto, Locked, Live, tables, inputs, history, Key, Role
<1>10. EventsOK' /\ LookupFollows'
  <2>1. ASSUME NEW x \in Key, x # key[q] PROVE KeyOK(x)'
    <3>1. SameRow(x)
      BY <2>1 DEF AddWrite, SameRow, Live, IInv, TypeOK, tables, history
    <3> QED
      BY <1>1, <2>1, <3>1, Elsewhere DEF BusyOn
  <2>2. KeyOK(key[q])'
    <3>1. BusyOn(q, key[q]) /\ UNCHANGED <<role, lookup, workspace, silent, disturbed>>
      BY <1>1 DEF BusyOn, AddWrite, tables, history
    <3>2. Owed(q, key[q]) => Settled(key[q]) /\ Settled(key[q])'
      BY <1>1, <3>1 DEF Owed, Settled, Member
    <3>3. CASE pc'[q] = "adding"
      <4>1. Owed(q, key[q]) => Owed(q, key[q])'
        BY <1>1, <3>1, <3>2, <3>3, ConstantsAssumption DEF Owed, Settled, Role
      <4>2. BusyOn(q, key[q])'
        BY <1>1, <3>3 DEF BusyOn
      <4> QED
        BY <1>1, <3>1, <4>1, <4>2, AtKey DEF Live
    <3>4. CASE pc'[q] = "done"
      <4>1. ~BusyOn(q, key[q])'
        BY <1>1, <3>4 DEF BusyOn
      <4> QED
        BY <1>1, <3>1, <3>2, <4>1, AtKey DEF Live
    <3> QED
      BY <1>1, <3>3, <3>4
  <2> QED
    BY <1>1, <2>1, <2>2, Keys
<1> QED
  BY <1>2, <1>3, <1>4, <1>5, <1>6, <1>7, <1>8, <1>9, <1>10 DEF IInv

LEMMA AddCommitStep ==
  ASSUME IInv, NEW q \in Request, AddCommit(q)
  PROVE  IInv'
<1>1. /\ key[q] \in Key /\ pc[q] = "adding" /\ pc'[q] = "done" /\ event'[q] = event[q]
      /\ Only(q) /\ key'[q] = key[q]
      /\ Live(key[q]) /\ ~Member(key[q]) /\ grant[q] \in Role
  BY DEF IInv, TypeOK, RequestsOK, LocksOK, AddCommit, Goto, Only, inputs
<1>2. role'[key[q]] = grant[q] /\ \A x \in Key : x # key[q] => role'[x] = role[x]
  BY <1>1 DEF AddCommit, IInv, TypeOK
<1>3. /\ key[q][2] \in accounts /\ key[q] \notin silent
      /\ UNCHANGED <<workspace, accounts, origin, lookup, status, lapsed, crashes, history>>
  BY <1>1, ConstantsAssumption DEF AddCommit, IInv, RequestsOK, AccountsOK, BusyOn, Role
<1>4. TypeOK'
  BY ConstantsAssumption DEF IInv, TypeOK, Busy, AddCommit, Goto, inputs, history, Key, Role
<1>5. RequestsOK'
  BY ConstantsAssumption DEF IInv, TypeOK, RequestsOK, BusyOn, AddCommit, Goto, inputs, history, Key, Role
<1>6. LocksOK'
  BY ConstantsAssumption DEF IInv, TypeOK, LocksOK, Live, Member, AddCommit, Goto, inputs, history, Key, Role
<1>7. AccountsOK'
  <2>1. \A x \in Key : Member(x)' => x[2] \in accounts'
    BY <1>2, <1>3 DEF IInv, AccountsOK, Member
  <2>2. \A u \in User : u \in accounts' <=> origin'[u] # Null
    BY <1>3 DEF IInv, AccountsOK
  <2>3. \A x \in silent' : workspace'[x[1]] # "absent" /\ (Live(x)' => Member(x)')
    BY <1>2, <1>3 DEF IInv, TypeOK, AccountsOK, Member, Live, history
  <2> QED
    BY <2>1, <2>2, <2>3 DEF AccountsOK
<1>8. RemovalsOK'
  <2> SUFFICES ASSUME NEW p \in Request, Removing(p), Live(key[p]), key[p][1] \notin raced
               PROVE  role'[<<key[p][1], by[p]>>] = "OWNER"
    BY <1>1, <1>3 DEF IInv, RemovalsOK, AddCommit, Removing, Only, inputs, history, Live
  <2>1. role[<<key[p][1], by[p]>>] = "OWNER" /\ key[p] \in Key
    <3>1. role[<<key[p][1], by[p]>>] = "OWNER"
      BY DEF IInv, RemovalsOK
    <3>2. key[p] \in Key
      BY DEF IInv, RequestsOK, Removing
    <3> QED
      BY <3>1, <3>2
  <2>2. by[p] \in User
    BY DEF IInv, RemovalsOK
  <2>3. <<key[p][1], by[p]>> # key[q]
    BY <1>1, <2>1, ConstantsAssumption DEF Member, Role
  <2> QED
    BY <1>2, <2>1, <2>2, <2>3, KeyParts
<1>9. HasOwnerUnlessRaced'
  <2> SUFFICES ASSUME NEW w \in Workspace \ raced, workspace[w] = "live"
               PROVE  \E u \in User : role'[<<w, u>>] = "OWNER"
    BY <1>3 DEF HasOwnerUnlessRaced, history
  <2>1. PICK u \in User : role[<<w, u>>] = "OWNER"
    BY DEF IInv, HasOwnerUnlessRaced
  <2>2. <<w, u>> # key[q] /\ <<w, u>> \in Key
    BY <1>1, <2>1, KeyParts, ConstantsAssumption DEF Member, Role
  <2> QED
    BY <1>2, <2>1, <2>2
<1>10. NothingOutlivesWorkspace'
  BY <1>1, <1>2, <1>3 DEF IInv, NothingOutlivesWorkspace, Live, AddCommit, inputs
<1>11. AcceptedMadeAccount'
  BY ConstantsAssumption DEF IInv, TypeOK, AcceptedMadeAccount, AddCommit, Goto, inputs, history, Key, Role
<1>12. EventsOK' /\ LookupFollows'
  <2>1. ASSUME NEW x \in Key, x # key[q] PROVE KeyOK(x)'
    <3>1. SameRow(x)
      BY <1>2, <1>3, <2>1 DEF SameRow, Live, history
    <3> QED
      BY <1>1, <2>1, <3>1, Elsewhere DEF BusyOn
  <2>2. KeyOK(key[q])'
    <3>1. BusyOn(q, key[q]) /\ Member(key[q])'
      BY <1>1, <1>2, ConstantsAssumption DEF BusyOn, Member, Role
    <3>2. CASE event[q] = Null
      <4>1. ~BusyOn(q, key[q])'
        BY <1>1, <3>2 DEF BusyOn
      <4>2. Owed(q, key[q]) => Settled(key[q])'
        BY <1>1, <1>3, <3>1, <3>2 DEF Owed, Settled, history
      <4> QED
        BY <1>1, <1>3, <3>1, <4>1, <4>2, AtKey DEF Live, history
    <3>3. CASE event[q] # Null
      <4>1. BusyOn(q, key[q])'
        BY <1>1, <3>3 DEF BusyOn
      <4>2. Owed(q, key[q]) => Owed(q, key[q])'
        BY <1>1, <1>3, <3>1, <3>3, ConstantsAssumption DEF Owed, history, Role
      <4> QED
        BY <1>1, <1>3, <3>1, <4>1, <4>2, AtKey DEF Live, history
    <3> QED
      BY <3>2, <3>3
  <2> QED
    BY <1>1, <2>1, <2>2, Keys
<1> QED
  BY <1>4, <1>5, <1>6, <1>7, <1>8, <1>9, <1>10, <1>11, <1>12 DEF IInv

LEMMA RemoveCheckStep ==
  ASSUME IInv, NEW q \in Request, NEW o \in User, NEW k \in Key, RemoveCheck(q, o, k)
  PROVE  IInv'
<1>1. /\ pc[q] = "free" /\ key[q] = Null /\ event[q] = Null /\ status[q] = Null
      /\ pc'[q] = "remove" /\ key'[q] = k /\ event'[q] = Null /\ status'[q] = Null
      /\ TRUE
      /\ Only(q)
  BY DEF IInv, TypeOK, RequestsOK, RemoveCheck, Goto, Only, tables
<1>2. \A x \in Key : SameRow(x) /\ ~BusyOn(q, x)
  BY <1>1 DEF RemoveCheck, Contend, tables, history, SameRow, Live, BusyOn
<1>3. k \in Key /\ Live(k)
  BY KeyParts, ConstantsAssumption DEF RemoveCheck, IInv, TypeOK, NothingOutlivesWorkspace, Live, Role
<1>4. TypeOK'
  BY ConstantsAssumption DEF IInv, TypeOK, Busy, RemoveCheck, Goto, MayRemove, Contend, tables, Key, Role
<1>5. RequestsOK'
  <2>1. \A x \in Key : BusyOn(q, x)' => x[2] \in accounts
    BY <1>1 DEF RemoveCheck, BusyOn
  <2>2. UNCHANGED <<accounts, workspace, status>>
    BY DEF RemoveCheck, tables
  <2> QED
    BY <1>1, <1>3, <2>1, <2>2, RequestsFrame, ConstantsAssumption DEF Live, Role
<1>6. LocksOK'
  BY ConstantsAssumption DEF IInv, TypeOK, LocksOK, Live, Member, RemoveCheck, Goto, MayRemove, Contend, tables, Key, Role
<1>7. AccountsOK'
  BY ConstantsAssumption DEF IInv, TypeOK, AccountsOK, Live, Member, RemoveCheck, Goto, MayRemove, Contend, tables, Key, Role
<1>8. RemovalsOK'
  BY ConstantsAssumption DEF IInv, TypeOK, RemovalsOK, Removing, Live, RemoveCheck, Goto, MayRemove, Contend, tables, Key, Role
<1>9. HasOwnerUnlessRaced'
  BY ConstantsAssumption DEF IInv, TypeOK, HasOwnerUnlessRaced, RemoveCheck, Goto, MayRemove, Contend, tables, Key, Role
<1>10. NothingOutlivesWorkspace'
  BY ConstantsAssumption DEF IInv, TypeOK, NothingOutlivesWorkspace, Live, RemoveCheck, Goto, MayRemove, Contend, tables, Key, Role
<1>11. AcceptedMadeAccount'
  BY <1>1, AcceptedFrame DEF RemoveCheck, tables, Only
<1>12. EventsOK' /\ LookupFollows'
  <2>1. KeyOK(k)'
    BY <1>1, <1>2, <1>3, BeginAtKey DEF RemoveCheck
  <2>2. ASSUME NEW x \in Key, x # k PROVE KeyOK(x)'
    <3>1. ~BusyOn(q, x)'
      BY <1>1, <2>2 DEF BusyOn
    <3> QED
      BY <1>1, <1>2, <3>1, Elsewhere
  <2> QED
    BY <2>1, <2>2, Keys
<1> QED
  BY <1>4, <1>5, <1>6, <1>7, <1>8, <1>9, <1>10, <1>11, <1>12 DEF IInv

LEMMA RemoveWriteStep ==
  ASSUME IInv, NEW q \in Request, RemoveWrite(q)
  PROVE  IInv'
<1>1. /\ key[q] \in Key /\ pc[q] = "remove" /\ event[q] = Null
      /\ Only(q) /\ key'[q] = key[q] /\ event'[q] = "removed"
      /\ \/ pc'[q] = "removing" /\ Member(key[q])
         \/ pc'[q] = "done" /\ ~Member(key[q])
  BY DEF IInv, TypeOK, RequestsOK, RemoveWrite, Goto, Only, inputs, Member
<1>2. TypeOK'
  BY ConstantsAssumption DEF IInv, TypeOK, Busy, RemoveWrite, Goto, tables, inputs, history, Key, Role
<1>3. RequestsOK'
  BY ConstantsAssumption DEF IInv, TypeOK, RequestsOK, BusyOn, RemoveWrite, Goto, tables, inputs, history, Key, Role
<1>4. LocksOK'
  <2>1. ASSUME pc'[q] = "removing"
        PROVE  /\ Live(key[q]) /\ Member(key[q])
               /\ \A p \in Request : pc[p] \in {"adding", "removing"} => key[p] # key[q]
    BY <1>1, <2>1 DEF RemoveWrite, IInv, NothingOutlivesWorkspace, LocksOK, Member
  <2>2. UNCHANGED <<role, workspace>>
    BY DEF RemoveWrite, tables
  <2>3. \A p \in Request : p # q => pc'[p] = pc[p] /\ key'[p] = key[p]
    BY <1>1 DEF Only
  <2>4. ASSUME NEW p \in Request, NEW r \in Request,
               {pc'[p], pc'[r]} \subseteq {"adding", "removing"}, key'[p] = key'[r]
        PROVE  p = r
    BY <1>1, <2>1, <2>3, <2>4 DEF IInv, LocksOK
  <2>5. ASSUME NEW p \in Request
        PROVE  /\ pc'[p] = "adding" => Live(key[p])' /\ ~Member(key[p])'
               /\ pc'[p] = "removing" => Live(key[p])' /\ Member(key[p])'
    BY <1>1, <2>1, <2>2, <2>3 DEF IInv, LocksOK, Live, Member
  <2> QED
    BY <2>4, <2>5 DEF LocksOK
<1>5. AccountsOK'
  BY ConstantsAssumption DEF IInv, TypeOK, AccountsOK, Live, Member, RemoveWrite, Goto, tables, inputs, history, Key, Role
<1>6. RemovalsOK'
  BY ConstantsAssumption DEF IInv, TypeOK, RemovalsOK, Removing, Live, RemoveWrite, Goto, tables, inputs, history, Key, Role
<1>7. HasOwnerUnlessRaced'
  BY ConstantsAssumption DEF IInv, TypeOK, HasOwnerUnlessRaced, RemoveWrite, Goto, tables, inputs, history, Key, Role
<1>8. NothingOutlivesWorkspace'
  BY ConstantsAssumption DEF IInv, TypeOK, NothingOutlivesWorkspace, Live, RemoveWrite, Goto, tables, inputs, history, Key, Role
<1>9. AcceptedMadeAccount'
  BY ConstantsAssumption DEF IInv, TypeOK, AcceptedMadeAccount, RemoveWrite, Goto, tables, inputs, history, Key, Role
<1>10. EventsOK' /\ LookupFollows'
  <2>1. ASSUME NEW x \in Key, x # key[q] PROVE KeyOK(x)'
    <3>1. SameRow(x)
      BY <2>1 DEF RemoveWrite, SameRow, Live, IInv, TypeOK, tables, history
    <3> QED
      BY <1>1, <2>1, <3>1, Elsewhere DEF BusyOn
  <2>2. KeyOK(key[q])'
    <3>1. BusyOn(q, key[q]) /\ BusyOn(q, key[q])'
      BY <1>1, ConstantsAssumption DEF BusyOn, Role
    <3>2. Owed(q, key[q]) => Owed(q, key[q])'
      BY <1>1, ConstantsAssumption DEF Owed, Member, RemoveWrite, tables, Role
    <3> QED
      BY <1>1, <3>1, <3>2, AtKey DEF RemoveWrite, tables, history, Live
  <2> QED
    BY <1>1, <2>1, <2>2, Keys
<1> QED
  BY <1>2, <1>3, <1>4, <1>5, <1>6, <1>7, <1>8, <1>9, <1>10 DEF IInv

LEMMA RemoveCommitStep ==
  ASSUME IInv, NEW q \in Request, RemoveCommit(q)
  PROVE  IInv'
<1>1. /\ key[q] \in Key /\ pc[q] = "removing" /\ pc'[q] = "done" /\ event'[q] = event[q]
      /\ Only(q) /\ key'[q] = key[q]
  BY DEF IInv, TypeOK, RequestsOK, RemoveCommit, Goto, Only, inputs
<1>2. role'[key[q]] = Null /\ \A x \in Key : x # key[q] => role'[x] = role[x]
  BY <1>1 DEF RemoveCommit, IInv, TypeOK
<1>3. TypeOK'
  BY ConstantsAssumption DEF IInv, TypeOK, Busy, RemoveCommit, Goto, inputs, Key, Role
<1>4. RequestsOK'
  BY ConstantsAssumption DEF IInv, TypeOK, RequestsOK, BusyOn, RemoveCommit, Goto, inputs, Key, Role
<1>5. LocksOK'
  BY ConstantsAssumption DEF IInv, TypeOK, LocksOK, Live, Member, RemoveCommit, Goto, inputs, Key, Role
<1>6. AccountsOK'
  BY ConstantsAssumption DEF IInv, TypeOK, AccountsOK, Live, Member, RemoveCommit, Goto, inputs, Key, Role
<1>7. RemovalsOK'
  BY ConstantsAssumption DEF IInv, TypeOK, RemovalsOK, Removing, Live, RemoveCommit, Goto, inputs, Key, Role
<1>8. HasOwnerUnlessRaced'
  <2> SUFFICES ASSUME NEW w \in Workspace \ raced, workspace[w] = "live"
               PROVE  \E u \in User : role'[<<w, u>>] = "OWNER"
    BY DEF HasOwnerUnlessRaced, RemoveCommit
  <2>1. CASE key[q][1] = w
    <3>1. /\ role[<<w, by[q]>>] = "OWNER" /\ by[q] # key[q][2]
      BY <1>1, <2>1 DEF IInv, RemovalsOK, Removing, Live
    <3>2. by[q] \in User
      BY <3>1, <1>1, <2>1, ConstantsAssumption DEF IInv, TypeOK, RequestsOK, RemovalsOK, Removing, Live, Role
    <3> QED
      BY <1>1, <1>2, <3>1, <3>2, KeyParts
  <2>2. CASE key[q][1] # w
    <3>1. PICK u \in User : role[<<w, u>>] = "OWNER"
      BY DEF IInv, HasOwnerUnlessRaced
    <3> QED
      BY <1>1, <1>2, <2>2, <3>1, KeyParts
  <2> QED
    BY <2>1, <2>2
<1>9. NothingOutlivesWorkspace'
  BY ConstantsAssumption DEF IInv, TypeOK, NothingOutlivesWorkspace, Live, RemoveCommit, Goto, inputs, Key, Role
<1>10. AcceptedMadeAccount'
  BY ConstantsAssumption DEF IInv, TypeOK, AcceptedMadeAccount, RemoveCommit, Goto, inputs, Key, Role
<1>11. EventsOK' /\ LookupFollows'
  <2>1. ASSUME NEW x \in Key, x # key[q] PROVE KeyOK(x)'
    <3>1. SameRow(x)
      BY <1>2, <2>1 DEF RemoveCommit, SameRow, Live
    <3> QED
      BY <1>1, <2>1, <3>1, Elsewhere DEF BusyOn
  <2>2. KeyOK(key[q])'
    <3>1. BusyOn(q, key[q]) /\ ~Member(key[q])'
      BY <1>1, <1>2 DEF BusyOn, Member
    <3>2. CASE event[q] = Null
      <4>1. ~BusyOn(q, key[q])'
        BY <1>1, <3>2 DEF BusyOn
      <4>2. Owed(q, key[q]) => Settled(key[q])'
        BY <1>1, <3>1, <3>2 DEF Owed, Settled, RemoveCommit
      <4> QED
        BY <1>1, <3>1, <4>1, <4>2, AtKey DEF Live, RemoveCommit
    <3>3. CASE event[q] # Null
      <4>1. BusyOn(q, key[q])'
        BY <1>1, <3>3 DEF BusyOn
      <4>2. Owed(q, key[q]) => Owed(q, key[q])'
        BY <1>1, <3>1, <3>3 DEF Owed
      <4> QED
        BY <1>1, <3>1, <4>1, <4>2, AtKey DEF Live, RemoveCommit
    <3> QED
      BY <3>2, <3>3
  <2> QED
    BY <1>1, <2>1, <2>2, Keys
<1> QED
  BY <1>3, <1>4, <1>5, <1>6, <1>7, <1>8, <1>9, <1>10, <1>11 DEF IInv

LEMMA RollbackStep ==
  ASSUME IInv, NEW q \in Request, Rollback(q)
  PROVE  IInv'
<1>1. /\ pc[q] \in {"add", "adding", "remove", "removing", "delete", "invite",
                     "expire", "hash"}
      /\ pc'[q] = "done" /\ event'[q] = event[q] /\ key'[q] = key[q] /\ Only(q)
  BY DEF IInv, TypeOK, Rollback, Goto, Only, inputs
<1>2. \A x \in Key : SameRow(x)
  BY DEF Rollback, SameRow, tables, Live
<1>3. TypeOK'
  <2>1. pc' \in [Request -> Busy \cup {"free", "done"}]
    BY DEF IInv, TypeOK, Rollback, Goto
  <2>2. disturbed' \subseteq Key
    BY DEF IInv, TypeOK, RequestsOK, Rollback
  <2> QED
    BY <2>1, <2>2 DEF IInv, TypeOK, Rollback, tables, inputs
<1>4. RequestsOK'
  BY ConstantsAssumption DEF IInv, TypeOK, RequestsOK, BusyOn, Rollback, Goto, tables, inputs, Key, Role
<1>5. LocksOK'
  BY ConstantsAssumption DEF IInv, TypeOK, LocksOK, Live, Member, Rollback, Goto, tables, inputs, Key, Role
<1>6. AccountsOK'
  BY ConstantsAssumption DEF IInv, TypeOK, AccountsOK, Live, Member, Rollback, Goto, tables, inputs, Key, Role
<1>7. RemovalsOK'
  BY ConstantsAssumption DEF IInv, TypeOK, RemovalsOK, Removing, Live, Rollback, Goto, tables, inputs, Key, Role
<1>8. HasOwnerUnlessRaced'
  BY ConstantsAssumption DEF IInv, TypeOK, HasOwnerUnlessRaced, Rollback, Goto, tables, inputs, Key, Role
<1>9. NothingOutlivesWorkspace'
  BY ConstantsAssumption DEF IInv, TypeOK, NothingOutlivesWorkspace, Live, Rollback, Goto, tables, inputs, Key, Role
<1>10. AcceptedMadeAccount'
  BY ConstantsAssumption DEF IInv, TypeOK, AcceptedMadeAccount, Rollback, Goto, tables, inputs, Key, Role
<1>11. EventsOK' /\ LookupFollows'
  <2>1. ASSUME NEW x \in Key, ~BusyOn(q, x) PROVE KeyOK(x)'
    <3>1. ~BusyOn(q, x)'
      BY <1>1, <2>1 DEF BusyOn
    <3> QED
      BY <1>1, <1>2, <2>1, <3>1, Elsewhere
  <2>2. ASSUME NEW x \in Key, BusyOn(q, x) PROVE KeyOK(x)'
    <3>1. key[q] = x /\ pc[q] \in {"add", "adding", "remove", "removing"}
      BY <1>1, <2>2 DEF BusyOn, IInv, RequestsOK
    <3>2. CASE pc[q] \in {"adding", "removing"}
      BY <3>1, <3>2 DEF KeyOK, Rollback
    <3>3. CASE pc[q] \in {"add", "remove"}
      <4>1. event[q] = Null
        BY <3>3 DEF IInv, RequestsOK
      <4>2. ~BusyOn(q, x)'
        BY <1>1, <4>1 DEF BusyOn
      <4>3. Owed(q, x) => Settled(x)'
        BY <3>3 DEF Owed, Settled, Member, Rollback, tables
      <4> QED
        BY <1>1, <1>2, <2>2, <4>2, <4>3, AtKey DEF SameRow
    <3> QED
      BY <3>1, <3>2, <3>3
  <2> QED
    BY <2>1, <2>2, Keys
<1> QED
  BY <1>3, <1>4, <1>5, <1>6, <1>7, <1>8, <1>9, <1>10, <1>11 DEF IInv

LEMMA HandleAddedStep ==
  ASSUME IInv, NEW q \in Request, HandleAdded(q)
  PROVE  IInv'
<1>1. /\ key[q] \in Key /\ event[q] = "added" /\ event'[q] = Null
      /\ pc[q] \in {"adding", "removing", "done"} /\ pc'[q] = pc[q]
      /\ Only(q) /\ key'[q] = key[q]
  BY ConstantsAssumption DEF IInv, TypeOK, RequestsOK, HandleAdded, Only, inputs, Role
<1>2. TypeOK'
  <2>1. event' \in [Request -> {"added", "removed", Null}]
    BY DEF IInv, TypeOK, HandleAdded
  <2>2. lookup' \subseteq Key /\ disturbed' \subseteq Key
    BY <1>1 DEF IInv, TypeOK, HandleAdded, history, tables
  <2> QED
    BY <2>1, <2>2 DEF IInv, TypeOK, HandleAdded, tables, inputs, history
<1>3. RequestsOK'
  <2>1. UNCHANGED <<accounts, workspace, status, grant, uses>>
    BY DEF HandleAdded, tables, inputs
  <2>2. \A k \in Key : BusyOn(q, k)' => BusyOn(q, k)
    BY <1>1 DEF BusyOn
  <2> QED
    BY <1>1, <2>1, <2>2, RequestsFrame, ConstantsAssumption DEF IInv, RequestsOK, Role
<1>4. LocksOK'
  BY ConstantsAssumption DEF IInv, TypeOK, LocksOK, Live, Member, HandleAdded, CanUpsert, inputs, history, Key, Role
<1>5. AccountsOK'
  BY ConstantsAssumption DEF IInv, TypeOK, AccountsOK, Live, Member, HandleAdded, CanUpsert, inputs, history, Key, Role
<1>6. RemovalsOK'
  BY ConstantsAssumption DEF IInv, TypeOK, RemovalsOK, Removing, Live, HandleAdded, CanUpsert, inputs, history, Key, Role
<1>7. HasOwnerUnlessRaced'
  BY ConstantsAssumption DEF IInv, TypeOK, HasOwnerUnlessRaced, HandleAdded, CanUpsert, Live, inputs, history, Key, Role
<1>8. NothingOutlivesWorkspace'
  BY <1>1 DEF IInv, NothingOutlivesWorkspace, HandleAdded, CanUpsert, Live, inputs
<1>9. AcceptedMadeAccount'
  BY ConstantsAssumption DEF IInv, TypeOK, AcceptedMadeAccount, HandleAdded, CanUpsert, Live, inputs, history, Key, Role
<1>10. EventsOK' /\ LookupFollows'
  <2>1. ASSUME NEW x \in Key, x # key[q] PROVE KeyOK(x)'
    <3>1. SameRow(x)
      BY <2>1 DEF HandleAdded, SameRow, Live, tables, history
    <3> QED
      BY <1>1, <2>1, <3>1, Elsewhere DEF BusyOn
  <2>2. KeyOK(key[q])'
    <3>1. BusyOn(q, key[q]) /\ UNCHANGED <<role, workspace, silent, disturbed>>
      BY <1>1, ConstantsAssumption DEF BusyOn, HandleAdded, history, Role
    <3>2. Live(key[q]) => (key[q] \in lookup' <=> TRUE)
      BY <1>1 DEF HandleAdded, CanUpsert
    <3>3. CASE pc[q] = "done"
      <4>1. ~BusyOn(q, key[q])'
        BY <1>1, <3>3 DEF BusyOn
      <4>2. Live(key[q]) /\ Owed(q, key[q]) => Settled(key[q])'
        BY <1>1, <3>1, <3>2, <3>3 DEF Owed, Settled, Member
      <4> QED
        BY <1>1, <3>1, <4>1, <4>2, AtKey DEF Live
    <3>4. CASE pc[q] \in {"adding", "removing"}
      <4>1. BusyOn(q, key[q])'
        BY <1>1, <3>4 DEF BusyOn
      <4>2. Live(key[q]) /\ Owed(q, key[q]) => Owed(q, key[q])'
        BY <1>1, <3>1, <3>2, <3>4, ConstantsAssumption DEF Owed, Member, Role
      <4> QED
        BY <1>1, <3>1, <4>1, <4>2, AtKey DEF Live
    <3> QED
      BY <1>1, <3>3, <3>4
  <2> QED
    BY <1>1, <2>1, <2>2, Keys
<1> QED
  BY <1>2, <1>3, <1>4, <1>5, <1>6, <1>7, <1>8, <1>9, <1>10 DEF IInv

LEMMA HandleRemovedStep ==
  ASSUME IInv, NEW q \in Request, HandleRemoved(q)
  PROVE  IInv'
<1>1. /\ key[q] \in Key /\ event[q] = "removed" /\ event'[q] = Null
      /\ pc[q] \in {"adding", "removing", "done"} /\ pc'[q] = pc[q]
      /\ Only(q) /\ key'[q] = key[q]
  BY ConstantsAssumption DEF IInv, TypeOK, RequestsOK, HandleRemoved, Only, inputs, Role
<1>2. TypeOK'
  <2>1. event' \in [Request -> {"added", "removed", Null}]
    BY DEF IInv, TypeOK, HandleRemoved
  <2>2. lookup' \subseteq Key /\ disturbed' \subseteq Key
    BY <1>1 DEF IInv, TypeOK, HandleRemoved, history, tables
  <2> QED
    BY <2>1, <2>2 DEF IInv, TypeOK, HandleRemoved, tables, inputs, history
<1>3. RequestsOK'
  <2>1. UNCHANGED <<accounts, workspace, status, grant, uses>>
    BY DEF HandleRemoved, tables, inputs
  <2>2. \A k \in Key : BusyOn(q, k)' => BusyOn(q, k)
    BY <1>1 DEF BusyOn
  <2> QED
    BY <1>1, <2>1, <2>2, RequestsFrame, ConstantsAssumption DEF IInv, RequestsOK, Role
<1>4. LocksOK'
  BY ConstantsAssumption DEF IInv, TypeOK, LocksOK, Live, Member, HandleRemoved, inputs, history, Key, Role
<1>5. AccountsOK'
  BY ConstantsAssumption DEF IInv, TypeOK, AccountsOK, Live, Member, HandleRemoved, inputs, history, Key, Role
<1>6. RemovalsOK'
  BY ConstantsAssumption DEF IInv, TypeOK, RemovalsOK, Removing, Live, HandleRemoved, inputs, history, Key, Role
<1>7. HasOwnerUnlessRaced'
  BY ConstantsAssumption DEF IInv, TypeOK, HasOwnerUnlessRaced, HandleRemoved, inputs, history, Key, Role
<1>8. NothingOutlivesWorkspace'
  BY ConstantsAssumption DEF IInv, TypeOK, NothingOutlivesWorkspace, Live, HandleRemoved, inputs, history, Key, Role
<1>9. AcceptedMadeAccount'
  BY ConstantsAssumption DEF IInv, TypeOK, AcceptedMadeAccount, HandleRemoved, inputs, history, Key, Role
<1>10. EventsOK' /\ LookupFollows'
  <2>1. ASSUME NEW x \in Key, x # key[q] PROVE KeyOK(x)'
    <3>1. SameRow(x)
      BY <2>1 DEF HandleRemoved, SameRow, Live, tables, history
    <3> QED
      BY <1>1, <2>1, <3>1, Elsewhere DEF BusyOn
  <2>2. KeyOK(key[q])'
    <3>1. BusyOn(q, key[q]) /\ UNCHANGED <<role, workspace, silent, disturbed>>
      BY <1>1, ConstantsAssumption DEF BusyOn, HandleRemoved, history, Role
    <3>2. Live(key[q]) => (key[q] \in lookup' <=> FALSE)
      BY <1>1 DEF HandleRemoved, CanUpsert
    <3>3. CASE pc[q] = "done"
      <4>1. ~BusyOn(q, key[q])'
        BY <1>1, <3>3 DEF BusyOn
      <4>2. Live(key[q]) /\ Owed(q, key[q]) => Settled(key[q])'
        BY <1>1, <3>1, <3>2, <3>3 DEF Owed, Settled, Member
      <4> QED
        BY <1>1, <3>1, <4>1, <4>2, AtKey DEF Live
    <3>4. CASE pc[q] \in {"adding", "removing"}
      <4>1. BusyOn(q, key[q])'
        BY <1>1, <3>4 DEF BusyOn
      <4>2. Live(key[q]) /\ Owed(q, key[q]) => Owed(q, key[q])'
        BY <1>1, <3>1, <3>2, <3>4, ConstantsAssumption DEF Owed, Member, Role
      <4> QED
        BY <1>1, <3>1, <4>1, <4>2, AtKey DEF Live
    <3> QED
      BY <1>1, <3>3, <3>4
  <2> QED
    BY <1>1, <2>1, <2>2, Keys
<1> QED
  BY <1>2, <1>3, <1>4, <1>5, <1>6, <1>7, <1>8, <1>9, <1>10 DEF IInv

LEMMA HandlerFailsStep ==
  ASSUME IInv, NEW q \in Request, HandlerFails(q)
  PROVE  IInv'
<1>1. /\ key[q] \in Key /\ event[q] # Null /\ event'[q] = Null
      /\ pc[q] \in {"adding", "removing", "done"} /\ pc'[q] = pc[q]
      /\ Only(q) /\ key'[q] = key[q]
  BY ConstantsAssumption DEF IInv, TypeOK, RequestsOK, HandlerFails, Only, inputs, Role
<1>2. TypeOK'
  <2>1. event' \in [Request -> {"added", "removed", Null}]
    BY DEF IInv, TypeOK, HandlerFails
  <2>2. lookup' \subseteq Key /\ disturbed' \subseteq Key
    BY <1>1 DEF IInv, TypeOK, HandlerFails, history, tables
  <2> QED
    BY <2>1, <2>2 DEF IInv, TypeOK, HandlerFails, tables, inputs, history
<1>3. RequestsOK'
  <2>1. UNCHANGED <<accounts, workspace, status, grant, uses>>
    BY DEF HandlerFails, tables, inputs
  <2>2. \A k \in Key : BusyOn(q, k)' => BusyOn(q, k)
    BY <1>1 DEF BusyOn
  <2> QED
    BY <1>1, <2>1, <2>2, RequestsFrame, ConstantsAssumption DEF IInv, RequestsOK, Role
<1>4. LocksOK'
  BY ConstantsAssumption DEF IInv, TypeOK, LocksOK, Live, Member, HandlerFails, tables, inputs, Key, Role
<1>5. AccountsOK'
  BY ConstantsAssumption DEF IInv, TypeOK, AccountsOK, Live, Member, HandlerFails, tables, inputs, Key, Role
<1>6. RemovalsOK'
  BY ConstantsAssumption DEF IInv, TypeOK, RemovalsOK, Removing, Live, HandlerFails, tables, inputs, Key, Role
<1>7. HasOwnerUnlessRaced'
  BY ConstantsAssumption DEF IInv, TypeOK, HasOwnerUnlessRaced, HandlerFails, tables, inputs, Key, Role
<1>8. NothingOutlivesWorkspace'
  BY ConstantsAssumption DEF IInv, TypeOK, NothingOutlivesWorkspace, Live, HandlerFails, tables, inputs, Key, Role
<1>9. AcceptedMadeAccount'
  BY ConstantsAssumption DEF IInv, TypeOK, AcceptedMadeAccount, HandlerFails, tables, inputs, Key, Role
<1>10. EventsOK' /\ LookupFollows'
  <2>1. ASSUME NEW x \in Key, x # key[q] PROVE KeyOK(x)'
    <3>1. SameRow(x)
      BY <2>1 DEF HandlerFails, SameRow, Live, tables, history
    <3> QED
      BY <1>1, <2>1, <3>1, Elsewhere DEF BusyOn
  <2>2. KeyOK(key[q])'
    BY <1>1 DEF KeyOK, HandlerFails
  <2> QED
    BY <1>1, <2>1, <2>2, Keys
<1> QED
  BY <1>2, <1>3, <1>4, <1>5, <1>6, <1>7, <1>8, <1>9, <1>10 DEF IInv

LEMMA InviteCheckStep ==
  ASSUME IInv, NEW q \in Request, NEW o \in User, NEW k \in Key, NEW r \in Role, InviteCheck(q, o, k, r)
  PROVE  IInv'
<1>1. /\ pc[q] = "free" /\ key[q] = Null /\ event[q] = Null /\ status[q] = Null
      /\ pc'[q] = "invite" /\ key'[q] = k /\ event'[q] = Null /\ status'[q] = Null
      /\ grant'[q] = r
      /\ Only(q)
  BY DEF IInv, TypeOK, RequestsOK, InviteCheck, Goto, Only, tables
<1>2. \A x \in Key : SameRow(x) /\ ~BusyOn(q, x)
  BY <1>1 DEF InviteCheck, Contend, tables, history, SameRow, Live, BusyOn
<1>3. k \in Key /\ Live(k)
  BY KeyParts, ConstantsAssumption DEF InviteCheck, IInv, TypeOK, NothingOutlivesWorkspace, Live, Role
<1>4. TypeOK'
  BY ConstantsAssumption DEF IInv, TypeOK, Busy, InviteCheck, Goto, tables, history, Key, Role
<1>5. RequestsOK'
  <2>1. \A x \in Key : BusyOn(q, x)' => x[2] \in accounts
    BY <1>1 DEF InviteCheck, BusyOn
  <2>2. UNCHANGED <<accounts, workspace, status>>
    BY DEF InviteCheck, tables
  <2> QED
    BY <1>1, <1>3, <2>1, <2>2, RequestsFrame, ConstantsAssumption DEF Live, Role
<1>6. LocksOK'
  BY ConstantsAssumption DEF IInv, TypeOK, LocksOK, Live, Member, InviteCheck, Goto, tables, history, Key, Role
<1>7. AccountsOK'
  BY ConstantsAssumption DEF IInv, TypeOK, AccountsOK, Live, Member, InviteCheck, Goto, tables, history, Key, Role
<1>8. RemovalsOK'
  BY ConstantsAssumption DEF IInv, TypeOK, RemovalsOK, Removing, Live, InviteCheck, Goto, tables, history, Key, Role
<1>9. HasOwnerUnlessRaced'
  BY ConstantsAssumption DEF IInv, TypeOK, HasOwnerUnlessRaced, InviteCheck, Goto, tables, history, Key, Role
<1>10. NothingOutlivesWorkspace'
  BY ConstantsAssumption DEF IInv, TypeOK, NothingOutlivesWorkspace, Live, InviteCheck, Goto, tables, history, Key, Role
<1>11. AcceptedMadeAccount'
  BY <1>1, AcceptedFrame DEF InviteCheck, tables, Only
<1>12. EventsOK' /\ LookupFollows'
  <2>1. \A x \in Key : ~BusyOn(q, x)'
    BY <1>1 DEF BusyOn
  <2> QED
    BY <1>1, <1>2, <2>1, Elsewhere, Keys
<1> QED
  BY <1>4, <1>5, <1>6, <1>7, <1>8, <1>9, <1>10, <1>11, <1>12 DEF IInv

LEMMA InviteStep ==
  ASSUME IInv, NEW q \in Request, Invite(q)
  PROVE  IInv'
<1>1. /\ pc[q] = "invite" /\ event[q] = Null /\ Only(q)
      /\ event'[q] = Null /\ pc'[q] \in {"done", "expire", "hash"} /\ key'[q] = key[q]
  BY DEF IInv, TypeOK, RequestsOK, Invite, Goto, Only, inputs
<1>2. TypeOK'
  BY ConstantsAssumption DEF IInv, TypeOK, Busy, Invite, Goto, Live, inputs, history, Key, Role
<1>3. RequestsOK'
  BY ConstantsAssumption DEF IInv, TypeOK, RequestsOK, BusyOn, Invite, Goto, Live, inputs, history, Key, Role
<1>4. LocksOK'
  BY ConstantsAssumption DEF IInv, TypeOK, LocksOK, Live, Member, Invite, Goto, inputs, history, Key, Role
<1>5. AccountsOK'
  BY ConstantsAssumption DEF IInv, TypeOK, AccountsOK, Live, Member, Invite, Goto, inputs, history, Key, Role
<1>6. RemovalsOK'
  BY ConstantsAssumption DEF IInv, TypeOK, RemovalsOK, Removing, Live, Invite, Goto, inputs, history, Key, Role
<1>7. HasOwnerUnlessRaced'
  BY ConstantsAssumption DEF IInv, TypeOK, HasOwnerUnlessRaced, Invite, Goto, Live, inputs, history, Key, Role
<1>8. NothingOutlivesWorkspace'
  BY ConstantsAssumption DEF IInv, TypeOK, NothingOutlivesWorkspace, Live, Invite, Goto, inputs, history, Key, Role
<1>9. AcceptedMadeAccount'
  BY ConstantsAssumption DEF IInv, TypeOK, AcceptedMadeAccount, Invite, Goto, Live, inputs, history, Key, Role
<1>10. EventsOK' /\ LookupFollows'
  <2>1. \A x \in Key : SameRow(x) /\ ~BusyOn(q, x) /\ ~BusyOn(q, x)'
    BY <1>1 DEF Invite, SameRow, BusyOn, Live, tables, history
  <2> QED
    BY <1>1, <2>1, Elsewhere, Keys
<1> QED
  BY <1>2, <1>3, <1>4, <1>5, <1>6, <1>7, <1>8, <1>9, <1>10 DEF IInv

LEMMA LapseStep ==
  ASSUME IInv, NEW i \in Request, Lapse(i)
  PROVE  IInv'
<1>1. TypeOK'
  BY ConstantsAssumption DEF IInv, TypeOK, Busy, Lapse, inputs, history, Key, Role
<1>2. RequestsOK'
  BY ConstantsAssumption DEF IInv, TypeOK, RequestsOK, BusyOn, Lapse, inputs, history, Key, Role
<1>3. LocksOK'
  BY ConstantsAssumption DEF IInv, TypeOK, LocksOK, Live, Member, Lapse, inputs, history, Key, Role
<1>4. AccountsOK'
  BY ConstantsAssumption DEF IInv, TypeOK, AccountsOK, Live, Member, Lapse, inputs, history, Key, Role
<1>5. RemovalsOK'
  BY ConstantsAssumption DEF IInv, TypeOK, RemovalsOK, Removing, Live, Lapse, inputs, history, Key, Role
<1>6. HasOwnerUnlessRaced'
  BY ConstantsAssumption DEF IInv, TypeOK, HasOwnerUnlessRaced, Lapse, inputs, history, Key, Role
<1>7. NothingOutlivesWorkspace'
  BY ConstantsAssumption DEF IInv, TypeOK, NothingOutlivesWorkspace, Live, Lapse, inputs, history, Key, Role
<1>8. AcceptedMadeAccount'
  BY ConstantsAssumption DEF IInv, TypeOK, AcceptedMadeAccount, Lapse, inputs, history, Key, Role
<1>9. EventsOK' /\ LookupFollows'
  BY ResolvedKeys DEF IInv, Lapse, EventsOK, LookupFollows, BusyOn, Owed, Settled, Live, Member, inputs, history
<1> QED
  BY <1>1, <1>2, <1>3, <1>4, <1>5, <1>6, <1>7, <1>8, <1>9 DEF IInv

LEMMA AcceptStep ==
  ASSUME IInv, NEW q \in Request, NEW i \in Request, Accept(q, i)
  PROVE  IInv'
<1>1. /\ pc[q] = "free" /\ event[q] = Null /\ Only(q)
      /\ event'[q] = Null /\ pc'[q] \in {"done", "expire", "hash"} /\ key'[q] = key[q]
  BY DEF IInv, TypeOK, RequestsOK, Accept, Goto, Only, inputs
<1>2. TypeOK'
  BY ConstantsAssumption DEF IInv, TypeOK, Busy, Accept, Goto, tables, history, Key, Role
<1>3. RequestsOK'
  BY ConstantsAssumption DEF IInv, TypeOK, RequestsOK, BusyOn, Accept, Goto, tables, history, Key, Role
<1>4. LocksOK'
  BY ConstantsAssumption DEF IInv, TypeOK, LocksOK, Live, Member, Accept, Goto, tables, history, Key, Role
<1>5. AccountsOK'
  BY ConstantsAssumption DEF IInv, TypeOK, AccountsOK, Live, Member, Accept, Goto, tables, history, Key, Role
<1>6. RemovalsOK'
  BY ConstantsAssumption DEF IInv, TypeOK, RemovalsOK, Removing, Live, Accept, Goto, tables, history, Key, Role
<1>7. HasOwnerUnlessRaced'
  BY ConstantsAssumption DEF IInv, TypeOK, HasOwnerUnlessRaced, Accept, Goto, tables, history, Key, Role
<1>8. NothingOutlivesWorkspace'
  BY ConstantsAssumption DEF IInv, TypeOK, NothingOutlivesWorkspace, Live, Accept, Goto, tables, history, Key, Role
<1>9. AcceptedMadeAccount'
  BY ConstantsAssumption DEF IInv, TypeOK, AcceptedMadeAccount, Accept, Goto, tables, history, Key, Role
<1>10. EventsOK' /\ LookupFollows'
  <2>1. \A x \in Key : SameRow(x) /\ ~BusyOn(q, x) /\ ~BusyOn(q, x)'
    BY <1>1 DEF Accept, SameRow, BusyOn, Live, tables, history
  <2> QED
    BY <1>1, <2>1, Elsewhere, Keys
<1> QED
  BY <1>2, <1>3, <1>4, <1>5, <1>6, <1>7, <1>8, <1>9, <1>10 DEF IInv

LEMMA ExpireStep ==
  ASSUME IInv, NEW q \in Request, Expire(q)
  PROVE  IInv'
<1>1. /\ pc[q] = "expire" /\ event[q] = Null /\ Only(q)
      /\ event'[q] = Null /\ pc'[q] \in {"done", "expire", "hash"} /\ key'[q] = key[q]
  BY DEF IInv, TypeOK, RequestsOK, Expire, Goto, Only, inputs
<1>2. TypeOK'
  BY ConstantsAssumption DEF IInv, TypeOK, Busy, Expire, Goto, inputs, history, Key, Role
<1>3. RequestsOK'
  BY ConstantsAssumption DEF IInv, TypeOK, RequestsOK, BusyOn, Expire, Goto, inputs, history, Key, Role
<1>4. LocksOK'
  BY ConstantsAssumption DEF IInv, TypeOK, LocksOK, Live, Member, Expire, Goto, inputs, history, Key, Role
<1>5. AccountsOK'
  BY ConstantsAssumption DEF IInv, TypeOK, AccountsOK, Live, Member, Expire, Goto, inputs, history, Key, Role
<1>6. RemovalsOK'
  BY ConstantsAssumption DEF IInv, TypeOK, RemovalsOK, Removing, Live, Expire, Goto, inputs, history, Key, Role
<1>7. HasOwnerUnlessRaced'
  BY ConstantsAssumption DEF IInv, TypeOK, HasOwnerUnlessRaced, Expire, Goto, inputs, history, Key, Role
<1>8. NothingOutlivesWorkspace'
  BY ConstantsAssumption DEF IInv, TypeOK, NothingOutlivesWorkspace, Live, Expire, Goto, inputs, history, Key, Role
<1>9. AcceptedMadeAccount'
  BY ConstantsAssumption DEF IInv, TypeOK, AcceptedMadeAccount, Expire, Goto, inputs, history, Key, Role
<1>10. EventsOK' /\ LookupFollows'
  <2>1. \A x \in Key : SameRow(x) /\ ~BusyOn(q, x) /\ ~BusyOn(q, x)'
    BY <1>1 DEF Expire, SameRow, BusyOn, Live, tables, history
  <2> QED
    BY <1>1, <2>1, Elsewhere, Keys
<1> QED
  BY <1>2, <1>3, <1>4, <1>5, <1>6, <1>7, <1>8, <1>9, <1>10 DEF IInv

LEMMA JoinStep ==
  ASSUME IInv, NEW q \in Request, Join(q)
  PROVE  IInv'
<1>1. /\ pc[q] = "hash" /\ pc'[q] = "done" /\ event[q] = Null
      /\ Only(q) /\ UNCHANGED <<inputs, event, workspace, lookup, lapsed, disturbed, raced, crashes>>
  BY DEF IInv, TypeOK, RequestsOK, Join, Goto, Only, inputs
<1>2. CASE ~(AddressFree(key[uses[q]][2]) /\ status[uses[q]] # Null)
  <2>1. UNCHANGED <<accounts, origin, role, silent, status>>
    BY <1>2 DEF Join
  <2>2. TypeOK'
    BY <1>1, <2>1 DEF IInv, TypeOK, Join, Goto, inputs
  <2>3. RequestsOK'
    BY <1>1, <2>1 DEF IInv, TypeOK, RequestsOK, BusyOn, Only, inputs
  <2>4. LocksOK'
    BY <1>1, <2>1 DEF IInv, LocksOK, Live, Member, Only, inputs
  <2>5. AccountsOK' /\ HasOwnerUnlessRaced' /\ NothingOutlivesWorkspace' /\ AcceptedMadeAccount'
    BY <1>1, <2>1 DEF IInv, AccountsOK, HasOwnerUnlessRaced, NothingOutlivesWorkspace,
       AcceptedMadeAccount, Live, Member, inputs
  <2>6. RemovalsOK'
    BY <1>1, <2>1 DEF IInv, RemovalsOK, Removing, Live, Only, inputs
  <2>7. \A x \in Key : SameRow(x) /\ ~BusyOn(q, x) /\ ~BusyOn(q, x)'
    BY <1>1, <2>1 DEF SameRow, BusyOn, Live
  <2>8. EventsOK' /\ LookupFollows'
    BY <1>1, <2>7, Elsewhere, Keys
  <2> QED
    BY <2>2, <2>3, <2>4, <2>5, <2>6, <2>8 DEF IInv
<1>3. CASE AddressFree(key[uses[q]][2]) /\ status[uses[q]] # Null
  <2>0. PICK i \in Request, k \in Key : i = uses[q] /\ k = key[i]
    BY <1>1, <1>3 DEF IInv, RequestsOK
  <2>1. /\ grant[i] \in Role /\ pc[i] = "done" /\ status[i] # Null
        /\ k[2] \in User /\ k[2] \notin accounts /\ Live(k) /\ role[k] = Null
    BY <1>3, <2>0, KeyParts DEF IInv, RequestsOK, NothingOutlivesWorkspace, AccountsOK, Member, AddressFree
  <2>2. /\ accounts' = accounts \cup {k[2]} /\ silent' = silent \cup {k}
        /\ origin' = [origin EXCEPT ![k[2]] = i] /\ role' = [role EXCEPT ![k] = grant[i]]
        /\ status' = [status EXCEPT ![i] = "ACCEPTED"]
    BY <1>3, <2>0 DEF Join
  <2>3. /\ role'[k] = grant[i] /\ grant[i] # Null
        /\ \A x \in Key : x # k => role'[x] = role[x] /\ (x \in silent' <=> x \in silent)
    BY <2>1, <2>2, ConstantsAssumption DEF IInv, TypeOK, Role
  <2>4. /\ origin'[k[2]] = i /\ \A u \in User : u # k[2] => origin'[u] = origin[u]
        /\ status'[i] = "ACCEPTED" /\ \A p \in Request : p # i => status'[p] = status[p]
    BY <2>1, <2>2 DEF IInv, TypeOK
  <2>5. \A p \in Request : ~BusyOn(p, k)
    BY <2>1 DEF IInv, RequestsOK
  <2>6. \A p \in Request : pc[p] \in {"adding", "removing"} => key[p] # k
    BY <2>5 DEF BusyOn
  <2>7. TypeOK'
    <3>1. pc' \in [Request -> Busy \cup {"free", "done"}]
      BY DEF IInv, TypeOK, Join, Goto
    <3>2. /\ accounts' \subseteq User /\ silent' \subseteq Key
          /\ origin' \in [User -> Request \cup Workspace \cup {Null}]
          /\ role' \in [Key -> Role \cup {Null}]
          /\ status' \in [Request -> {"PENDING", "ACCEPTED", "EXPIRED", Null}]
      BY <2>1, <2>2 DEF IInv, TypeOK
    <3> QED
      BY <1>1, <3>1, <3>2 DEF IInv, TypeOK, inputs
  <2>8. RequestsOK'
    <3>1. \A x \in Key : ~BusyOn(q, x)'
      BY <1>1 DEF BusyOn, inputs
    <3>2. key[q] # Null => key[q] \in Key /\ workspace[key[q][1]] # "absent"
      BY DEF IInv, TypeOK, RequestsOK
    <3>3. \A p \in Request : status'[p] # Null => status[p] # Null
      BY <2>1, <2>4
    <3>4. status'[q] # Null => key[q] \in Key /\ grant[q] \in Role
      BY <3>3 DEF IInv, RequestsOK
    <3> QED
      BY <1>1, <2>2, <3>1, <3>2, <3>3, <3>4, RequestsFrame, ConstantsAssumption DEF inputs, Role
  <2>9. LocksOK'
    BY <1>1, <2>3, <2>6 DEF IInv, LocksOK, RequestsOK, Live, Member, Only, inputs
  <2>10. AccountsOK'
    <3>1. \A x \in Key : Member(x)' => x[2] \in accounts'
      BY <2>2, <2>3 DEF IInv, AccountsOK, Member
    <3>2. \A u \in User : u \in accounts' <=> origin'[u] # Null
      BY <2>1, <2>2, <2>4, ConstantsAssumption DEF IInv, AccountsOK, Role
    <3>3. \A x \in silent' : workspace'[x[1]] # "absent" /\ (Live(x)' => Member(x)')
      BY <1>1, <2>1, <2>2, <2>3 DEF IInv, TypeOK, AccountsOK, Live, Member
    <3> QED
      BY <3>1, <3>2, <3>3 DEF AccountsOK
  <2>11. \A x \in Key : role[x] = "OWNER" => role'[x] = "OWNER"
    BY <2>1, <2>3, ConstantsAssumption DEF Role
  <2>12. RemovalsOK'
    <3> SUFFICES ASSUME NEW p \in Request, Removing(p), Live(key[p]), key[p][1] \notin raced
                 PROVE  role'[<<key[p][1], by[p]>>] = "OWNER"
      BY <1>1 DEF IInv, RemovalsOK, Removing, Only, inputs, Live
    <3>1. key[p] \in Key /\ role[<<key[p][1], by[p]>>] = "OWNER" /\ by[p] \in User
      BY KeyParts, ConstantsAssumption DEF IInv, TypeOK, RemovalsOK, RequestsOK, Removing, Role
    <3> QED
      BY <2>11, <3>1, KeyParts
  <2>13. HasOwnerUnlessRaced'
    BY <1>1, <2>11, KeyParts DEF IInv, HasOwnerUnlessRaced
  <2>14. NothingOutlivesWorkspace'
    BY <1>1, <1>3, <2>1, <2>3, <2>4 DEF IInv, NothingOutlivesWorkspace, Live, inputs
  <2>15. AcceptedMadeAccount'
    <3> SUFFICES ASSUME NEW p \in Request, status'[p] = "ACCEPTED"
                 PROVE  origin'[key[p][2]] = p
      BY <1>1 DEF AcceptedMadeAccount, inputs
    <3>1. CASE p = i
      BY <2>0, <2>4, <3>1
    <3>2. CASE p # i
      <4>1. status[p] = "ACCEPTED" /\ key[p] \in Key /\ origin[key[p][2]] = p
        BY <2>4, <3>2, ConstantsAssumption DEF IInv, AcceptedMadeAccount, RequestsOK, Role
      <4>2. key[p][2] \in accounts
        BY <4>1, KeyParts, ConstantsAssumption DEF IInv, AccountsOK, Role
      <4> QED
        BY <2>1, <2>4, <4>1, <4>2, KeyParts
    <3> QED
      BY <3>1, <3>2
  <2>16. ASSUME NEW x \in Key, x # k PROVE KeyOK(x)'
    <3>1. SameRow(x) /\ ~BusyOn(q, x) /\ ~BusyOn(q, x)'
      BY <1>1, <2>3, <2>16 DEF SameRow, BusyOn, Live, inputs
    <3> QED
      BY <1>1, <3>1, Elsewhere
  <2>17. KeyOK(k)'
    <3>1. \A p \in Request : ~BusyOn(p, k)'
      BY <1>1, <2>5 DEF BusyOn, Only, inputs
    <3>2. Live(k) /\ k \notin disturbed => k \notin lookup
      BY <2>1, <2>5, Keys DEF IInv, KeyOK, Settled, Member
    <3>3. role'[k] # Null /\ k \in silent' /\ UNCHANGED <<lookup, workspace, disturbed>>
      BY <1>1, <2>2, <2>3
    <3> QED
      BY <3>1, <3>2, <3>3 DEF KeyOK, Settled, Live
  <2>18. EventsOK' /\ LookupFollows'
    BY <2>16, <2>17, Keys
  <2> QED
    BY <2>7, <2>8, <2>9, <2>10, <2>12, <2>13, <2>14, <2>15, <2>18 DEF IInv
<1> QED
  BY <1>2, <1>3

LEMMA CrashStep ==
  ASSUME IInv, Crash
  PROVE  IInv'
<1>1. TypeOK'
  <2>1. disturbed' \subseteq Key
    <3> SUFFICES ASSUME NEW p \in Request,
                        event[p] # Null \/ pc[p] \in {"adding", "emit", "removing"}
                 PROVE  key[p] \in Key
      BY DEF Crash, IInv, TypeOK
    <3> QED
      BY DEF IInv, RequestsOK
  <2>2. /\ pc' \in [Request -> Busy \cup {"free", "done"}]
        /\ event' \in [Request -> {"added", "removed", Null}]
        /\ crashes' \in 0..MaxCrashes
    BY ConstantsAssumption DEF Crash, IInv, TypeOK, Role
  <2> QED
    BY <2>1, <2>2 DEF Crash, IInv, TypeOK, tables, inputs
<1>2. RequestsOK'
  BY ConstantsAssumption DEF IInv, TypeOK, RequestsOK, BusyOn, Crash, tables, inputs, Busy, Key, Role
<1>3. LocksOK'
  BY ConstantsAssumption DEF IInv, TypeOK, LocksOK, Live, Member, Crash, tables, inputs, Busy, Key, Role
<1>4. AccountsOK'
  BY ConstantsAssumption DEF IInv, TypeOK, AccountsOK, Live, Member, Crash, tables, inputs, Busy, Key, Role
<1>5. RemovalsOK'
  BY ConstantsAssumption DEF IInv, TypeOK, RemovalsOK, Removing, Live, Crash, tables, inputs, Busy, Key, Role
<1>6. HasOwnerUnlessRaced'
  BY ConstantsAssumption DEF IInv, TypeOK, HasOwnerUnlessRaced, Crash, tables, inputs, Busy, Key, Role
<1>7. NothingOutlivesWorkspace'
  BY ConstantsAssumption DEF IInv, TypeOK, NothingOutlivesWorkspace, Live, Crash, tables, inputs, Busy, Key, Role
<1>8. AcceptedMadeAccount'
  BY ConstantsAssumption DEF IInv, TypeOK, AcceptedMadeAccount, Crash, tables, inputs, Busy, Key, Role
<1>9. EventsOK' /\ LookupFollows'
  <2> SUFFICES ASSUME NEW k \in Key, Live(k), k \notin disturbed'
               PROVE  Settled(k) /\ \A p \in Request : ~BusyOn(p, k)'
    BY Keys DEF KeyOK, Crash, Live, Settled, Member, tables
  <2>1. \A p \in Request : key[p] = k => event[p] = Null /\ pc[p] \notin {"adding", "emit", "removing"}
    BY DEF Crash
  <2>2. \A p \in Request : BusyOn(p, k) => pc[p] \in {"add", "remove"}
    BY <2>1 DEF BusyOn
  <2>3. Settled(k)
    BY <2>2, Keys DEF IInv, KeyOK, Owed, Crash
  <2>4. \A p \in Request : ~BusyOn(p, k)'
    BY DEF Crash, BusyOn, Busy, inputs
  <2> QED
    BY <2>3, <2>4
<1> QED
  BY <1>1, <1>2, <1>3, <1>4, <1>5, <1>6, <1>7, <1>8, <1>9 DEF IInv

-----------------------------------------------------------------------------
LEMMA InitInductive == Init => IInv
<1> SUFFICES ASSUME Init PROVE IInv
  OBVIOUS
<1>1. TypeOK
  BY ConstantsAssumption DEF Init, TypeOK, Busy
<1>2. RequestsOK /\ LocksOK /\ RemovalsOK
  BY ConstantsAssumption DEF Init, RequestsOK, LocksOK, RemovalsOK, BusyOn, Removing
<1>3. AccountsOK /\ HasOwnerUnlessRaced /\ NothingOutlivesWorkspace /\ AcceptedMadeAccount
  BY KeyParts, ConstantsAssumption DEF Init, AccountsOK, HasOwnerUnlessRaced,
     NothingOutlivesWorkspace, AcceptedMadeAccount, Live, Member
<1>4. EventsOK /\ LookupFollows
  BY KeyParts, ResolvedKeys DEF Init, EventsOK, LookupFollows, Live
<1> QED
  BY <1>1, <1>2, <1>3, <1>4 DEF IInv

LEMMA UnchangedStep ==
  ASSUME IInv, UNCHANGED vars
  PROVE  IInv'
<1>1. TypeOK' /\ RequestsOK' /\ LocksOK' /\ AccountsOK' /\ RemovalsOK'
  BY DEF IInv, TypeOK, RequestsOK, LocksOK, AccountsOK, RemovalsOK, BusyOn, Removing,
     Live, Member, vars, tables, inputs, history
<1>2. EventsOK' /\ LookupFollows'
  BY ResolvedKeys DEF IInv, EventsOK, LookupFollows, BusyOn, Owed, Settled, Live, Member, vars, tables,
     inputs, history
<1>3. HasOwnerUnlessRaced' /\ NothingOutlivesWorkspace' /\ AcceptedMadeAccount'
  BY DEF IInv, HasOwnerUnlessRaced, NothingOutlivesWorkspace, AcceptedMadeAccount, Live,
     vars, tables, inputs, history
<1> QED
  BY <1>1, <1>2, <1>3 DEF IInv

LEMMA NextInductive == IInv /\ [Next]_vars => IInv'
<1> SUFFICES ASSUME IInv, [Next]_vars PROVE IInv'
  OBVIOUS
<1>1. ASSUME NEW q \in Request, Begin(q) PROVE IInv'
  BY <1>1, CreateStep, DeleteCheckStep, AddCheckStep, RemoveCheckStep, InviteCheckStep,
     AcceptStep DEF Begin
<1>2. ASSUME NEW q \in Request, Write(q) PROVE IInv'
  BY <1>2, EmitStep, DeleteWorkspaceStep, AddWriteStep, AddCommitStep, RemoveWriteStep,
     RemoveCommitStep, RollbackStep, InviteStep, ExpireStep, JoinStep DEF Write
<1>3. ASSUME NEW q \in Request, Handle(q) PROVE IInv'
  BY <1>3, HandleAddedStep, HandleRemovedStep, HandlerFailsStep DEF Handle
<1>4. CASE Crash
  BY <1>4, CrashStep
<1>5. CASE Rest \/ UNCHANGED vars
  BY <1>5, UnchangedStep DEF Rest
<1> QED
  BY <1>1, <1>2, <1>3, <1>4, <1>5, RegisterStep, LapseStep DEF Next

\* The inductive invariant of WorkspaceService, AcceptInviteUseCase and
\* WorkspaceLookupListener.
THEOREM InvariantHolds == Spec => []IInv
<1>1. Init => IInv
  BY InitInductive
<1>2. IInv /\ [Next]_vars => IInv'
  BY NextInductive
<1> QED
  BY <1>1, <1>2, PTL DEF Spec

\* Every row, request and event is of its type.
THEOREM TypeCorrect == Spec => []TypeOK
<1>1. IInv => TypeOK
  BY DEF IInv
<1> QED
  BY <1>1, InvariantHolds, PTL

\* A workspace without an owner takes two removals that overlapped.
THEOREM HasOwnerCorrect == Spec => []HasOwnerUnlessRaced
<1>1. IInv => HasOwnerUnlessRaced
  BY DEF IInv
<1> QED
  BY <1>1, InvariantHolds, PTL

\* The delete of a workspace leaves nothing, and nothing comes back.
THEOREM NothingOutlivesCorrect == Spec => []NothingOutlivesWorkspace
<1>1. IInv => NothingOutlivesWorkspace
  BY DEF IInv
<1> QED
  BY <1>1, InvariantHolds, PTL

\* The lookup row of a key nothing disturbed follows the membership.
THEOREM LookupCorrect == Spec => []LookupFollows
<1>1. IInv => LookupFollows
  BY DEF IInv
<1> QED
  BY <1>1, InvariantHolds, PTL

\* Only one acceptance, or registration, makes an account.
THEOREM AcceptedCorrect == Spec => []AcceptedMadeAccount
<1>1. IInv => AcceptedMadeAccount
  BY DEF IInv
<1> QED
  BY <1>1, InvariantHolds, PTL
=============================================================================
