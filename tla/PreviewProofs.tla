--------------------------- MODULE PreviewProofs ----------------------------
(***************************************************************************)
(* The plate preview for any store, any titles and any plates: Fetch reads  *)
(* the replies it asked for, fails only when the other side does, and keeps *)
(* the render of the print that is running.                                 *)
(*                                                                         *)
(* Wire is the protocol between Fetch and the server: what is on its way in *)
(* each direction at each point of a transfer.  One command is out at a     *)
(* time, its answer is read before the next, and without a fault the answer *)
(* is the one expected.  Gathers says what the listings have yielded by     *)
(* then, and Outcome what Fetch came away with.                             *)
(***************************************************************************)
EXTENDS Preview, WellFoundedInduction, TLAPS

Transfer == {"pasv", "dial", "send", "shake", "150", "read", "226"}

(* The step counts the replies of the login, then the transfers; Fetch      *)
(* retrieves only when it has found something.                              *)
StepInv ==
    /\ pc = "login" => step \in 1..6
    /\ pc \in Transfer => step \in 1..LastList + 1
    /\ pc \in Transfer /\ step > LastList => caller = "fetch" /\ found # <<>>

Says(class, to) == [class |-> class, to |-> to]

(* A command is out, or its answer is waiting; without a fault a good one.  *)
Pending(c, good) ==
    \/ commands = <<c>> /\ replies = <<>>
    \/ /\ commands = <<>>
       /\ \E k \in {2, 3, 5} : replies = <<Says(k, c)>> /\ (~fault => k \in good)

Wire ==
    /\ pc \in {"begin", "connect"} =>
          commands = <<>> /\ replies = <<>> /\ data = "none"
    /\ pc = "login" =>
          Pending(Login[step], IF step = 2 THEN {2, 3} ELSE {2}) /\ data = "none"
    /\ pc = "pasv" => Pending("PASV", {2}) /\ data = "none"
    /\ pc = "dial" => commands = <<>> /\ replies = <<>> /\ data = "none"
    /\ pc = "send" => commands = <<>> /\ replies = <<>> /\ data = "dialled"
    /\ pc = "shake" =>
          \/ /\ commands = <<IF step <= LastList THEN "LIST" ELSE "RETR">>
             /\ replies = <<>> /\ data = "dialled"
          \/ commands = <<>> /\ replies = <<Says(1, "150")>> /\ data = "ready"
          \/ /\ commands = <<>> /\ replies = <<Says(5, "150")>> /\ data = "cut"
             /\ ~fault => Missing
    /\ pc = "150" => commands = <<>> /\
          \/ replies = <<Says(1, "150")>> /\ data = "open"
          \/ replies = <<Says(1, "150"), Says(2, "226")>> /\ data = "sent"
          \/ replies = <<Says(1, "150"), Says(5, "226")>> /\ data = "cut" /\ fault
    /\ pc = "read" => commands = <<>> /\
          \/ replies = <<>> /\ data = "open"
          \/ replies = <<Says(2, "226")>> /\ data = "sent"
          \/ replies = <<Says(5, "226")>> /\ data = "cut" /\ fault
    /\ pc = "226" => commands = <<>> /\ replies = <<Says(2, "226")>> /\ data = "sent"

(* What the listings before transfer n have yielded.                        *)
Gathered(n) ==
    CASE n = 1 -> <<>>
      [] n = 2 -> List(1)
      [] n = 3 -> List(1) \o List(2)
      [] n = 4 -> List(1) \o List(2) \o List(3)
      [] OTHER -> List(1) \o List(2) \o List(3) \o List(4)

Gathers ==
    /\ pc \in {"begin", "connect", "login"} => found = <<>>
    /\ pc \in Transfer => found = Gathered(step)

(* What Fetch ends with: the render of the running plate in the 3mf chosen  *)
(* among all, or none, and then a reason.                                   *)
Outcome ==
    /\ pc # "begin" => plate = plateNumber(gcode)
    /\ pc \notin {"quit", "done"} => result = NoRender
    /\ result # NoRender =>
          /\ found = Gathered(5) /\ found # <<>>
          /\ result = pickPlate(findArchive(found).renders, plate)
    /\ pc \in {"quit", "done"} /\ ~fault /\ result = NoRender =>
          /\ found = Gathered(5)
          /\ \/ found = <<>>
             \/ findArchive(found).spaced
             \/ pickPlate(findArchive(found).renders, plate) = NoRender

Fetching == caller = "fetch" => Wire /\ Gathers /\ Outcome

(* debug lists, and keeps nothing.                                          *)
Listing == caller = "debug" => result = NoRender

IInv == TypeOK /\ StepInv /\ Fetching /\ Listing /\ (silent => fault)

-----------------------------------------------------------------------------
(* A set of natural numbers has a least element.                            *)
LEMMA LeastNatural ==
    ASSUME NEW S \in SUBSET Nat, S # {}
    PROVE  \E n \in S : \A m \in S : n <= m
<1> DEFINE R == OpToRel(<, Nat)
<1>1. IsWellFoundedOn(R, Nat)
  BY NatLessThanWellFounded, Zenon
<1>2. R = {ss \in Nat \X Nat : ss[1] < ss[2]}
  BY Zenon DEF OpToRel
<1> HIDE DEF R
<1>3. \E x \in S : \A y \in S : ~ (<<y, x>> \in R)
  BY <1>1, WFMin, Zenon
<1>4. \A x, y \in Nat : y < x => <<y, x>> \in R
  BY <1>2
<1>5. PICK x \in S : \A y \in S : ~ (<<y, x>> \in R)
  BY <1>3
<1>6. \A y \in S : ~(y < x)
  BY <1>4, <1>5
<1> QED
  BY <1>6

(* The loops return one of the candidates there are.                        *)
LEMMA FirstIs ==
    ASSUME NEW list, NEW I \in SUBSET Nat, I # {}
    PROVE  \E i \in I : First(list, I) = list[i]
<1> DEFINE m == CHOOSE i \in I : \A j \in I : i <= j
<1>1. m \in I
  BY LeastNatural, Zenon
<1>2. First(list, I) = list[m]
  BY DEF First
<1> QED
  BY <1>1, <1>2

(* findArchive picks one of the 3mfs listed.                                *)
LEMMA ArchiveIsListed ==
    ASSUME NEW list \in Seq(Archives), list # <<>>
    PROVE  /\ \E i \in DOMAIN list : findArchive(list) = list[i]
           /\ findArchive(list) \in Archives
<1> DEFINE named == {i \in DOMAIN list : list[i].title = jobName}
<1>1. DOMAIN list \in SUBSET Nat /\ 1 \in DOMAIN list
      /\ \A i \in DOMAIN list : list[i] \in Archives
  OBVIOUS
<1>2. named \in SUBSET Nat /\ named \subseteq DOMAIN list
  BY <1>1
<1>3. (findArchive(list) = First(list, named) /\ named # {}) \/ findArchive(list) = list[1]
  BY DEF findArchive
<1> HIDE DEF named
<1>4. \E i \in DOMAIN list : findArchive(list) = list[i]
  BY <1>1, <1>2, <1>3, FirstIs
<1> QED
  BY <1>1, <1>4

(* pickPlate picks one of the renders of the 3mf, or none.                  *)
LEMMA RenderIsThere ==
    ASSUME NEW renders \in Seq(Renders), NEW n
    PROVE  /\ pickPlate(renders, n) \in Renders \cup {NoRender}
           /\ (\E i \in DOMAIN renders : renders[i].plate = n /\ renders[i].kind = "full")
                 => /\ pickPlate(renders, n) \in Renders
                    /\ pickPlate(renders, n).plate = n
                    /\ pickPlate(renders, n).kind = "full"
<1> DEFINE exact == {i \in DOMAIN renders : renders[i].plate = n /\ renders[i].kind = "full"}
           any == {i \in DOMAIN renders : renders[i].kind # "small"}
<1>1. DOMAIN renders \in SUBSET Nat /\ \A i \in DOMAIN renders : renders[i] \in Renders
  OBVIOUS
<1>2. /\ exact \in SUBSET Nat /\ any \in SUBSET Nat
      /\ exact \subseteq DOMAIN renders /\ any \subseteq DOMAIN renders
  BY <1>1
<1>3. /\ exact # {} => pickPlate(renders, n) = First(renders, exact)
      /\ exact = {} /\ any # {} => pickPlate(renders, n) = First(renders, any)
      /\ exact = {} /\ any = {} => pickPlate(renders, n) = NoRender
  BY DEF pickPlate
<1>4. \A i \in exact : renders[i].plate = n /\ renders[i].kind = "full"
  OBVIOUS
<1>5. (\E i \in DOMAIN renders : renders[i].plate = n /\ renders[i].kind = "full")
         => exact # {}
  OBVIOUS
<1> HIDE DEF exact, any
<1>6. ASSUME exact # {}
      PROVE  /\ pickPlate(renders, n) \in Renders
             /\ pickPlate(renders, n).plate = n /\ pickPlate(renders, n).kind = "full"
  <2>1. PICK i \in exact : First(renders, exact) = renders[i]
    BY <1>2, <1>6, FirstIs
  <2> QED
    BY <1>1, <1>2, <1>3, <1>4, <1>6, <2>1
<1>7. ASSUME exact = {}, any # {} PROVE pickPlate(renders, n) \in Renders
  <2>1. PICK i \in any : First(renders, any) = renders[i]
    BY <1>2, <1>7, FirstIs
  <2> QED
    BY <1>1, <1>2, <1>3, <1>7, <2>1
<1> QED
  BY <1>3, <1>5, <1>6, <1>7

(* A listing is as long as the directory and names what it could read.      *)
LEMMA ListIs ==
    ASSUME store \in Stores, NEW d \in Dirs
    PROVE  /\ List(d) \in Seq(Archives)
           /\ Len(List(d)) = Len(store[d])
           /\ \A i \in DOMAIN store[d] : List(d)[i] = listedFile(store[d][i])
<1>1. store[d] \in Seq(Archives)
  BY PreviewAssumption
<1>2. \A i \in DOMAIN store[d] : store[d][i] \in Archives
  BY <1>1
<1>3. \A a \in Archives : listedFile(a) \in Archives
  BY DEF listedFile, Archives
<1>4. DOMAIN store[d] = 1..Len(store[d]) /\ Len(store[d]) \in Nat
  BY <1>1
<1>5. List(d) = [i \in 1..Len(store[d]) |-> listedFile(store[d][i])]
  BY <1>4 DEF List
<1>6. \A i \in 1..Len(store[d]) : listedFile(store[d][i]) \in Archives
  BY <1>2, <1>3, <1>4
<1> HIDE DEF List
<1>7. List(d) \in Seq(Archives)
  BY <1>4, <1>5, <1>6
<1> QED
  BY <1>4, <1>5, <1>7

-----------------------------------------------------------------------------
(* Types.                                                                   *)
TypeInv == TypeOK /\ StepInv

Commands == {"USER", "PASS", "PBSZ", "PROT", "TYPE", "PASV", "LIST", "RETR"}

Replies == [class : {1, 2, 3, 5},
            to : {"220", "USER", "PASS", "PBSZ", "PROT", "TYPE", "PASV", "150", "226"}]

(* The replies, written out.                                                *)
LEMMA ReplyType == [class : {1, 2, 3, 5}, to : {Login[i] : i \in 1..6}
                                               \cup {"PASV", "150", "226"}] = Replies
<1>1. {Login[i] : i \in 1..6} = {"220", "USER", "PASS", "PBSZ", "PROT", "TYPE"}
  <2>1. \A i \in 1..6 : Login[i] \in {"220", "USER", "PASS", "PBSZ", "PROT", "TYPE"}
    BY DEF Login
  <2>2. /\ Login[1] = "220" /\ Login[2] = "USER" /\ Login[3] = "PASS"
        /\ Login[4] = "PBSZ" /\ Login[5] = "PROT" /\ Login[6] = "TYPE"
    BY DEF Login
  <2> QED
    BY <2>1, <2>2
<1> QED
  BY <1>1 DEF Replies

(* What a step must show to keep the types,                                 *)
LEMMA Typed ==
    ASSUME TypeOK, UNCHANGED asked,
           gcode' \in {0} \cup Plates,
           pc' \in {"begin", "connect", "dial", "send", "shake", "read", "quit", "done",
                    "login", "pasv", "150", "226"},
           step' \in 0..6, plate' \in {0} \cup Plates, found' \in Seq(Archives),
           result' \in Renders \cup {NoRender}, conn' \in {"none", "open", "closed"},
           commands' \in Seq(Commands), replies' \in Seq(Replies),
           data' \in {"none", "dialled", "ready", "open", "sent", "cut"},
           silent' \in BOOLEAN, fault' \in BOOLEAN
    PROVE  TypeOK'
BY ReplyType DEF TypeOK, Commands, asked, Waiting

(* and what it may use of them.                                             *)
LEMMA TypeIs ==
    ASSUME TypeOK
    PROVE  /\ caller \in {"fetch", "debug"} /\ store \in Stores
           /\ gcode \in {0} \cup Plates
           /\ pc \in {"begin", "connect", "dial", "send", "shake", "read", "quit", "done",
                      "login", "pasv", "150", "226"}
           /\ step \in 0..6 /\ plate \in {0} \cup Plates /\ found \in Seq(Archives)
           /\ result \in Renders \cup {NoRender} /\ conn \in {"none", "open", "closed"}
           /\ commands \in Seq(Commands) /\ replies \in Seq(Replies)
           /\ data \in {"none", "dialled", "ready", "open", "sent", "cut"}
           /\ silent \in BOOLEAN /\ fault \in BOOLEAN
BY ReplyType DEF TypeOK, Commands, Waiting

(* Queues of commands and of replies, longer or shorter by one.             *)
LEMMA Adds ==
    ASSUME TypeOK
    PROVE  /\ \A c \in Commands : Append(commands, c) \in Seq(Commands) /\ <<c>> \in Seq(Commands)
           /\ \A r \in Replies : Append(replies, r) \in Seq(Replies) /\ <<r>> \in Seq(Replies)
           /\ replies # <<>> => Tail(replies) \in Seq(Replies)
           /\ commands # <<>> => /\ Tail(commands) \in Seq(Commands)
                                 /\ Head(commands) \in Commands
<1>1. commands \in Seq(Commands) /\ replies \in Seq(Replies)
  BY TypeIs
<1> QED
  BY <1>1

(* Fetch lists four directories, debug two.                                 *)
LEMMA LastListIs ==
    ASSUME TypeOK PROVE LastList \in {2, 4} /\ (caller = "fetch" <=> LastList = 4)
BY DEF TypeOK, LastList

(* A transfer that ends, in an error or not, is followed by another of the  *)
(* sequence or by Close.                                                    *)
LEMMA NextTyped ==
    ASSUME TypeInv, UNCHANGED asked, NEW more \in BOOLEAN, NextTransfer(more),
           pc \in Transfer, found' \in Seq(Archives),
           more => step <= LastList,
           more /\ step = LastList => caller = "fetch" /\ found' # <<>>
    PROVE  /\ pc' \in {"pasv", "quit"} /\ step' \in 0..6 /\ commands' \in Seq(Commands)
           /\ data' = "none"
           /\ StepInv'
<1>1. TypeOK /\ step \in 1..LastList + 1 /\ LastList \in {2, 4} /\ LastList' = LastList
  BY LastListIs DEF TypeInv, StepInv, LastList, asked
<1>2. commands \in Seq(Commands) /\ Append(commands, "PASV") \in Seq(Commands)
  BY <1>1, TypeIs, Adds DEF Commands
<1>3. data' = "none"
  BY DEF NextTransfer
<1>4. CASE more
  <2>1. pc' = "pasv" /\ step' = step + 1 /\ commands' = Append(commands, "PASV")
    BY <1>4 DEF NextTransfer
  <2>2. step' \in 1..LastList + 1 /\ step' \in 0..6
    BY <1>1, <1>4, <2>1
  <2>3. step' > LastList => step = LastList
    BY <1>1, <1>4, <2>1
  <2>4. StepInv'
    BY <1>1, <1>4, <2>1, <2>2, <2>3 DEF StepInv, asked
  <2> QED
    BY <1>2, <1>3, <2>1, <2>2, <2>4
<1>5. CASE ~more
  <2>1. pc' = "quit" /\ step' = step /\ commands' = commands
    BY <1>5 DEF NextTransfer
  <2>2. step' \in 0..6
    BY <1>1, <2>1
  <2>3. StepInv'
    BY <2>1 DEF StepInv, Transfer
  <2> QED
    BY <1>2, <1>3, <2>1, <2>2, <2>3
<1> QED
  BY <1>4, <1>5

(* So is one that fails.                                                    *)
LEMMA FailsTyped ==
    ASSUME TypeInv, UNCHANGED asked, Fails, pc \in Transfer
    PROVE  /\ pc' \in {"pasv", "quit"} /\ step' \in 0..6 /\ commands' \in Seq(Commands)
           /\ data' = "none" /\ found' = found /\ result' = result
           /\ StepInv'
<1> DEFINE more == caller = "debug" /\ step < LastList
<1>1. NextTransfer(more) /\ found' = found /\ result' = result
  BY DEF Fails
<1>2. more \in BOOLEAN
  OBVIOUS
<1>3. step \in Int /\ LastList \in Int /\ found \in Seq(Archives)
  BY LastListIs, TypeIs DEF TypeInv
<1>4. (more => step <= LastList) /\ ~(more /\ step = LastList)
  BY <1>3
<1> HIDE DEF more
<1> QED
  BY <1>1, <1>2, <1>3, <1>4, NextTyped

(* The step is kept by whatever does not move it.                           *)
LEMMA StepStays ==
    ASSUME TypeInv, UNCHANGED <<asked, step, found>>,
           pc' \in Transfer => pc \in Transfer, pc' = "login" => pc = "login"
    PROVE  StepInv'
BY DEF TypeInv, StepInv, asked, LastList

(* Each step of the client keeps the types,                                 *)
LEMMA ClientTyped == ASSUME TypeInv, Client PROVE TypeInv'
<1>0. /\ TypeOK /\ StepInv
      /\ caller \in {"fetch", "debug"} /\ store \in Stores
      /\ gcode \in {0} \cup Plates
      /\ pc \in {"begin", "connect", "dial", "send", "shake", "read", "quit", "done",
                 "login", "pasv", "150", "226"}
      /\ step \in 0..6 /\ plate \in {0} \cup Plates /\ found \in Seq(Archives)
      /\ result \in Renders \cup {NoRender} /\ conn \in {"none", "open", "closed"}
      /\ commands \in Seq(Commands) /\ replies \in Seq(Replies)
      /\ data \in {"none", "dialled", "ready", "open", "sent", "cut"}
      /\ silent \in BOOLEAN /\ fault \in BOOLEAN
  BY TypeIs DEF TypeInv
<1>1. CASE Begin
  <2>1. plateNumber(gcode) \in Plates
    BY <1>0, PreviewAssumption DEF plateNumber
  <2>2. StepInv'
    BY <1>1, StepStays DEF Begin, Transfer
  <2> QED
    BY <1>0, <1>1, <2>1, <2>2, Typed DEF Begin, server, TypeInv
<1>2. CASE Connect
  <2>1. replies' \in Seq(Replies)
    <3>1. [class |-> 2, to |-> "220"] \in Replies
      BY DEF Replies
    <3> QED
      BY <1>0, <1>2, <3>1, Adds DEF Connect
  <2>2. /\ UNCHANGED <<asked, gcode, plate, found, result, commands, data, silent>>
        /\ pc' \in {"login", "done"} /\ step' \in 0..6 /\ (pc' = "login" => step' = 1)
        /\ conn' \in {"none", "open", "closed"} /\ fault' \in BOOLEAN
    <3>1. CASE /\ pc' = "login" /\ step' = 1 /\ conn' = "open" /\ UNCHANGED fault
               /\ UNCHANGED <<asked, gcode, plate, found, result, commands, data, silent>>
      BY <1>0, <3>1
    <3>2. CASE /\ pc' = "done" /\ fault' = TRUE /\ UNCHANGED <<step, conn>>
               /\ UNCHANGED <<asked, gcode, plate, found, result, commands, data, silent>>
      BY <1>0, <3>2
    <3> QED
      BY <1>2, <3>1, <3>2 DEF Connect
  <2>3. TypeOK'
    BY <1>0, <2>1, <2>2, Typed
  <2>4. StepInv'
    BY <2>2 DEF StepInv, Transfer
  <2> QED
    BY <2>3, <2>4 DEF TypeInv
<1>3. CASE LoginReply
  <2>1. /\ UNCHANGED <<asked, gcode, plate, found, result, data, silent, fault>>
        /\ replies' = Tail(replies) /\ replies # <<>> /\ pc = "login"
    BY <1>3 DEF LoginReply
  <2>2. replies' \in Seq(Replies)
    BY <1>0, <2>1, Adds
  <2>3. step \in 1..6
    BY <1>0, <2>1 DEF StepInv
  <2>4. CASE pc' = "done" /\ conn' = "closed" /\ UNCHANGED <<step, commands>>
    <3>1. StepInv'
      BY <2>4 DEF StepInv, Transfer
    <3> QED
      BY <1>0, <2>1, <2>2, <2>4, <3>1, Typed DEF TypeInv
  <2>5. CASE /\ step < 6 /\ commands' = Append(commands, Login[step + 1])
             /\ step' = step + 1 /\ UNCHANGED <<pc, conn>>
    <3>1. Login[step + 1] \in Commands
      BY <2>3, <2>5 DEF Login, Commands
    <3>2. commands' \in Seq(Commands)
      BY <1>0, <2>5, <3>1, Adds
    <3>3. step' \in 1..6 /\ step' \in 0..6
      BY <2>3, <2>5
    <3>4. StepInv'
      BY <2>1, <2>5, <3>3 DEF StepInv, Transfer
    <3> QED
      BY <1>0, <2>1, <2>2, <2>5, <3>2, <3>3, <3>4, Typed DEF TypeInv
  <2>6. CASE pc' = "pasv" /\ step' = 1 /\ commands' = <<"PASV">> /\ UNCHANGED conn
    <3>1. commands' \in Seq(Commands)
      BY <1>0, <2>6, Adds DEF Commands
    <3>2. LastList' = LastList /\ LastList \in {2, 4}
      BY <1>0, <2>1, LastListIs DEF LastList, asked
    <3>3. StepInv'
      BY <2>6, <3>2 DEF StepInv, Transfer
    <3> QED
      BY <1>0, <2>1, <2>2, <2>6, <3>1, <3>3, Typed DEF TypeInv
  <2> QED
    BY <1>3, <2>4, <2>5, <2>6 DEF LoginReply, LoginFails
<1>4. ASSUME Fails, pc \in Transfer, UNCHANGED <<asked, gcode, plate, conn>>,
             replies' \in Seq(Replies), silent' \in BOOLEAN, fault' \in BOOLEAN
      PROVE  TypeInv'
  <2>1. /\ pc' \in {"pasv", "quit"} /\ step' \in 0..6 /\ commands' \in Seq(Commands)
        /\ data' = "none" /\ found' = found /\ result' = result
        /\ StepInv'
    BY <1>4, FailsTyped
  <2> QED
    BY <1>0, <1>4, <2>1, Typed DEF TypeInv
<1>5. ASSUME UNCHANGED <<asked, gcode, plate, conn, step, found, result>>,
             pc \in Transfer, pc' \in Transfer,
             commands' \in Seq(Commands), replies' \in Seq(Replies),
             data' \in {"none", "dialled", "ready", "open", "sent", "cut"},
             silent' \in BOOLEAN, fault' \in BOOLEAN
      PROVE  TypeInv'
  <2>1. StepInv'
    BY <1>5, StepStays DEF Transfer
  <2>2. pc' \in {"pasv", "dial", "send", "shake", "150", "read", "226"}
    BY <1>5 DEF Transfer
  <2> QED
    BY <1>0, <1>5, <2>1, <2>2, Typed DEF TypeInv
<1>6. CASE Passive
  <2>1. replies' \in Seq(Replies) /\ pc \in Transfer
        /\ UNCHANGED <<asked, gcode, plate, conn, silent, fault>>
    BY <1>0, <1>6, Adds DEF Passive, Transfer
  <2> QED
    BY <1>0, <1>4, <1>5, <1>6, <2>1 DEF Passive, Transfer
<1>7. CASE DialData
  <2>1. pc \in Transfer /\ UNCHANGED <<asked, gcode, plate, conn, silent, replies>>
    BY <1>7 DEF DialData, Transfer
  <2> QED
    BY <1>0, <1>4, <1>5, <1>7, <2>1 DEF DialData, Transfer
<1>8. CASE SendCommand
  <2>1. commands' \in Seq(Commands)
    BY <1>0, <1>8, Adds DEF SendCommand, Commands
  <2> QED
    BY <1>0, <1>5, <1>8, <2>1 DEF SendCommand, Transfer
<1>9. CASE Handshake
  <2>1. pc \in Transfer /\ UNCHANGED <<asked, gcode, plate, conn, silent>>
    BY <1>9 DEF Handshake, Transfer
  <2>2. [class |-> 5, to |-> "226"] \in Replies
    BY DEF Replies
  <2>3. replies' \in Seq(Replies) /\ fault' \in BOOLEAN
    BY <1>0, <1>9, <2>2, Adds DEF Handshake
  <2> QED
    BY <1>0, <1>4, <1>5, <1>9, <2>1, <2>3 DEF Handshake, Transfer
<1>10. CASE Starting
  <2>1. replies' \in Seq(Replies) /\ pc \in Transfer
        /\ UNCHANGED <<asked, gcode, plate, conn, silent, fault>>
    BY <1>0, <1>10, Adds DEF Starting, Transfer
  <2> QED
    BY <1>0, <1>4, <1>5, <1>10, <2>1 DEF Starting, Transfer
<1>11. CASE ReadAll
  <2>1. pc \in Transfer /\ UNCHANGED <<asked, gcode, plate, conn, replies, silent, fault>>
    BY <1>11 DEF ReadAll, Transfer
  <2> QED
    BY <1>0, <1>4, <1>5, <1>11, <2>1 DEF ReadAll, Transfer
<1>12. CASE Complete
  <2>1. replies' \in Seq(Replies) /\ pc \in Transfer
        /\ UNCHANGED <<asked, gcode, plate, conn, silent>>
    BY <1>0, <1>12, Adds DEF Complete, Transfer
  <2>2. LastList \in {2, 4} /\ step \in 1..LastList + 1
    BY <1>0, <2>1, LastListIs DEF StepInv
  <2>3. CASE ~Accepted /\ Fails /\ UNCHANGED fault
    BY <1>0, <1>4, <2>1, <2>3
  <2>4. CASE /\ step <= LastList /\ found' = found \o List(step)
             /\ NextTransfer(step < LastList \/ (caller = "fetch" /\ found' # <<>>))
             /\ UNCHANGED <<result, fault>>
    <3> DEFINE more == step < LastList \/ (caller = "fetch" /\ found' # <<>>)
    <3>1. List(step) \in Seq(Archives)
      <4>1. step \in Dirs
        BY <2>2, <2>4 DEF Dirs
      <4> QED
        BY <1>0, <4>1, ListIs
    <3>2. found' \in Seq(Archives)
      <4> HIDE DEF List
      <4> QED
        BY <1>0, <2>4, <3>1
    <3>3. more \in BOOLEAN /\ NextTransfer(more) /\ (more => step <= LastList)
          /\ (more /\ step = LastList => caller = "fetch" /\ found' # <<>>)
      BY <2>2, <2>4
    <3> HIDE DEF more
    <3>4. /\ pc' \in {"pasv", "quit"} /\ step' \in 0..6 /\ commands' \in Seq(Commands)
          /\ data' = "none" /\ StepInv'
      BY <1>0, <2>1, <3>2, <3>3, NextTyped
    <3> QED
      BY <1>0, <2>1, <2>4, <3>2, <3>4, Typed DEF TypeInv
  <2>5. CASE /\ step > LastList /\ UNCHANGED found /\ NextTransfer(FALSE)
             /\ \/ /\ result' = pickPlate(findArchive(found).renders, plate)
                   /\ UNCHANGED fault
                \/ fault' = TRUE /\ UNCHANGED result
    <3>1. found # <<>>
      BY <1>0, <2>1, <2>5 DEF StepInv
    <3>2. findArchive(found) \in Archives
      BY <1>0, <3>1, ArchiveIsListed
    <3>3. findArchive(found).renders \in Seq(Renders)
      BY <3>2 DEF Archives
    <3>4. result' \in Renders \cup {NoRender} /\ fault' \in BOOLEAN
      BY <1>0, <2>5, <3>3, RenderIsThere
    <3>5. pc' = "quit" /\ step' = step /\ commands' = commands /\ data' = "none"
      BY <2>5 DEF NextTransfer
    <3>6. StepInv'
      BY <3>5 DEF StepInv, Transfer
    <3> QED
      BY <1>0, <2>1, <2>5, <3>4, <3>5, <3>6, Typed DEF TypeInv
  <2> QED
    BY <1>12, <2>3, <2>4, <2>5 DEF Complete
<1>13. CASE Close
  <2>1. StepInv'
    BY <1>13 DEF Close, StepInv, Transfer
  <2> QED
    BY <1>0, <1>13, <2>1, Typed DEF Close, server, TypeInv
<1>14. CASE Timeout
  <2>1. CASE pc = "login"
    <3>1. /\ pc' = "done" /\ conn' = "closed"
          /\ UNCHANGED <<asked, gcode, plate, replies, silent, fault, step, commands, data,
                         found, result>>
      BY <1>14, <2>1 DEF Timeout, LoginFails
    <3>2. StepInv'
      BY <3>1 DEF StepInv, Transfer
    <3> QED
      BY <1>0, <3>1, <3>2, Typed DEF TypeInv
  <2>2. CASE pc # "login"
    BY <1>0, <1>4, <1>14, <2>2 DEF Timeout, Waiting, Transfer
  <2> QED
    BY <2>1, <2>2
<1> QED
  BY <1>1, <1>2, <1>3, <1>6, <1>7, <1>8, <1>9, <1>10, <1>11, <1>12, <1>13, <1>14 DEF Client

(* each step of the server,                                                 *)
LEMMA ServerTyped == ASSUME TypeInv, Server PROVE TypeInv'
<1>0. /\ TypeOK /\ StepInv
      /\ caller \in {"fetch", "debug"} /\ store \in Stores
      /\ gcode \in {0} \cup Plates
      /\ pc \in {"begin", "connect", "dial", "send", "shake", "read", "quit", "done",
                 "login", "pasv", "150", "226"}
      /\ step \in 0..6 /\ plate \in {0} \cup Plates /\ found \in Seq(Archives)
      /\ result \in Renders \cup {NoRender} /\ conn \in {"none", "open", "closed"}
      /\ commands \in Seq(Commands) /\ replies \in Seq(Replies)
      /\ data \in {"none", "dialled", "ready", "open", "sent", "cut"}
      /\ silent \in BOOLEAN /\ fault \in BOOLEAN
  BY TypeIs DEF TypeInv
<1>1. ASSUME NEW class \in {1, 2, 3, 5},
             NEW to \in {"USER", "PASS", "PBSZ", "PROT", "TYPE", "PASV", "150", "226"},
             Reply(class, to)
      PROVE  replies' \in Seq(Replies)
  <2>1. [class |-> class, to |-> to] \in Replies
    BY DEF Replies
  <2> QED
    BY <1>0, <1>1, <2>1, Adds DEF Reply
<1>2. UNCHANGED <<asked, gcode, pc, step, plate, found, result, conn, silent>>
  BY DEF Server, Serves, Sends
<1>3. StepInv'
  BY <1>2, StepStays
<1>4. /\ replies' \in Seq(Replies) /\ commands' \in Seq(Commands) /\ fault' \in BOOLEAN
      /\ data' \in {"none", "dialled", "ready", "open", "sent", "cut"}
  <2>1. CASE Sends
    BY <1>0, <1>1, <2>1 DEF Sends
  <2>2. CASE Serves
    <3> DEFINE c == Head(commands)
    <3>1. c \in Commands /\ commands' \in Seq(Commands)
      BY <1>0, <2>2, Adds DEF Serves
    <3> HIDE DEF c
    <3>2. CASE c \in {"LIST", "RETR"}
      <4>1. \/ data' = "ready" /\ Reply(1, "150") /\ UNCHANGED fault
            \/ /\ data' = IF data = "dialled" THEN "cut" ELSE data
               /\ Reply(5, "150")
               /\ fault' = (fault \/ ~(c = "RETR" /\ Missing))
        BY <2>2, <3>2 DEF Serves, c
      <4>2. fault' \in BOOLEAN
        BY <1>0, <4>1, Zenon
      <4>3. data' \in {"none", "dialled", "ready", "open", "sent", "cut"}
        BY <1>0, <4>1
      <4> QED
        BY <1>1, <3>1, <4>1, <4>2, <4>3
    <3>3. CASE c \notin {"LIST", "RETR"}
      <4>1. \/ Reply(IF c = "USER" THEN 3 ELSE 2, c) /\ UNCHANGED <<data, fault>>
            \/ Reply(5, c) /\ fault' = TRUE /\ UNCHANGED data
        BY <2>2, <3>3 DEF Serves, c
      <4>2. c \in {"USER", "PASS", "PBSZ", "PROT", "TYPE", "PASV"}
        BY <3>1, <3>3 DEF Commands
      <4> QED
        BY <1>0, <1>1, <3>1, <4>1, <4>2
    <3> QED
      BY <3>2, <3>3
  <2> QED
    BY <2>1, <2>2 DEF Server
<1> QED
  BY <1>0, <1>2, <1>3, <1>4, Typed DEF TypeInv

(* the initial states have them,                                            *)
LEMMA TypeAtStart == ASSUME Init PROVE TypeInv
<1>1. /\ <<>> \in Seq(Archives) /\ <<>> \in Seq(Commands) /\ <<>> \in Seq(Replies)
      /\ 0 \in 0..6
  OBVIOUS
<1>2. TypeOK
  BY <1>1, ReplyType DEF Init, TypeOK, Commands
<1> QED
  BY <1>2 DEF Init, TypeInv, StepInv, Transfer

(* and so has every next state.                                             *)
LEMMA TypeStep == ASSUME TypeInv, [Next]_vars PROVE TypeInv'
<1>1. CASE Client
  BY <1>1, ClientTyped
<1>2. CASE Server
  BY <1>2, ServerTyped
<1>3. CASE ViewMoves
  BY <1>3 DEF ViewMoves, server, asked, TypeInv, TypeOK, StepInv, LastList
<1>4. CASE GoesSilent
  BY <1>4 DEF GoesSilent, asked, TypeInv, TypeOK, StepInv, LastList
<1>5. CASE UNCHANGED vars
  BY <1>5 DEF vars, server, asked, TypeInv, TypeOK, StepInv, LastList
<1> QED
  BY <1>1, <1>2, <1>3, <1>4, <1>5 DEF Next, Rest

-----------------------------------------------------------------------------
(* The protocol.                                                            *)
LEMMA Short ==
    ASSUME NEW a, NEW b
    PROVE  /\ Head(<<a>>) = a /\ Tail(<<a>>) = <<>> /\ <<a>> # <<>>
           /\ Head(<<a, b>>) = a /\ Tail(<<a, b>>) = <<b>> /\ <<a, b>> # <<>>
           /\ Append(<<>>, a) = <<a>> /\ Append(<<a>>, b) = <<a, b>>
<1>1. Head(<<a>>) = a /\ <<a>> # <<>> /\ Head(<<a, b>>) = a /\ <<a, b>> # <<>>
  OBVIOUS
<1>2. Tail(<<a>>) = <<>>
  OBVIOUS
<1>3. Tail(<<a, b>>) = <<b>>
  OBVIOUS
<1>4. Append(<<>>, a) = <<a>>
  OBVIOUS
<1>5. Append(<<a>>, b) = <<a, b>>
  <2> DEFINE s == Append(<<a>>, b)
             t == <<a, b>>
  <2>1. <<a>> \in Seq({a, b}) /\ Len(<<a>>) = 1 /\ <<a>>[1] = a
    OBVIOUS
  <2>2. s \in Seq({a, b}) /\ Len(s) = 2 /\ s[1] = a /\ s[2] = b
    BY <2>1
  <2>3. t \in Seq({a, b}) /\ Len(t) = 2 /\ t[1] = a /\ t[2] = b
    OBVIOUS
  <2> HIDE DEF s, t
  <2>4. \A i \in 1..2 : s[i] = t[i]
    BY <2>2, <2>3
  <2>5. s = t
    BY <2>2, <2>3, <2>4
  <2> QED
    BY <2>5 DEF s, t
<1> QED
  BY <1>1, <1>2, <1>3, <1>4, <1>5

(* A reply is its class and the command it answers.                         *)
LEMMA SaysIs ==
    ASSUME NEW class, NEW to
    PROVE  /\ Says(class, to).class = class /\ Says(class, to).to = to
           /\ [class |-> class, to |-> to] = Says(class, to)
BY DEF Says

(* Fetch gives up at the first error.                                       *)
LEMMA FetchFails ==
    ASSUME caller = "fetch", Fails
    PROVE  /\ pc' = "quit" /\ data' = "none"
           /\ UNCHANGED <<step, commands, found, result>>
BY DEF Fails, NextTransfer

(* What Fetch reads is what it awaits; without a fault it is accepted.      *)
LEMMA ReadsItsAnswer ==
    ASSUME TypeInv, Wire, pc \in Waiting, replies # <<>>
    PROVE  /\ Answer.to = Awaited
           /\ pc \in {"login", "pasv"} => Tail(replies) = <<>> /\ commands = <<>>
           /\ pc = "226" => Tail(replies) = <<>> /\ Accepted
           /\ pc = "150" => Accepted
           /\ ~fault => Accepted
<1>1. CASE pc = "login"
  <2>1. PICK k \in {2, 3, 5} : /\ replies = <<Says(k, Login[step])>> /\ commands = <<>>
                               /\ ~fault => k \in IF step = 2 THEN {2, 3} ELSE {2}
    BY <1>1 DEF Wire, Pending
  <2>2. Answer = Says(k, Login[step]) /\ Tail(replies) = <<>>
    BY <2>1, Short DEF Answer
  <2> QED
    BY <1>1, <2>1, <2>2, SaysIs DEF Awaited, Accepted
<1>2. CASE pc = "pasv"
  <2>1. PICK k \in {2, 3, 5} : /\ replies = <<Says(k, "PASV")>> /\ commands = <<>>
                               /\ ~fault => k \in {2}
    BY <1>2 DEF Wire, Pending
  <2>2. Answer = Says(k, "PASV") /\ Tail(replies) = <<>>
    BY <2>1, Short DEF Answer
  <2> QED
    BY <1>2, <2>1, <2>2, SaysIs DEF Awaited, Accepted
<1>3. CASE pc = "150"
  <2>1. Answer = Says(1, "150")
    BY <1>3, Short DEF Wire, Answer
  <2> QED
    BY <1>3, <2>1, SaysIs DEF Awaited, Accepted
<1>4. CASE pc = "226"
  <2>1. Answer = Says(2, "226") /\ Tail(replies) = <<>>
    BY <1>4, Short DEF Wire, Answer
  <2> QED
    BY <1>4, <2>1, SaysIs DEF Awaited, Accepted
<1> QED
  BY <1>1, <1>2, <1>3, <1>4 DEF Waiting

(* A wait of Fetch that nothing will end is one for a server gone silent.   *)
LEMMA WaitsForSilence ==
    ASSUME TypeInv, Wire, Timeout
    PROVE  silent
<1>1. CASE pc \in Waiting /\ replies = <<>>
  <2>1. commands # <<>>
    BY <1>1, Short DEF Waiting, Wire, Pending
  <2> QED
    BY <2>1 DEF Timeout, ServerIdle
<1>2. CASE pc = "shake" /\ data = "dialled"
  <2>1. commands # <<>>
    BY <1>2, Short DEF Wire
  <2> QED
    BY <2>1 DEF Timeout, ServerIdle
<1>3. CASE pc = "read" /\ data = "open"
  BY <1>3 DEF Timeout, ServerIdle
<1> QED
  BY <1>1, <1>2, <1>3 DEF Timeout

(* Each step of the client, then of the server, keeps to the protocol.      *)
LEMMA ClientInProtocol ==
    ASSUME TypeInv, caller = "fetch", Wire, Client
    PROVE  Wire'
<1>0. /\ TypeOK /\ step \in 0..6 /\ LastList = 4 /\ LastList' = LastList
      /\ commands \in Seq(Commands)
  <2>1. UNCHANGED asked
    BY DEF Client, Begin, Connect, LoginReply, Passive, DialData, SendCommand, Handshake,
           Starting, ReadAll, Complete, Close, Timeout
  <2> QED
    BY <2>1, TypeIs DEF TypeInv, LastList, asked
<1>1. ASSUME pc' \in {"quit", "done"} PROVE Wire'
  BY <1>1 DEF Wire
<1>2. CASE Fails
  BY <1>1, <1>2, FetchFails
<1>3. ASSUME pc' = "pasv", data' = "none", commands' = <<"PASV">>, replies' = <<>>
      PROVE  Wire'
  BY <1>3 DEF Wire, Pending
<1>4. CASE Begin
  BY <1>4 DEF Begin, Wire, server
<1>5. CASE Connect
  <2>1. CASE pc' = "done"
    BY <1>1, <2>1
  <2>2. CASE /\ pc' = "login" /\ step' = 1 /\ replies' = <<[class |-> 2, to |-> "220"]>>
             /\ UNCHANGED <<commands, data>> /\ pc = "connect"
    <3>1. replies' = <<Says(2, "220")>> /\ Login[1] = "220"
      BY <2>2, SaysIs DEF Login
    <3>2. commands' = <<>> /\ data' = "none"
      BY <2>2 DEF Wire
    <3>3. Pending(Login[step], IF step = 2 THEN {2, 3} ELSE {2})'
      BY <2>2, <3>1, <3>2 DEF Pending
    <3> QED
      BY <2>2, <3>2, <3>3 DEF Wire
  <2> QED
    BY <1>5, <2>1, <2>2 DEF Connect
<1>6. CASE LoginReply
  <2>1. replies' = <<>> /\ commands = <<>> /\ data' = "none" /\ pc = "login" /\ step \in 1..6
    <3>1. pc = "login" /\ replies # <<>> /\ replies' = Tail(replies) /\ data' = data
      BY <1>6 DEF LoginReply
    <3>2. step \in 1..6
      BY <3>1 DEF TypeInv, StepInv
    <3> QED
      BY <3>1, <3>2, ReadsItsAnswer DEF Waiting, Wire
  <2>2. CASE pc' = "done"
    BY <1>1, <2>2
  <2>3. CASE pc' = "pasv" /\ commands' = <<"PASV">>
    BY <1>3, <2>1, <2>3
  <2>4. CASE pc' = pc /\ step' = step + 1 /\ commands' = Append(commands, Login[step + 1])
    <3>1. commands' = <<Login[step']>>
      BY <2>1, <2>4, Short
    <3>2. Pending(Login[step], IF step = 2 THEN {2, 3} ELSE {2})'
      BY <2>1, <3>1 DEF Pending
    <3> QED
      BY <2>1, <2>4, <3>2 DEF Wire
  <2> QED
    BY <1>6, <2>2, <2>3, <2>4 DEF LoginReply, LoginFails
<1>7. CASE Passive
  <2>1. /\ pc = "pasv" /\ replies' = <<>> /\ commands = <<>> /\ data = "none"
    <3>1. pc = "pasv" /\ replies # <<>> /\ replies' = Tail(replies)
      BY <1>7 DEF Passive
    <3> QED
      BY <3>1, ReadsItsAnswer DEF Waiting, Wire
  <2>2. CASE pc' = "dial" /\ UNCHANGED <<commands, data>>
    BY <2>1, <2>2 DEF Wire
  <2> QED
    BY <1>2, <1>7, <2>2 DEF Passive
<1>8. CASE DialData
  <2>1. CASE /\ pc = "dial" /\ data' = "dialled" /\ pc' = "send"
             /\ UNCHANGED <<commands, replies>>
    BY <2>1 DEF Wire
  <2> QED
    BY <1>2, <1>8, <2>1 DEF DialData
<1>9. CASE SendCommand
  <2> DEFINE c == IF step <= LastList THEN "LIST" ELSE "RETR"
  <2>1. /\ pc = "send" /\ pc' = "shake" /\ commands' = Append(commands, c)
        /\ UNCHANGED <<step, replies, data>>
    BY <1>9 DEF SendCommand
  <2>2. commands = <<>> /\ replies' = <<>> /\ data' = "dialled"
    BY <2>1 DEF Wire
  <2>3. commands' = <<c>> /\ c' = c
    BY <1>0, <2>1, <2>2, Short
  <2> QED
    BY <2>1, <2>2, <2>3 DEF Wire
<1>10. CASE Handshake
  <2>1. CASE /\ pc = "shake" /\ data = "ready" /\ data' = "open" /\ pc' = "150"
             /\ UNCHANGED <<commands, replies>>
    BY <2>1 DEF Wire
  <2> QED
    BY <1>2, <1>10, <2>1 DEF Handshake
<1>11. CASE Starting
  <2>1. CASE /\ pc = "150" /\ replies' = Tail(replies) /\ pc' = "read"
             /\ UNCHANGED <<commands, data, fault>>
    <3>1. /\ commands' = <<>>
          /\ \/ replies = <<Says(1, "150")>> /\ data' = "open"
             \/ replies = <<Says(1, "150"), Says(2, "226")>> /\ data' = "sent"
             \/ replies = <<Says(1, "150"), Says(5, "226")>> /\ data' = "cut" /\ fault'
      BY <2>1 DEF Wire
    <3>2. \/ replies' = <<>> /\ data' = "open"
          \/ replies' = <<Says(2, "226")>> /\ data' = "sent"
          \/ replies' = <<Says(5, "226")>> /\ data' = "cut" /\ fault'
      <4>1. \A a, b : Tail(<<a>>) = <<>> /\ Tail(<<a, b>>) = <<b>>
        BY Short
      <4> QED
        BY <2>1, <3>1, <4>1, Zenon
    <3> QED
      BY <2>1, <3>1, <3>2 DEF Wire
  <2> QED
    BY <1>2, <1>11, <2>1 DEF Starting
<1>12. CASE ReadAll
  <2>1. CASE /\ pc = "read" /\ data = "sent" /\ pc' = "226"
             /\ UNCHANGED <<commands, data, replies>>
    BY <2>1 DEF Wire
  <2> QED
    BY <1>2, <1>12, <2>1 DEF ReadAll
<1>13. CASE Complete
  <2>1. replies' = <<>> /\ commands = <<>>
    <3>1. pc = "226" /\ replies # <<>> /\ replies' = Tail(replies)
      BY <1>13 DEF Complete
    <3> QED
      BY <3>1, ReadsItsAnswer DEF Waiting, Wire
  <2>2. ASSUME NEW more, NextTransfer(more) PROVE Wire'
    <3>1. CASE more
      <4>1. pc' = "pasv" /\ data' = "none" /\ commands' = Append(commands, "PASV")
        BY <2>2, <3>1 DEF NextTransfer
      <4>2. commands' = <<"PASV">>
        BY <2>1, <4>1, Short
      <4> QED
        BY <1>3, <2>1, <4>1, <4>2
    <3>2. CASE ~more
      BY <1>1, <2>2, <3>2 DEF NextTransfer
    <3> QED
      BY <3>1, <3>2
  <2>3. CASE NextTransfer(step < LastList \/ (caller = "fetch" /\ found' # <<>>))
    <3> DEFINE more == step < LastList \/ (caller = "fetch" /\ found' # <<>>)
    <3>1. NextTransfer(more)
      BY <2>3
    <3> HIDE DEF more
    <3> QED
      BY <2>2, <3>1
  <2>4. CASE NextTransfer(FALSE)
    BY <2>2, <2>4
  <2> QED
    BY <1>2, <1>13, <2>3, <2>4 DEF Complete
<1>14. CASE Close
  BY <1>1, <1>14 DEF Close
<1>15. CASE Timeout
  BY <1>1, <1>2, <1>15 DEF Timeout, LoginFails
<1> QED
  BY <1>4, <1>5, <1>6, <1>7, <1>8, <1>9, <1>10, <1>11, <1>12, <1>13, <1>14, <1>15 DEF Client

(* The server answers the one command that is out.                          *)
LEMMA ServerInProtocol ==
    ASSUME TypeInv, caller = "fetch", Wire, Server
    PROVE  Wire'
<1>0. /\ UNCHANGED <<asked, pc, step, found>> /\ LastList' = LastList
      /\ Missing' = Missing
  <2>1. UNCHANGED <<asked, pc, step, found>>
    BY DEF Server, Serves, Sends
  <2> QED
    BY <2>1 DEF LastList, asked, Missing, findArchive, First
<1>1. CASE Sends
  <2>1. /\ commands' = commands /\ data = "open"
        /\ \/ data' = "sent" /\ replies' = Append(replies, Says(2, "226"))
           \/ data' = "cut" /\ replies' = Append(replies, Says(5, "226")) /\ fault' = TRUE
    BY <1>1, SaysIs DEF Sends, Reply
  <2>2. CASE pc = "150"
    <3>1. commands = <<>> /\ replies = <<Says(1, "150")>>
      BY <2>1, <2>2 DEF Wire
    <3>2. \/ data' = "sent" /\ replies' = <<Says(1, "150"), Says(2, "226")>>
          \/ data' = "cut" /\ replies' = <<Says(1, "150"), Says(5, "226")>> /\ fault' = TRUE
      BY <2>1, <3>1, Short
    <3> QED
      BY <1>0, <2>1, <2>2, <3>1, <3>2 DEF Wire
  <2>3. CASE pc = "read"
    <3>1. commands = <<>> /\ replies = <<>>
      BY <2>1, <2>3 DEF Wire
    <3>2. \/ data' = "sent" /\ replies' = <<Says(2, "226")>>
          \/ data' = "cut" /\ replies' = <<Says(5, "226")>> /\ fault' = TRUE
      BY <2>1, <3>1, Short
    <3> QED
      BY <1>0, <2>1, <2>3, <3>1, <3>2 DEF Wire
  <2>4. CASE pc \in {"quit", "done"}
    BY <1>0, <2>4 DEF Wire
  <2>5. pc \in {"150", "read", "quit", "done"}
    <3>1. pc \in {"begin", "connect", "dial", "send", "shake", "read", "quit", "done",
                  "login", "pasv", "150", "226"}
      BY TypeIs DEF TypeInv
    <3> QED
      BY <2>1, <3>1 DEF Wire
  <2> QED
    BY <2>2, <2>3, <2>4, <2>5
<1>2. CASE Serves
  <2> DEFINE c == Head(commands)
  <2>1. /\ commands # <<>> /\ commands' = Tail(commands) /\ c \in Commands
    BY <1>2, Adds DEF Serves, TypeInv
  <2>2. pc \in {"login", "pasv", "shake", "quit", "done"}
    <3>1. pc \in {"begin", "connect", "dial", "send", "shake", "read", "quit", "done",
                  "login", "pasv", "150", "226"}
      BY TypeIs DEF TypeInv
    <3> QED
      BY <2>1, <3>1 DEF Wire
  <2>3. ASSUME NEW to \in Commands \ {"LIST", "RETR"}, commands = <<to>>, replies = <<>>
        PROVE  /\ c = to /\ commands' = <<>> /\ data' = data
               /\ \/ replies' = <<Says(IF to = "USER" THEN 3 ELSE 2, to)>>
                  \/ replies' = <<Says(5, to)>> /\ fault'
    <3>1. c = to /\ commands' = <<>>
      BY <2>1, <2>3, Short
    <3>2. /\ data' = data
          /\ \/ Reply(IF to = "USER" THEN 3 ELSE 2, to)
             \/ Reply(5, to) /\ fault' = TRUE
      BY <1>2, <2>3, <3>1 DEF Serves
    <3> QED
      BY <2>3, <3>1, <3>2, SaysIs, Short DEF Reply
  <2>4. CASE pc = "login"
    <3>1. /\ commands = <<Login[step]>> /\ replies = <<>> /\ data = "none" /\ step \in 1..6
      BY <2>1, <2>4 DEF Wire, Pending, TypeInv, StepInv
    <3>2. Login[step] \in Commands \ {"LIST", "RETR"} /\ (Login[step] = "USER" <=> step = 2)
      <4>1. Login[step] \in Commands
        BY <2>1, <3>1, Short
      <4> QED
        BY <3>1, <4>1 DEF Login
    <3>3. /\ commands' = <<>> /\ data' = "none"
          /\ \/ replies' = <<Says(IF step = 2 THEN 3 ELSE 2, Login[step])>>
             \/ replies' = <<Says(5, Login[step])>> /\ fault'
      BY <2>3, <3>1, <3>2
    <3>4. Pending(Login[step], IF step = 2 THEN {2, 3} ELSE {2})'
      BY <1>0, <3>3 DEF Pending
    <3> QED
      BY <1>0, <2>4, <3>3, <3>4 DEF Wire
  <2>5. CASE pc = "pasv"
    <3>1. commands = <<"PASV">> /\ replies = <<>> /\ data = "none"
      BY <2>1, <2>5 DEF Wire, Pending
    <3>2. /\ commands' = <<>> /\ data' = "none"
          /\ \/ replies' = <<Says(2, "PASV")>>
             \/ replies' = <<Says(5, "PASV")>> /\ fault'
      BY <2>3, <3>1 DEF Commands
    <3>3. Pending("PASV", {2})'
      BY <3>2 DEF Pending
    <3> QED
      BY <1>0, <2>5, <3>2, <3>3 DEF Wire
  <2>6. CASE pc = "shake"
    <3>1. /\ commands = <<IF step <= LastList THEN "LIST" ELSE "RETR">> /\ replies = <<>>
          /\ data = "dialled"
      BY <2>1, <2>6 DEF Wire
    <3>2. c \in {"LIST", "RETR"} /\ commands' = <<>>
      BY <2>1, <3>1, Short
    <3>3. \/ data' = "ready" /\ Reply(1, "150")
          \/ data' = "cut" /\ Reply(5, "150") /\ fault' = (fault \/ ~(c = "RETR" /\ Missing))
      BY <1>2, <3>1, <3>2 DEF Serves
    <3>4. \/ data' = "ready" /\ replies' = <<Says(1, "150")>>
          \/ data' = "cut" /\ replies' = <<Says(5, "150")>> /\ (~fault' => Missing)
      <4>1. CASE data' = "ready" /\ Reply(1, "150")
        BY <3>1, <4>1, SaysIs, Short DEF Reply
      <4>2. CASE /\ data' = "cut" /\ Reply(5, "150")
                 /\ fault' = (fault \/ ~(c = "RETR" /\ Missing))
        <5>1. replies' = <<Says(5, "150")>>
          BY <3>1, <4>2, SaysIs, Short DEF Reply
        <5>2. ~fault' => Missing
          BY <4>2, Zenon
        <5> QED
          BY <4>2, <5>1, <5>2
      <4> QED
        BY <3>3, <4>1, <4>2
    <3> QED
      BY <1>0, <2>6, <3>2, <3>4 DEF Wire
  <2>7. CASE pc \in {"quit", "done"}
    BY <1>0, <2>7 DEF Wire
  <2> QED
    BY <2>2, <2>4, <2>5, <2>6, <2>7
<1> QED
  BY <1>1, <1>2 DEF Server

(* Every step of a Fetch keeps to the protocol.                             *)
LEMMA KeepsToProtocol ==
    ASSUME TypeInv, caller = "fetch", Wire, [Next]_vars
    PROVE  Wire'
<1>1. ASSUME UNCHANGED <<asked, pc, step, found, commands, replies, data>>, fault => fault'
      PROVE  Wire'
  <2>1. LastList' = LastList /\ Missing' = Missing
    BY <1>1 DEF LastList, asked, Missing, findArchive, First
  <2> QED
    BY <1>1, <2>1 DEF Wire, Pending
<1>2. CASE ViewMoves \/ GoesSilent \/ UNCHANGED vars
  BY <1>1, <1>2 DEF ViewMoves, GoesSilent, vars, server, asked
<1> QED
  BY <1>2, ClientInProtocol, ServerInProtocol DEF Next, Rest

-----------------------------------------------------------------------------
(* What the listings yield.                                                 *)
LEMMA GatheredNext ==
    ASSUME store \in Stores, NEW n \in 1..4
    PROVE  Gathered(n) \o List(n) = Gathered(n + 1)
<1>1. List(1) \in Seq(Archives)
  BY ListIs DEF Dirs
<1>2. <<>> \o List(1) = List(1)
  <2> HIDE DEF List
  <2> QED
    BY <1>1
<1>3. /\ Gathered(1) = <<>> /\ Gathered(2) = List(1) /\ Gathered(3) = List(1) \o List(2)
      /\ Gathered(4) = List(1) \o List(2) \o List(3)
      /\ Gathered(5) = List(1) \o List(2) \o List(3) \o List(4)
  BY DEF Gathered
<1>4. n \in {1, 2, 3, 4}
  OBVIOUS
<1>5. /\ n = 1 => n + 1 = 2
      /\ n = 2 => n + 1 = 3
      /\ n = 3 => n + 1 = 4
      /\ n = 4 => n + 1 = 5
  OBVIOUS
<1> QED
  BY <1>2, <1>3, <1>4, <1>5, Zenon

(* The store does not change while it is read.                              *)
LEMMA GatheredStays ==
    ASSUME UNCHANGED asked
    PROVE  /\ Gathered(5)' = Gathered(5) /\ (step' = step => Gathered(step)' = Gathered(step))
           /\ found' = found => findArchive(found)' = findArchive(found)
<1>1. store' = store /\ jobName' = jobName
  BY DEF asked
<1>2. Gathered(5)' = Gathered(5)
  BY <1>1 DEF Gathered, List, listedFile
<1>3. step' = step => Gathered(step)' = Gathered(step)
  BY <1>1 DEF Gathered, List, listedFile
<1>4. found' = found => findArchive(found)' = findArchive(found)
  BY <1>1 DEF findArchive, First
<1> QED
  BY <1>2, <1>3, <1>4

(* After each listing Fetch has all the directories so far.                 *)
LEMMA KeepsGathering ==
    ASSUME TypeInv, caller = "fetch", Gathers, [Next]_vars
    PROVE  Gathers'
<1>0. UNCHANGED asked
  BY DEF Next, Rest, Client, Server, ViewMoves, GoesSilent, vars, Begin, Connect, LoginReply,
         Passive, DialData, SendCommand, Handshake, Starting, ReadAll, Complete, Close,
         Timeout, Serves, Sends
<1>1. /\ TypeOK /\ StepInv /\ store \in Stores /\ store' = store /\ LastList = 4
      /\ found \in Seq(Archives)
  BY <1>0, TypeIs DEF TypeInv, LastList, asked
<1>2. ASSUME pc' \in {"quit", "done"} PROVE Gathers'
  BY <1>2 DEF Gathers, Transfer
<1>3. CASE Fails
  BY <1>2, <1>3, FetchFails
<1>4. ASSUME UNCHANGED <<step, found>>, pc' \in Transfer => pc \in Transfer,
             pc' \in {"begin", "connect", "login"} => pc \in {"begin", "connect", "login"}
      PROVE  Gathers'
  BY <1>0, <1>4, GatheredStays DEF Gathers
<1>5. CASE Connect \/ LoginReply
  <2>1. pc \in {"connect", "login"} /\ found' = found
    BY <1>5 DEF Connect, LoginReply
  <2>2. found' = <<>>
    BY <2>1 DEF Gathers
  <2>3. CASE pc' \in {"login", "done"}
    BY <1>2, <2>2, <2>3 DEF Gathers, Transfer
  <2>4. CASE pc' = "pasv" /\ step' = 1
    BY <2>2, <2>4 DEF Gathers, Gathered
  <2> QED
    BY <1>5, <2>1, <2>3, <2>4 DEF Connect, LoginReply, LoginFails
<1>6. CASE Complete
  <2>1. pc = "226" /\ pc \in Transfer /\ step \in 1..5 /\ found = Gathered(step)
    BY <1>1, <1>6 DEF Complete, StepInv, Transfer, Gathers
  <2>2. CASE NextTransfer(FALSE)
    BY <1>2, <2>2 DEF NextTransfer
  <2>3. CASE /\ step <= LastList /\ found' = found \o List(step)
             /\ NextTransfer(step < LastList \/ (caller = "fetch" /\ found' # <<>>))
    <3>1. CASE pc' = "quit"
      BY <1>2, <3>1
    <3>2. CASE pc' = "pasv" /\ step' = step + 1
      <4>1. step \in 1..4
        BY <1>1, <2>1, <2>3
      <4>2. found' = Gathered(step + 1)
        BY <1>1, <2>1, <2>3, <4>1, GatheredNext
      <4>3. Gathered(step)' = Gathered(step + 1)
        BY <1>1, <3>2 DEF Gathered, List
      <4> QED
        BY <3>2, <4>2, <4>3 DEF Gathers
    <3> QED
      BY <2>3, <3>1, <3>2 DEF NextTransfer
  <2> QED
    BY <1>3, <1>6, <2>2, <2>3 DEF Complete
<1>7. CASE Begin \/ Passive \/ DialData \/ SendCommand \/ Handshake \/ Starting \/ ReadAll
  BY <1>3, <1>4, <1>7 DEF Begin, Passive, DialData, SendCommand, Handshake, Starting, ReadAll,
                          Transfer
<1>8. CASE Close \/ Timeout
  BY <1>2, <1>3, <1>8 DEF Close, Timeout, LoginFails
<1>9. CASE Server \/ ViewMoves \/ GoesSilent \/ UNCHANGED vars
  BY <1>4, <1>9 DEF Server, Serves, Sends, ViewMoves, GoesSilent, vars
<1> QED
  BY <1>5, <1>6, <1>7, <1>8, <1>9 DEF Next, Rest, Client

-----------------------------------------------------------------------------
(* What Fetch ends with.                                                    *)
LEMMA KeepsOutcome ==
    ASSUME TypeInv, caller = "fetch", Wire, Gathers, Outcome, silent => fault, [Next]_vars
    PROVE  Outcome'
<1>0. /\ UNCHANGED asked
      /\ Gathered(5)' = Gathered(5)
      /\ found' = found => findArchive(found)' = findArchive(found)
  <2>1. UNCHANGED asked
    BY DEF Next, Rest, Client, Server, ViewMoves, GoesSilent, vars, Begin, Connect, LoginReply,
           Passive, DialData, SendCommand, Handshake, Starting, ReadAll, Complete, Close,
           Timeout, Serves, Sends
  <2> QED
    BY <2>1, GatheredStays
<1>1. /\ TypeOK /\ StepInv /\ store \in Stores /\ LastList = 4 /\ found \in Seq(Archives)
      /\ pc \in {"begin", "connect", "dial", "send", "shake", "read", "quit", "done",
                 "login", "pasv", "150", "226"}
  BY TypeIs DEF TypeInv, LastList
<1>2. ASSUME pc \in Transfer, Missing
      PROVE  found = Gathered(5) /\ findArchive(found).spaced
  <2>1. step = 5
    BY <1>1, <1>2 DEF Missing, StepInv
  <2> QED
    BY <1>2, <2>1 DEF Missing, Gathers
(* It gives up for a fault, or because the server does not have the file.   *)
<1>3. ASSUME pc \in Transfer, UNCHANGED <<gcode, plate>>, Fails, ~fault' => Missing
      PROVE  Outcome'
  <2>1. pc' = "quit" /\ UNCHANGED <<found, result>>
    BY <1>3, FetchFails
  <2>2. result = NoRender /\ plate = plateNumber(gcode)
    BY <1>3 DEF Outcome, Transfer
  <2>3. plate' = plateNumber(gcode)'
    BY <1>3, <2>2 DEF plateNumber
  <2> QED
    BY <1>0, <1>2, <1>3, <2>1, <2>2, <2>3 DEF Outcome
<1>4. ASSUME pc \notin {"begin", "quit", "done"}, UNCHANGED <<gcode, plate, result>>,
             pc' \in {"quit", "done"} => fault'
      PROVE  Outcome'
  <2>1. result' = NoRender /\ plate' = plateNumber(gcode)'
    BY <1>4 DEF Outcome, plateNumber
  <2> QED
    BY <1>4, <2>1 DEF Outcome
<1>5. ASSUME UNCHANGED <<found, result>>, pc' \in {"quit", "done"} <=> pc \in {"quit", "done"},
             fault => fault', pc' # "begin" => plate' = plateNumber(gcode)',
             pc' = "begin" \/ UNCHANGED <<plate, gcode>> \/ pc = "begin"
      PROVE  Outcome'
  <2>1. result # NoRender => pc \in {"quit", "done"}
    BY DEF Outcome
  <2>2. CASE pc' \in {"quit", "done"}
    <3>1. UNCHANGED <<plate, gcode>>
      BY <1>5, <2>2
    <3> QED
      BY <1>0, <1>5, <2>2, <3>1 DEF Outcome
  <2>3. CASE pc' \notin {"quit", "done"}
    <3>1. result' = NoRender
      BY <1>5, <2>1, <2>3
    <3> QED
      BY <1>5, <2>3, <3>1 DEF Outcome
  <2> QED
    BY <2>2, <2>3
<1>6. CASE ViewMoves \/ Begin
  BY <1>5, <1>6 DEF ViewMoves, Begin, server, plateNumber
<1>7. CASE Connect
  BY <1>4, <1>7 DEF Connect
<1>8. CASE LoginReply
  <2>1. ~fault => Accepted
    BY <1>8, ReadsItsAnswer DEF LoginReply, Waiting
  <2> QED
    BY <1>4, <1>8, <2>1 DEF LoginReply, LoginFails
<1>9. CASE Passive
  <2>1. (~fault => Accepted) /\ pasvAddr /\ pc \in Transfer
    BY <1>9, ReadsItsAnswer DEF Passive, Waiting, pasvAddr, Awaited, Transfer
  <2> QED
    BY <1>3, <1>4, <1>9, <2>1 DEF Passive
<1>10. CASE DialData
  BY <1>3, <1>4, <1>10 DEF DialData, Transfer
<1>11. CASE SendCommand
  BY <1>4, <1>11 DEF SendCommand
<1>12. CASE Handshake
  <2>1. pc \in Transfer /\ (data = "cut" => (~fault => Missing))
    BY <1>12 DEF Handshake, Wire, Transfer
  <2> QED
    BY <1>3, <1>4, <1>12, <2>1 DEF Handshake
<1>13. CASE Starting
  <2>1. Accepted
    BY <1>13, ReadsItsAnswer DEF Starting, Waiting
  <2> QED
    BY <1>4, <1>13, <2>1 DEF Starting
<1>14. CASE ReadAll
  <2>1. pc \in Transfer /\ (data = "cut" => fault)
    BY <1>14 DEF ReadAll, Wire, Transfer
  <2> QED
    BY <1>3, <1>4, <1>14, <2>1 DEF ReadAll
<1>15. CASE Complete
  <2>1. /\ Accepted /\ pc = "226" /\ pc \in Transfer /\ UNCHANGED <<gcode, plate>>
        /\ step \in 1..5 /\ found = Gathered(step) /\ result = NoRender
    BY <1>1, <1>15, ReadsItsAnswer DEF Complete, Waiting, Transfer, StepInv, Gathers, Outcome
  <2>2. plate' = plateNumber(gcode)' /\ plate' = plate
    BY <2>1 DEF Outcome, plateNumber
  <2>3. CASE /\ step <= LastList /\ found' = found \o List(step)
             /\ NextTransfer(step < LastList \/ (caller = "fetch" /\ found' # <<>>))
             /\ UNCHANGED <<result, fault>>
    <3>1. CASE pc' = "pasv"
      BY <1>4, <2>1, <2>3, <3>1
    <3>2. CASE pc' = "quit" /\ ~(step < LastList) /\ found' = <<>>
      <4>1. step = 4
        BY <1>1, <2>1, <2>3, <3>2
      <4>2. found' = Gathered(5)
        BY <1>1, <2>1, <2>3, <4>1, GatheredNext
      <4> QED
        BY <1>0, <2>1, <2>2, <2>3, <3>2, <4>2 DEF Outcome
    <3> QED
      BY <2>3, <3>1, <3>2 DEF NextTransfer
  <2>4. CASE /\ step > LastList /\ UNCHANGED found /\ NextTransfer(FALSE)
             /\ \/ /\ result' = pickPlate(findArchive(found).renders, plate)
                   /\ UNCHANGED fault
                \/ fault' = TRUE /\ UNCHANGED result
    <3>1. pc' = "quit" /\ step = 5 /\ found' = Gathered(5) /\ found # <<>>
      BY <1>1, <2>1, <2>4 DEF NextTransfer, StepInv
    <3>2. pickPlate(findArchive(found).renders, plate)'
            = pickPlate(findArchive(found).renders, plate)
      BY <1>0, <2>2, <2>4 DEF pickPlate, First
    <3> QED
      BY <1>0, <2>1, <2>2, <2>4, <3>1, <3>2 DEF Outcome
  <2> QED
    BY <1>15, <2>1, <2>3, <2>4 DEF Complete
<1>16. CASE Close
  <2>1. plate' = plateNumber(gcode)'
    BY <1>16 DEF Close, Outcome, plateNumber
  <2> QED
    BY <1>5, <1>16, <2>1 DEF Close, server
<1>17. CASE Timeout
  <2>1. fault' = fault /\ fault = TRUE /\ UNCHANGED <<gcode, plate>>
    BY <1>17, WaitsForSilence, TypeIs DEF Timeout, TypeInv
  <2>2. pc \in Transfer \cup {"login"}
    BY <1>17 DEF Timeout, Waiting, Transfer
  <2> QED
    BY <1>3, <1>4, <1>17, <2>1, <2>2 DEF Timeout, LoginFails, Transfer
<1>18. CASE Server \/ GoesSilent \/ UNCHANGED vars
  <2>1. UNCHANGED <<pc, found, result, plate, gcode>>
    BY <1>18 DEF Server, Serves, Sends, GoesSilent, vars
  <2>2. fault => fault'
    BY <1>18, Zenon DEF Server, Serves, Sends, GoesSilent, vars, server
  <2>3. pc' # "begin" => plate' = plateNumber(gcode)'
    BY <2>1 DEF Outcome, plateNumber
  <2> QED
    BY <1>5, <2>1, <2>2, <2>3
<1> QED
  BY <1>6, <1>7, <1>8, <1>9, <1>10, <1>11, <1>12, <1>13, <1>14, <1>15, <1>16, <1>17, <1>18
     DEF Next, Rest, Client

-----------------------------------------------------------------------------
(* The inductive invariant of both callers.                                 *)
LEMMA Invariant == Spec => []IInv
<1>1. Init => IInv
  <2> SUFFICES ASSUME Init PROVE IInv
    OBVIOUS
  <2>1. TypeInv
    BY TypeAtStart
  <2>2. Wire
    BY DEF Init, Wire
  <2>3. Gathers
    BY DEF Init, Gathers, Transfer
  <2>4. Outcome
    BY DEF Init, Outcome
  <2> QED
    BY <2>1, <2>2, <2>3, <2>4 DEF Init, IInv, TypeInv, Fetching, Listing
<1>2. IInv /\ [Next]_vars => IInv'
  <2> SUFFICES ASSUME IInv, [Next]_vars PROVE IInv'
    OBVIOUS
  <2>1. TypeInv
    BY DEF IInv, TypeInv
  <2>2. TypeInv'
    BY <2>1, TypeStep
  <2>3. caller' = caller /\ caller \in {"fetch", "debug"}
    BY <2>1, TypeIs DEF Next, Rest, Client, Server, ViewMoves, GoesSilent, vars, asked, Begin,
         Connect, LoginReply, Passive, DialData, SendCommand, Handshake, Starting, ReadAll,
         Complete, Close, Timeout, Serves, Sends, TypeInv
  <2>4. Fetching'
    BY <2>1, <2>3, KeepsToProtocol, KeepsGathering, KeepsOutcome DEF IInv, Fetching
  <2>5. Listing'
    <3>1. ASSUME caller = "debug" PROVE result' = result
      <4>1. CASE Complete
        <5>1. step <= LastList
          BY <2>1, <3>1, <4>1, LastListIs
             DEF Complete, TypeInv, TypeOK, StepInv, Transfer
        <5>2. step \in Int /\ LastList \in Int
          BY <2>1, LastListIs DEF TypeInv, TypeOK
        <5>3. ~(step > LastList)
          BY <5>1, <5>2
        <5> QED
          BY <4>1, <5>3, Zenon DEF Complete, Fails
      <4> QED
        BY <4>1 DEF Next, Rest, Client, Server, ViewMoves, GoesSilent, vars, Begin,
             Connect, LoginReply, Passive, DialData, SendCommand, Handshake, Starting, ReadAll,
             Close, Timeout, Serves, Sends, Fails
    <3> QED
      BY <2>3, <3>1 DEF IInv, Listing
  <2>6. silent' => fault'
    <3>1. silent => fault
      BY DEF IInv
    <3>2. CASE GoesSilent
      BY <3>2 DEF GoesSilent
    <3>3. CASE Client \/ ViewMoves \/ UNCHANGED vars
      <4>1. silent' = silent
        BY <3>3 DEF Client, ViewMoves, vars, server, Begin, Connect, LoginReply, Passive,
             DialData, SendCommand, Handshake, Starting, ReadAll, Complete, Close, Timeout
      <4>2. fault' = fault \/ fault' = TRUE
        BY <3>3 DEF Client, ViewMoves, vars, server, Begin, Connect, LoginReply, Passive,
             DialData, SendCommand, Handshake, Starting, ReadAll, Complete, Close, Timeout
      <4> QED
        BY <3>1, <4>1, <4>2
    <3>4. CASE Server
      BY <3>1, <3>4, Zenon DEF Server, Serves, Sends
    <3> QED
      BY <3>2, <3>3, <3>4 DEF Next, Rest
  <2> QED
    BY <2>2, <2>4, <2>5, <2>6 DEF IInv, TypeInv
<1> QED
  BY <1>1, <1>2, PTL DEF Spec

(* Every variable keeps its type: a render that is kept is one of the 3mf's *)
(* own, and retrieving one is never asked of an empty list (findArchive).   *)
THEOREM TypeCorrect == Spec => []TypeOK
<1>1. IInv => TypeOK
  BY DEF IInv
<1> QED
  BY <1>1, Invariant, PTL

(* The reply Fetch reads is the reply to the command it last sent, whatever *)
(* the server refuses and wherever the network fails (expect, transfer).    *)
THEOREM RepliesInStep == Spec => []InStep
<1>1. IInv => InStep
  BY ReadsItsAnswer DEF IInv, TypeInv, Fetching, InStep
<1> QED
  BY <1>1, Invariant, PTL

(* Fetch comes away without a render only for a fault of the other side, or *)
(* because there is no 3mf, none under a name it can ask for or no render   *)
(* in it: client and server never wait for each other (transfer's order).   *)
THEOREM FailsForAReason == Spec => []OnlyFaultsFail
<1>1. IInv => OnlyFaultsFail
  <2> SUFFICES ASSUME IInv, caller = "fetch", pc = "done", ~fault, result = NoRender
               PROVE  OnlyFaultsFail
    BY DEF OnlyFaultsFail
  <2> DEFINE listed == List(1) \o List(2) \o List(3) \o List(4)
  <2>1. Gathered(5) = listed
    BY DEF Gathered
  <2> HIDE DEF listed
  <2>2. /\ found = listed
        /\ \/ found = <<>>
           \/ findArchive(found).spaced
           \/ pickPlate(findArchive(found).renders, plate) = NoRender
    BY <2>1 DEF IInv, Fetching, Outcome
  <2>3. \/ listed = <<>>
        \/ findArchive(listed).spaced
        \/ pickPlate(findArchive(listed).renders, plate) = NoRender
    BY <2>2
  <2> QED
    BY <2>3 DEF OnlyFaultsFail, listed
<1> QED
  BY <1>1, Invariant, PTL

-----------------------------------------------------------------------------
(* What was listed, against what is there: as long, and the same 3mfs but   *)
(* for the names with a space in them.                                      *)
Mirrors(l, s) ==
    /\ l \in Seq(Archives) /\ s \in Seq(Archives) /\ Len(l) = Len(s)
    /\ \A i \in 1..Len(s) : l[i] = listedFile(s[i])

(* Joining listings joins what they mirror.                                 *)
LEMMA MirrorsJoin ==
    ASSUME NEW l1, NEW s1, NEW l2, NEW s2, Mirrors(l1, s1), Mirrors(l2, s2)
    PROVE  Mirrors(l1 \o l2, s1 \o s2)
<1>1. /\ l1 \in Seq(Archives) /\ s1 \in Seq(Archives) /\ Len(l1) = Len(s1)
      /\ l2 \in Seq(Archives) /\ s2 \in Seq(Archives) /\ Len(l2) = Len(s2)
  BY DEF Mirrors
<1>2. /\ l1 \o l2 \in Seq(Archives) /\ s1 \o s2 \in Seq(Archives)
      /\ Len(l1 \o l2) = Len(l1) + Len(l2) /\ Len(s1 \o s2) = Len(s1) + Len(s2)
  BY <1>1
<1>3. ASSUME NEW i \in 1..Len(s1 \o s2)
      PROVE  (l1 \o l2)[i] = listedFile((s1 \o s2)[i])
  <2>1. CASE i <= Len(s1)
    <3>1. (l1 \o l2)[i] = l1[i] /\ (s1 \o s2)[i] = s1[i]
      BY <1>1, <1>2, <1>3, <2>1
    <3>2. i \in 1..Len(s1)
      BY <1>1, <1>2, <2>1
    <3> QED
      BY <3>1, <3>2 DEF Mirrors
  <2>2. CASE i > Len(s1)
    <3>1. (l1 \o l2)[i] = l2[i - Len(s1)] /\ (s1 \o s2)[i] = s2[i - Len(s1)]
      BY <1>1, <1>2, <1>3, <2>2
    <3>2. i - Len(s1) \in 1..Len(s2)
      BY <1>1, <1>2, <2>2
    <3> QED
      BY <3>1, <3>2 DEF Mirrors
  <2> QED
    BY <1>1, <1>2, <2>1, <2>2
<1> QED
  BY <1>1, <1>2, <1>3 DEF Mirrors

(* The four listings mirror the whole store.                                *)
LEMMA GatheredMirrors ==
    ASSUME store \in Stores
    PROVE  Mirrors(Gathered(5), store[1] \o store[2] \o store[3] \o store[4])
<1>1. \A d \in Dirs : Mirrors(List(d), store[d])
  <2> TAKE d \in Dirs
  <2>1. store[d] \in Seq(Archives)
    BY PreviewAssumption
  <2>2. DOMAIN store[d] = 1..Len(store[d])
    BY <2>1
  <2> QED
    BY <2>1, <2>2, ListIs DEF Mirrors
<1>2. /\ Mirrors(List(1), store[1]) /\ Mirrors(List(2), store[2])
      /\ Mirrors(List(3), store[3]) /\ Mirrors(List(4), store[4])
  BY <1>1 DEF Dirs
<1>3. Mirrors(List(1) \o List(2), store[1] \o store[2])
  BY <1>2, MirrorsJoin, Zenon
<1>4. Mirrors(List(1) \o List(2) \o List(3), store[1] \o store[2] \o store[3])
  BY <1>2, <1>3, MirrorsJoin, Zenon
<1>5. Mirrors(List(1) \o List(2) \o List(3) \o List(4),
              store[1] \o store[2] \o store[3] \o store[4])
  BY <1>2, <1>4, MirrorsJoin, Zenon
<1>6. Gathered(5) = List(1) \o List(2) \o List(3) \o List(4)
  BY DEF Gathered
<1> QED
  BY <1>5, <1>6, Zenon

(* Of the 3mfs listed, the job's own is chosen when only it has the title.  *)
LEMMA OwnIsChosen ==
    ASSUME NEW all, NEW list, Mirrors(list, all), jobName # NoTitle,
           NEW own \in DOMAIN all, ~all[own].spaced,
           \A i \in DOMAIN all : all[i].title = jobName <=> i = own
    PROVE  findArchive(list) = all[own]
<1>1. /\ list \in Seq(Archives) /\ all \in Seq(Archives) /\ Len(list) = Len(all)
      /\ DOMAIN list = 1..Len(all) /\ DOMAIN all = 1..Len(all)
      /\ \A i \in DOMAIN all : all[i] \in Archives /\ list[i] = listedFile(all[i])
  BY DEF Mirrors
<1>2. list[own] = all[own]
  BY <1>1 DEF listedFile
<1>3. \A i \in DOMAIN list : list[i].title = jobName => i = own
  <2> SUFFICES ASSUME NEW i \in DOMAIN all, list[i].title = jobName PROVE i = own
    BY <1>1
  <2>1. CASE all[i].spaced
    <3>1. listedFile(all[i]).title = NoTitle
      BY <1>1, <2>1 DEF listedFile, Archives
    <3> QED
      BY <1>1, <3>1
  <2>2. CASE ~all[i].spaced
    <3>1. list[i] = all[i]
      BY <1>1, <2>2 DEF listedFile
    <3> QED
      BY <3>1
  <2> QED
    BY <2>1, <2>2
<1> DEFINE named == {i \in DOMAIN list : list[i].title = jobName}
<1>4. named = {own}
  BY <1>1, <1>2, <1>3
<1>5. First(list, named) = list[own]
  <2>1. own \in Nat /\ {own} \in SUBSET Nat /\ {own} # {}
    BY <1>1
  <2>2. \E i \in {own} : First(list, {own}) = list[i]
    BY <2>1, FirstIs
  <2> QED
    BY <1>4, <2>2
<1>6. CASE Len(list) > 1
  <2>1. findArchive(list) = First(list, named)
    BY <1>4, <1>6 DEF findArchive
  <2> QED
    BY <1>2, <1>5, <2>1
<1>7. CASE ~(Len(list) > 1)
  <2>1. own = 1 /\ findArchive(list) = list[1]
    BY <1>1, <1>7 DEF findArchive
  <2> QED
    BY <1>2, <2>1
<1> QED
  BY <1>6, <1>7

(* The preview kept is of the running job and of its running plate, however *)
(* many jobs the printer holds (findArchive, plateNumber, pickPlate).       *)
THEOREM PreviewOfThePrint == Spec => []RightRender
<1>1. IInv => RightRender
  <2> DEFINE all == store[1] \o store[2] \o store[3] \o store[4]
             wanted == [plate |-> gcode, kind |-> "full"]
  <2>1. ASSUME IInv, NEW own \in DOMAIN all, result # NoRender, gcode # 0,
               jobName # NoTitle, ~all[own].spaced,
               \A i \in DOMAIN all : all[i].title = jobName <=> i = own,
               \E i \in DOMAIN all[own].renders : all[own].renders[i] = wanted
        PROVE  findArchive(found) = all[own] /\ result = wanted
    <3>1. /\ TypeOK /\ store \in Stores /\ caller = "fetch" /\ Outcome
          /\ gcode \in Plates
      BY <2>1, TypeIs DEF IInv, Listing, Fetching
    <3>2. /\ found = Gathered(5) /\ plate = gcode
          /\ result = pickPlate(findArchive(found).renders, plate)
      BY <2>1, <3>1 DEF Outcome, plateNumber
    <3>3. Mirrors(found, all)
      BY <3>1, <3>2, GatheredMirrors
    <3> HIDE DEF all
    <3>4. all[own] \in Archives
      BY <2>1, <3>3 DEF Mirrors
    <3>5. findArchive(found) = all[own]
      BY <2>1, <3>3, OwnIsChosen
    <3>6. all[own].renders \in Seq(Renders)
      BY <3>4 DEF Archives
    <3>7. \E i \in DOMAIN all[own].renders :
             all[own].renders[i].plate = gcode /\ all[own].renders[i].kind = "full"
      BY <2>1
    <3>8. result \in Renders /\ result.plate = gcode /\ result.kind = "full"
      BY <3>2, <3>5, <3>6, <3>7, RenderIsThere
    <3>9. result = wanted
      BY <3>1, <3>8 DEF Renders
    <3> QED
      BY <3>5, <3>9
  <2> QED
    BY <2>1 DEF RightRender
<1> QED
  BY <1>1, Invariant, PTL
=============================================================================
