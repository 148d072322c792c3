------------------------------ MODULE Preview -------------------------------
(***************************************************************************)
(* The plate preview: fetchPreview and preview.Fetch over the FTPS client,  *)
(* against the printer's file server.  `debug` lists the same store over    *)
(* the same client, and goes on where Fetch gives up.                       *)
(*                                                                         *)
(* The server is external.  It answers commands in order, begins the data   *)
(* channel's handshake only once it has the transfer command, resets a      *)
(* channel that did not resume the control session, and may refuse any      *)
(* command or fall silent.  A reply is its first digit and the command it   *)
(* answers; a silence ends with the deadline set on the connection.         *)
(***************************************************************************)
EXTENDS Integers, Sequences

CONSTANTS
    Titles,     \* the printer's names for jobs
    Stores,     \* what the printer may hold: per directory, a list of 3mfs
    Plates      \* plates of a 3mf

(* No title: a session without one, or a 3mf whose path holds none.          *)
NoTitle == ""

(* A 3mf: the job whose title its path contains, whether its name has a     *)
(* space in it, and the renders inside, in order.                           *)
Renders  == [plate : Plates, kind : {"full", "small", "other"}]
Archives == [title : Titles \cup {NoTitle}, spaced : BOOLEAN, renders : Seq(Renders)]

Dirs == 1..4
NoRender == [plate |-> 0, kind |-> "none"]

ASSUME PreviewAssumption ==
    /\ Plates \subseteq Nat \ {0} /\ 1 \in Plates
    /\ NoTitle \notin Titles
    /\ \A s \in Stores : \A d \in Dirs : s[d] \in Seq(Archives)

VARIABLES
    caller,     \* "fetch" or "debug"
    store,      \* the printer's files
    jobName,    \* the session's title, NoTitle when the printer gave none
    gcode,      \* the plate gcode_file names in the merged view, 0 for none
    pc,         \* of the client
    step,       \* of the login, then of the transfers
    plate,      \* the plate asked for
    found,      \* 3mfs listed so far
    result,     \* the render, NoRender before and without one
    conn,       \* the control connection
    commands,   \* sent and not yet read by the server
    replies,    \* sent and not yet read by the client
    data,       \* the data connection
    silent,     \* the server has stopped answering
    fault       \* history: the server, the network or a cancelled context failed it

server == <<commands, replies, data, silent, fault>>
asked  == <<caller, store, jobName>>
vars   == <<asked, gcode, pc, step, plate, found, result, conn, server>>

Login == <<"220", "USER", "PASS", "PBSZ", "PROT", "TYPE">>

(* searchDirs for Fetch, which then retrieves; debug asks for two.          *)
LastList == IF caller = "fetch" THEN 4 ELSE 2

Waiting == {"login", "pasv", "150", "226"}

TypeOK ==
    /\ caller \in {"fetch", "debug"} /\ store \in Stores /\ jobName \in Titles \cup {NoTitle}
    /\ gcode \in {0} \cup Plates
    /\ pc \in {"begin", "connect", "dial", "send", "shake", "read", "quit", "done"}
              \cup Waiting
    /\ step \in 0..6
    /\ plate \in {0} \cup Plates
    /\ found \in Seq(Archives)
    /\ result \in Renders \cup {NoRender}
    /\ conn \in {"none", "open", "closed"}
    /\ commands \in Seq({"USER", "PASS", "PBSZ", "PROT", "TYPE", "PASV", "LIST", "RETR"})
    /\ replies \in Seq([class : {1, 2, 3, 5}, to : {Login[i] : i \in 1..6}
                                                   \cup {"PASV", "150", "226"}])
    /\ data \in {"none", "dialled", "ready", "open", "sent", "cut"}
    /\ silent \in BOOLEAN /\ fault \in BOOLEAN

Init ==
    /\ caller \in {"fetch", "debug"}
    /\ store \in Stores
    /\ jobName \in Titles \cup {NoTitle}
    /\ gcode \in {0} \cup Plates
    /\ pc = "begin"
    /\ step = 0
    /\ plate = 0
    /\ found = <<>>
    /\ result = NoRender
    /\ conn = "none"
    /\ commands = <<>> /\ replies = <<>>
    /\ data = "none"
    /\ silent = FALSE /\ fault = FALSE

-----------------------------------------------------------------------------
(* Choosing.                                                               *)

(* What a LIST line yields: a name with a space in it loses all but its     *)
(* last word, and with it the title.                                        *)
listedFile(a) == IF a.spaced THEN [a EXCEPT !.title = NoTitle] ELSE a

(* A directory, read whole. *)
List(d) == [i \in DOMAIN store[d] |-> listedFile(store[d][i])]

(* The first 3mf, whatever it is called. *)
findArchiveFirst(list) == list[1]

(* The loops' early return: the first of the candidates I in a list. *)
First(list, I) == list[CHOOSE i \in I : \A j \in I : i <= j]

(* The 3mf named after the job if there are several, else the first. *)
findArchive(list) ==
    LET named == {i \in DOMAIN list : list[i].title = jobName}
    IN  IF Len(list) > 1 /\ jobName # NoTitle /\ named # {} THEN First(list, named)
        ELSE list[1]

(* Plates counted from zero. *)
plateNumberFromZero(file) == file - 1

plateNumber(file) == IF file = 0 THEN 1 ELSE file

(* The render of the plate, or the first one that is not a thumbnail. *)
pickPlate(renders, n) ==
    LET exact == {i \in DOMAIN renders : renders[i].plate = n /\ renders[i].kind = "full"}
        any   == {i \in DOMAIN renders : renders[i].kind # "small"}
    IN  CASE exact # {} -> First(renders, exact)
          [] exact = {} /\ any # {} -> First(renders, any)
          [] OTHER -> NoRender

-----------------------------------------------------------------------------
(* The client.                                                             *)

(* Reports go on arriving until the goroutine gets to read the view. *)
ViewMoves ==
    /\ pc = "begin"
    /\ gcode' \in {0} \cup Plates
    /\ UNCHANGED <<asked, pc, step, plate, found, result, conn, server>>

(* fetchPreview reads the running file; Dial connects. *)
Begin ==
    /\ pc = "begin"
    /\ pc' = "connect"
    /\ plate' = plateNumber(gcode)
    /\ UNCHANGED <<asked, gcode, step, found, result, conn, server>>

Connect ==
    /\ pc = "connect"
    /\ \/ /\ pc' = "login" /\ step' = 1 /\ conn' = "open"
          /\ replies' = <<[class |-> 2, to |-> "220"]>>
          /\ UNCHANGED fault
       \/ pc' = "done" /\ fault' = TRUE /\ UNCHANGED <<step, conn, replies>>
    /\ UNCHANGED <<asked, gcode, plate, found, result, commands, data, silent>>

(* The answer read: to which command, and whether expect accepts it. *)
Answer == Head(replies)

Awaited == CASE pc = "login" -> Login[step] [] pc = "pasv" -> "PASV" [] OTHER -> pc

Accepted ==
    Answer.class \in CASE pc = "150" -> {1}
                       [] pc = "login" /\ step = 2 -> {2, 3}
                       [] OTHER -> {2}

(* The error returned without closing what was opened. *)
LoginFailsOpen == pc' = "done" /\ UNCHANGED <<conn, step, commands>>

(* A refused login closes the connection in Dial. *)
LoginFails == pc' = "done" /\ conn' = "closed" /\ UNCHANGED <<step, commands>>

(* expect, once per step of the login; then the first PASV. *)
LoginReply ==
    /\ pc = "login" /\ replies # <<>>
    /\ replies' = Tail(replies)
    /\ IF ~Accepted THEN LoginFails
       ELSE IF step < 6
       THEN /\ commands' = Append(commands, Login[step + 1])
            /\ step' = step + 1
            /\ UNCHANGED <<pc, conn>>
       ELSE pc' = "pasv" /\ step' = 1 /\ commands' = <<"PASV">> /\ UNCHANGED conn
    /\ UNCHANGED <<asked, gcode, plate, found, result, data, silent, fault>>

(* A transfer is over, its data connection closed: the next one, or Close.  *)
NextTransfer(more) ==
    /\ data' = "none"
    /\ IF more THEN pc' = "pasv" /\ step' = step + 1 /\ commands' = Append(commands, "PASV")
               ELSE pc' = "quit" /\ UNCHANGED <<step, commands>>

(* An error in a transfer: Fetch gives up, debug goes to its next directory. *)
Fails ==
    /\ NextTransfer(caller = "debug" /\ step < LastList)
    /\ UNCHANGED <<found, result>>

(* Only the reply to PASV has an address in it. *)
pasvAddr == Answer.to = "PASV"

(* PASV: a reply without an address is an error as well. *)
Passive ==
    /\ pc = "pasv" /\ replies # <<>>
    /\ replies' = Tail(replies)
    /\ IF Accepted /\ pasvAddr
       THEN pc' = "dial" /\ UNCHANGED <<step, commands, data, found, result>>
       ELSE Fails
    /\ UNCHANGED <<asked, gcode, plate, conn, silent, fault>>

(* Connected, and straight on to the handshake. *)
DialDataShakes ==
    /\ pc = "dial"
    /\ data' = "dialled" /\ pc' = "shake"
    /\ UNCHANGED <<asked, gcode, step, plate, found, result, conn, commands, replies,
                   silent, fault>>

DialData ==
    /\ pc = "dial"
    /\ \/ data' = "dialled" /\ pc' = "send" /\ UNCHANGED <<step, commands, found, result, fault>>
       \/ fault' = TRUE /\ Fails
    /\ UNCHANGED <<asked, gcode, plate, conn, replies, silent>>

SendCommand ==
    /\ pc = "send"
    /\ pc' = "shake"
    /\ commands' = Append(commands, IF step <= LastList THEN "LIST" ELSE "RETR")
    /\ UNCHANGED <<asked, gcode, step, plate, found, result, conn, replies, data, silent,
                   fault>>

(* The handshake, which may fail to resume or be cancelled; a server that   *)
(* had begun it then ends the transfer with an error.                       *)
Handshake ==
    /\ pc = "shake"
    /\ \/ /\ data = "ready" /\ data' = "open" /\ pc' = "150"
          /\ UNCHANGED <<step, commands, replies, found, result, fault>>
       \/ /\ data = "ready" /\ fault' = TRUE /\ Fails
          /\ replies' = Append(replies, [class |-> 5, to |-> "226"])
       \/ data = "dialled" /\ fault' = TRUE /\ Fails /\ UNCHANGED replies
       \/ data = "cut" /\ Fails /\ UNCHANGED <<replies, fault>>
    /\ UNCHANGED <<asked, gcode, plate, conn, silent>>

Starting ==
    /\ pc = "150" /\ replies # <<>>
    /\ replies' = Tail(replies)
    /\ IF Accepted THEN pc' = "read" /\ UNCHANGED <<step, commands, data, found, result>>
       ELSE Fails
    /\ UNCHANGED <<asked, gcode, plate, conn, silent, fault>>

ReadAll ==
    /\ pc = "read"
    /\ \/ data = "sent" /\ pc' = "226" /\ UNCHANGED <<step, commands, data, found, result>>
       \/ data = "cut" /\ Fails
    /\ UNCHANGED <<asked, gcode, plate, conn, replies, silent, fault>>

(* Leaving the 226 for the next command to find. *)
CompleteUnread ==
    /\ pc = "226"
    /\ found' = IF step <= LastList THEN found \o List(step) ELSE found
    /\ NextTransfer(step < LastList \/ (step = LastList /\ caller = "fetch" /\ found' # <<>>))
    /\ UNCHANGED <<asked, gcode, plate, result, conn, replies, silent, fault>>

(* The 226: a listing adds to what was found, and the last one chooses; the *)
(* 3mf is opened, or turns out not to be readable.                          *)
Complete ==
    /\ pc = "226" /\ replies # <<>>
    /\ replies' = Tail(replies)
    /\ \/ ~Accepted /\ Fails /\ UNCHANGED fault
       \/ /\ Accepted /\ step <= LastList
          /\ found' = found \o List(step)
          /\ NextTransfer(step < LastList \/ (caller = "fetch" /\ found' # <<>>))
          /\ UNCHANGED <<result, fault>>
       \/ /\ Accepted /\ step > LastList
          /\ \/ /\ result' = pickPlate(findArchive(found).renders, plate)
                /\ UNCHANGED fault
             \/ fault' = TRUE /\ UNCHANGED result
          /\ NextTransfer(FALSE)
          /\ UNCHANGED found
    /\ UNCHANGED <<asked, gcode, plate, conn, silent>>

(* Close: QUIT, whatever comes back, and the connection. *)
Close ==
    /\ pc = "quit"
    /\ pc' = "done"
    /\ conn' = "closed"
    /\ UNCHANGED <<asked, gcode, step, plate, found, result, server>>

(* Nothing to read and nothing to come: the deadline ends the wait.         *)
ServerIdle == silent \/ (commands = <<>> /\ data # "open")

Timeout ==
    /\ ServerIdle
    /\ \/ pc \in Waiting /\ replies = <<>>
       \/ pc = "shake" /\ data = "dialled"
       \/ pc = "read" /\ data = "open"
    /\ IF pc = "login" THEN LoginFails /\ UNCHANGED <<data, found, result>>
       ELSE Fails /\ UNCHANGED conn
    /\ UNCHANGED <<asked, gcode, plate, replies, silent, fault>>

-----------------------------------------------------------------------------
(* The server.                                                             *)

Missing == step > LastList /\ findArchive(found).spaced

Reply(class, to) == replies' = Append(replies, [class |-> class, to |-> to])

Serves ==
    /\ commands # <<>> /\ ~silent
    /\ commands' = Tail(commands)
    /\ LET c == Head(commands)
       IN  IF c \in {"LIST", "RETR"}
           THEN \/ /\ data = "dialled" /\ ~(c = "RETR" /\ Missing)
                   /\ data' = "ready" /\ Reply(1, "150") /\ UNCHANGED fault
                \/ /\ data' = IF data = "dialled" THEN "cut" ELSE data
                   /\ Reply(5, "150")
                   /\ fault' = (fault \/ ~(c = "RETR" /\ Missing))
           ELSE \/ Reply(IF c = "USER" THEN 3 ELSE 2, c) /\ UNCHANGED <<data, fault>>
                \/ Reply(5, c) /\ fault' = TRUE /\ UNCHANGED data
    /\ UNCHANGED <<asked, gcode, pc, step, plate, found, result, conn, silent>>

Sends ==
    /\ data = "open" /\ ~silent
    /\ \/ data' = "sent" /\ Reply(2, "226") /\ UNCHANGED fault
       \/ data' = "cut" /\ Reply(5, "226") /\ fault' = TRUE
    /\ UNCHANGED <<asked, gcode, pc, step, plate, found, result, conn, commands, silent>>

GoesSilent ==
    /\ conn = "open" /\ ~silent
    /\ silent' = TRUE /\ fault' = TRUE
    /\ UNCHANGED <<asked, gcode, pc, step, plate, found, result, conn, commands, replies,
                   data>>

Client ==
    \/ Begin \/ Connect \/ LoginReply \/ Passive \/ DialData \/ SendCommand \/ Handshake
    \/ Starting \/ ReadAll \/ Complete \/ Close \/ Timeout

Server == Serves \/ Sends

Rest == pc = "done" /\ UNCHANGED vars

Next == ViewMoves \/ Client \/ Server \/ GoesSilent \/ Rest

Spec == Init /\ [][Next]_vars

(* The goroutine runs, deadlines pass and a server that is not silent       *)
(* answers.                                                                 *)
FairSpec == Spec /\ WF_vars(Client) /\ WF_vars(Server)

-----------------------------------------------------------------------------
(* The reply Fetch reads is the reply to what it asked: no reply is left    *)
(* for a later command to find (expect, transfer).  debug's listing goes on *)
(* after an error and reads the replies of the transfer it gave up.         *)
InStep ==
    caller = "fetch" /\ pc \in Waiting /\ replies # <<>> => Answer.to = Awaited

(* Client and server never wait for each other: with no fault on the other  *)
(* side Fetch ends with a render, when the printer holds a 3mf, the name of *)
(* the one chosen survives its listing and there is a render in it          *)
(* (transfer's order).                                                      *)
OnlyFaultsFail ==
    LET listed == List(1) \o List(2) \o List(3) \o List(4)
    IN  caller = "fetch" /\ pc = "done" /\ ~fault /\ result = NoRender =>
            \/ listed = <<>>
            \/ findArchive(listed).spaced
            \/ pickPlate(findArchive(listed).renders, plate) = NoRender

(* The preview is of the print that is running: when just one 3mf bears the *)
(* job's title, under a name that survives its listing, and has a render of *)
(* the plate that the file name named when it was read, that render is kept *)
(* and no other job's or plate's (findArchive, plateNumber, pickPlate).     *)
RightRender ==
    LET all == store[1] \o store[2] \o store[3] \o store[4]
        wanted == [plate |-> gcode, kind |-> "full"]
    IN  \A own \in DOMAIN all :
            /\ result # NoRender /\ gcode # 0
            /\ jobName # NoTitle
            /\ \A i \in DOMAIN all : all[i].title = jobName <=> i = own
            /\ ~all[own].spaced
            /\ \E i \in DOMAIN all[own].renders : all[own].renders[i] = wanted
            => findArchive(found) = all[own] /\ result = wanted

(* The goroutine ends, whatever the server does, and leaves no connection   *)
(* open: every wait has a deadline, and every way out closes what was       *)
(* opened (Dial's fail, the deferred Closes).                               *)
Ends == <>(pc = "done" /\ conn # "open" /\ data = "none")
=============================================================================
