------------------------------ MODULE WebShell ------------------------------
(***************************************************************************)
(* The SSH terminal of the browser (core/webshell.py, run_shell): the      *)
(* thread of the WebSocket, which carries input to the device and ends the *)
(* session, and the reader thread, which carries the device's output back. *)
(***************************************************************************)
EXTENDS Integers, FiniteSets

CONSTANTS
    IdleTimeout,        \* _IDLE_TIMEOUT, in rounds of ws.receive
    MaxSession,         \* _MAX_SESSION
    OutputMax,          \* bound: chunks the device sends
    ShellEnd            \* bound: the clock

ASSUME ShellAssumption ==
    /\ IdleTimeout \in Nat \ {0} /\ MaxSession \in Nat \ {0}
    /\ OutputMax \in Nat /\ ShellEnd \in Nat

VARIABLES
    asked,              \* the kind of device
    login,              \* the account of the connection
    handler,            \* the thread of the WebSocket
    reader,             \* the reader thread
    stop,               \* the event both watch
    device,             \* sent: chunks so far; exited: its shell ended
    screen,             \* chunks the browser was given
    browser,            \* whether the browser is there
    tick, opened, lastInput, watched, \* the clock, and whether handler looked at it
    typed,              \* history: the last input
    outrun              \* history: output the reader could not wait for

shellVars == <<asked, login, handler, reader, stop, device, screen, browser,
               tick, opened, lastInput, watched, typed, outrun>>
clockVars == <<tick, opened, lastInput, watched, typed>>
threadVars == <<handler, reader, stop>>

Kinds == {"switch", "firewall", "server"}
\* session: an account in memory, by the id of a switch; token: a firewall's
\* account without user and password; the others are kept in the database.
Kept == SUBSET {"session", "switch", "firewall", "token", "server"}

ShellInit ==
    /\ asked = "none" /\ login = "none"
    /\ handler = "idle" /\ reader = "none" /\ stop = FALSE
    /\ device = [sent |-> 0, exited |-> FALSE] /\ screen = 0 /\ browser = TRUE
    /\ tick = 0 /\ opened = 0 /\ lastInput = 0 /\ typed = 0 /\ watched = FALSE /\ outrun = FALSE

AccountFor(kind, kept) ==
    IF kind = "switch" /\ "session" \in kept THEN "session"
    ELSE IF kind \in kept THEN kind ELSE "none"

\* The request: refused without an account or a connection.
Connect(kind, kept, answers) ==
    /\ handler = "idle"
    /\ asked' = kind
    /\ login' = AccountFor(kind, kept)
    /\ IF login' = "none" \/ ~answers
       THEN handler' = "over" /\ reader' = "none"
       ELSE handler' = "serving" /\ reader' = "looking"
    /\ opened' = tick /\ lastInput' = tick /\ typed' = tick /\ watched' = FALSE
    /\ UNCHANGED <<stop, device, screen, browser, tick, outrun>>

-----------------------------------------------------------------------------
(* The device, the browser and the clock.                                  *)

DeviceSends ==
    /\ handler = "serving" /\ ~device.exited /\ device.sent < OutputMax
    /\ device' = [device EXCEPT !.sent = @ + 1]
    /\ UNCHANGED <<asked, login, threadVars, screen, browser, clockVars, outrun>>

\* The shell ends, with or without last words.
DeviceExits(lastWords) ==
    /\ handler = "serving" /\ ~device.exited /\ device.sent + lastWords <= OutputMax
    /\ device' = [sent |-> device.sent + lastWords, exited |-> TRUE]
    \* last words between the reader's two questions
    /\ outrun' = (outrun \/ reader = "asking")
    /\ UNCHANGED <<asked, login, threadVars, screen, browser, clockVars>>

BrowserLeaves ==
    /\ handler = "serving" /\ browser /\ browser' = FALSE
    /\ UNCHANGED <<asked, login, threadVars, device, screen, clockVars, outrun>>

\* ws.receive waits for one round at most.
ShellTick ==
    /\ handler = "serving" /\ watched /\ tick < ShellEnd /\ tick' = tick + 1
    /\ watched' = FALSE
    /\ UNCHANGED <<asked, login, threadVars, device, screen, browser, opened, lastInput, typed, outrun>>

-----------------------------------------------------------------------------
(* The reader: is there output, and if not, is the channel closed?         *)

Pumpable == device.sent > screen
ReaderEnds == reader' = "over" /\ stop' = TRUE

Deliver ==
    /\ reader = "looking" /\ ~stop /\ Pumpable /\ browser
    /\ screen' = screen + 1
    /\ UNCHANGED <<asked, login, threadVars, device, browser, clockVars, outrun>>

NothingToRead ==
    /\ reader = "looking" /\ ~stop /\ ~Pumpable
    /\ reader' = "asking"
    /\ UNCHANGED <<asked, login, handler, stop, device, screen, browser, clockVars, outrun>>

\* Faulty variant: the reader asks for the end while there is output.
ReaderGivesUpEarly ==
    /\ \/ reader = "looking" /\ (stop \/ device.exited \/ (Pumpable /\ ~browser))
       \/ reader = "asking" /\ (device.exited \/ handler = "over")
    /\ ReaderEnds
    /\ UNCHANGED <<asked, login, handler, device, screen, browser, clockVars, outrun>>
ReaderGivesUp ==
    /\ \/ reader = "looking" /\ (stop \/ (Pumpable /\ ~browser))
       \/ reader = "asking" /\ (device.exited \/ handler = "over")
    /\ ReaderEnds
    /\ UNCHANGED <<asked, login, handler, device, screen, browser, clockVars, outrun>>

LookAgain ==
    /\ reader = "asking" /\ ~device.exited /\ handler = "serving"
    /\ reader' = "looking"
    /\ UNCHANGED <<asked, login, handler, stop, device, screen, browser, clockVars, outrun>>

-----------------------------------------------------------------------------
(* The thread of the WebSocket.                                            *)

TimedOut == tick - lastInput > IdleTimeout \/ tick - opened > MaxSession

\* finally: the reader is told, channel and client are closed.
EndSession(hurried) ==
    /\ handler' = "over" /\ stop' = TRUE /\ outrun' = (outrun \/ hurried)
    /\ UNCHANGED <<asked, login, reader, device, screen, browser, clockVars>>

ReaderHasEnded == handler = "serving" /\ stop /\ EndSession(FALSE)
SessionTimesOut == handler = "serving" /\ ~stop /\ TimedOut /\ EndSession(TRUE)
BrowserIsGone == handler = "serving" /\ ~stop /\ ~TimedOut /\ ~browser /\ EndSession(TRUE)

\* Input for a shell that has ended cannot be sent.
InputIsLost ==
    /\ handler = "serving" /\ ~stop /\ ~TimedOut /\ browser /\ device.exited
    /\ EndSession(TRUE)

InputIsSent ==
    /\ handler = "serving" /\ ~stop /\ ~TimedOut /\ browser /\ ~device.exited
    /\ lastInput' = tick /\ typed' = tick /\ watched' = TRUE
    /\ UNCHANGED <<asked, login, threadVars, device, screen, browser, tick, opened, outrun>>

NoInput ==
    /\ handler = "serving" /\ ~stop /\ ~TimedOut /\ browser /\ ~watched
    /\ watched' = TRUE
    /\ UNCHANGED <<asked, login, threadVars, device, screen, browser, tick, opened,
                   lastInput, typed, outrun>>

ShellNext ==
    \/ \E kind \in Kinds, kept \in Kept, answers \in BOOLEAN : Connect(kind, kept, answers)
    \/ DeviceSends \/ (\E n \in {0, 1} : DeviceExits(n)) \/ BrowserLeaves \/ ShellTick
    \/ Deliver \/ NothingToRead \/ ReaderGivesUp \/ LookAgain
    \/ ReaderHasEnded \/ SessionTimesOut \/ BrowserIsGone
    \/ InputIsLost \/ InputIsSent \/ NoInput

ShellSpec == ShellInit /\ [][ShellNext]_shellVars
-----------------------------------------------------------------------------
(* Properties.                                                             *)

ShellTypeOK ==
    /\ asked \in Kinds \cup {"none"}
    /\ login \in {"none", "session"} \cup Kinds
    /\ handler \in {"idle", "serving", "over"}
    /\ reader \in {"none", "looking", "asking", "over"} /\ stop \in BOOLEAN
    /\ device.sent \in 0..OutputMax /\ device.exited \in BOOLEAN
    /\ screen \in 0..device.sent /\ browser \in BOOLEAN
    /\ tick \in 0..ShellEnd /\ opened \in 0..tick /\ lastInput \in opened..tick
    /\ typed \in opened..tick /\ watched \in BOOLEAN /\ outrun \in BOOLEAN

\* A device is never given the account of a device of another kind that has
\* the same id.
AccountFitsTheKind == login \in {"none", asked} \/ (login = "session" /\ asked = "switch")

\* A session that ends because the device ended its shell has shown all that
\* the device said, unless the last words came between the reader's look at
\* the output and its look at the channel, or the user typed on, left or
\* timed out before the reader was through.
LastWordsAreShown ==
    handler = "over" /\ reader = "over" /\ device.exited /\ browser /\ ~outrun
        => screen = device.sent

\* A session without input is closed in time, however much the device has to
\* say, and no session is longer than the limit.
SessionsAreBounded ==
    handler = "serving" => tick - typed <= IdleTimeout + 1 /\ tick - opened <= MaxSession + 1

\* Which account a session gets, what it shows and when it ends.
ShellSafety ==
    /\ AccountFitsTheKind /\ LastWordsAreShown /\ SessionsAreBounded
=============================================================================
