------------------------------ MODULE Commands ------------------------------
(***************************************************************************)
(* The program bdl, from its arguments through a session of commands on    *)
(* its standard input to its exit status, one run after the other on the   *)
(* same device; or an application ("app") that starts and closes sessions  *)
(* of the library and gives it commands.  What an operation does to the    *)
(* blocks of the device is in BlockLog; here it ends well or badly.        *)
(***************************************************************************)
EXTENDS CommandLine

CONSTANTS
  Lines,       \* the command lines a user may give
  Sizes,       \* the sizes of devices, and the sizes given after @
  BlankBytes,  \* BDL_NEW_DEVICE_BLANK_START_SIZE
  SmallSize,   \* BDL_SMALL_SIZE_THRESHOLD
  MaxHeld      \* bound: sessions an application holds at a time

ASSUME LinesAssumption ==
  \A l \in Lines : l.args \in Seq([kind : Kinds, key : STRING, num : BOOLEAN, n : Int])

ASSUME DeviceAssumption ==
  /\ Sizes \subseteq Nat
  /\ {BlankBytes, SmallSize, MaxHeld} \subseteq Nat

VARIABLES
  pc,         \* main, loop, operate, cleanup, exited; app for an application
  request,    \* the command line that is worked on, and where it came from
  ret,        \* `ret` of main and main_loop, then the exit status
  usercount,  \* session->usercount
  device,     \* session->device: its size while it is open
  unread,     \* nothing was read through the FILE of the device since it was opened
  disk,       \* its size, what is at its start, and the size it was initialized with
  held,       \* history: sessions that the user opened and did not close
  failed,     \* history: something in this run did not work
  was_blank   \* history: the start of the device was blank when it was opened

vars == <<pc, request, ret, usercount, device, unread, disk, held, failed, was_blank>>

Closed == -1

NoRequest == [from |-> "none", command |-> "none", args |-> <<>>]

Init ==
  /\ pc \in {"main", "app"}
  /\ request = NoRequest
  /\ ret = 0
  /\ usercount = 0
  /\ device = Closed /\ unread = FALSE
  /\ disk \in [size : Sizes, start : {"blank", "other"}, header : {NoHeader}, at : {0}]
  /\ held = 0 /\ failed = FALSE /\ was_blank = FALSE

-----------------------------------------------------------------------------
(* session.c and io_open.  With a size after @ the device may be smaller.  *)
io_open ==
  /\ device' \in {size \in Sizes : size <= disk.size}
  /\ unread' = TRUE
  /\ was_blank' = (disk.start = "blank")

(* Mutant: a session that is open already is not counted again.            *)
StartsUncounted(has_dev) ==
  \/ usercount > 0 /\ ~has_dev /\ UNCHANGED <<usercount, device, unread, was_blank>>
  \/ usercount = 0 /\ has_dev /\ io_open /\ usercount' = 1

bdl_start_session(has_dev) ==
  \/ /\ usercount > 0 /\ ~has_dev
     /\ usercount' = usercount + 1
     /\ UNCHANGED <<device, unread, was_blank>>
  \/ usercount = 0 /\ has_dev /\ io_open /\ usercount' = 1

(* dev= in an open session, no dev= without one, or io_open fails.         *)
start_session_fails(has_dev) == usercount = 0 \/ has_dev

bdl_close_session ==
  /\ usercount' = usercount - 1
  /\ device' = IF usercount = 1 THEN Closed ELSE device

-----------------------------------------------------------------------------
(* Mutant: main_loop goes on after a command that failed.                  *)
LoopGoesOn(from) ==
  IF from = "app" THEN "app" ELSE IF usercount' = 0 THEN "cleanup" ELSE "loop"

(* Where main and main_loop are after a command that came from there.      *)
after_command(from) ==
  IF from = "app" THEN "app"
  ELSE IF usercount' = 0 \/ (from = "loop" /\ ret' = 1) THEN "cleanup"
  ELSE "loop"

(* bdl_interpret_command returns r; main_loop has a ret of its own.        *)
Returns(from, r) ==
  /\ ret' = IF from = "main" /\ usercount' > 0 THEN 1 ELSE r
  /\ pc' = after_command(from)
  /\ request' = NoRequest
  /\ failed' = (failed \/ r = 1)

Interpreting == pc \in {"main", "loop", "app"}

(* main_loop passes on no more than this; main does not count.             *)
fits(args) == pc = "loop" => Len(args) + 2 <= ArgMax

accepted(l) ==
  /\ Interpreting /\ fits(l.args) /\ ~cmd_parse_fails(l.args)
  /\ l.command \in DOMAIN Keys /\ arguments_accepted(l.command, l.args)

(* A line that bdl_interpret_command refuses: the syntax of a pair, an     *)
(* unknown command, or arguments the command does not take.                *)
refused(l) ==
  /\ Interpreting /\ fits(l.args)
  /\ \/ cmd_parse_fails(l.args)
     \/ l.command \notin DOMAIN Keys \cup {"help", "close"}
     \/ l.command \in DOMAIN Keys /\ ~arguments_accepted(l.command, l.args)

Refuse(l) ==
  /\ refused(l)
  /\ UNCHANGED <<usercount, device, unread, disk, held, was_blank>>
  /\ Returns(pc, 1)

help(l) ==
  /\ l.command = "help" /\ Interpreting /\ fits(l.args) /\ ~cmd_parse_fails(l.args)
  /\ UNCHANGED <<usercount, device, unread, disk, held, was_blank>>
  /\ Returns(pc, 0)

open(l) ==
  /\ l.command = "open" /\ accepted(l)
  /\ usercount = 0
  /\ bdl_start_session(TRUE)
  /\ held' = held + 1
  /\ UNCHANGED disk
  /\ Returns(pc, 0)

(* The device is open already, or io_open fails.                           *)
open_fails(l) ==
  /\ l.command = "open" /\ accepted(l)
  /\ UNCHANGED <<usercount, device, unread, disk, held, was_blank>>
  /\ Returns(pc, 1)

close(l) ==
  /\ l.command = "close" /\ Interpreting /\ fits(l.args) /\ ~cmd_parse_fails(l.args)
  /\ \/ /\ usercount = 0
        /\ UNCHANGED <<usercount, device, held>>
        /\ Returns(pc, 1)
     \/ /\ usercount > 0
        /\ bdl_close_session
        /\ held' = held - 1
        /\ Returns(pc, 0)
  /\ UNCHANGED <<unread, disk, was_blank>>

(* The other commands start a session around their operation.              *)
start(l) ==
  /\ l.command # "open" /\ accepted(l)
  /\ \/ /\ bdl_start_session(HasKey(l.args, "dev"))
        /\ pc' = "operate"
        /\ request' = [from |-> pc, command |-> l.command, args |-> l.args]
        /\ UNCHANGED <<ret, failed>>
     \/ /\ start_session_fails(HasKey(l.args, "dev"))
        /\ UNCHANGED <<usercount, device, unread, was_blank>>
        /\ Returns(pc, 1)
  /\ UNCHANGED <<disk, held>>

-----------------------------------------------------------------------------
header_valid == disk.start = "header" /\ validate_header(disk.header, device)

(* What clear_dev, validate_dev, read_blocks and write_put_block return;   *)
(* a header that is not valid is no error of clear and validate.           *)
results(command) ==
  {r \in {0, 1} :
     IF ~header_readable(device) THEN r = 1
     ELSE IF header_valid THEN r = 0 \/ command # "validate"
     ELSE r = (IF command \in {"clear", "validate"} THEN 0 ELSE 1)}

(* write_find_location_small ends the program.                             *)
write_exits ==
  /\ request.command = "write"
  /\ header_readable(device) /\ header_valid
  /\ device < SmallSize

operate ==
  /\ pc = "operate" /\ request.command # "init" /\ ~write_exits
  /\ bdl_close_session
  /\ UNCHANGED <<unread, disk, held, was_blank>>
  /\ \E r \in results(request.command) : Returns(request.from, r)

write_find_location_small ==
  /\ pc = "operate" /\ write_exits
  /\ pc' = "exited" /\ ret' = 1 /\ failed' = TRUE
  /\ usercount' = 0 /\ device' = Closed /\ held' = 0
  /\ request' = NoRequest
  /\ UNCHANGED <<unread, disk, was_blank>>

(* check_blank_device: the first read finds the start of the device, a     *)
(* later one what comes next, or what the FILE had in its buffer.          *)
check_blank_device == disk.size >= BlankBytes /\ (unread => disk.start = "blank")

(* init_dev, and the checks before it, give r.                             *)
bdl_init_dev(bs, pad, r) ==
  \/ /\ ~sizes_accepted(bs, pad)
     /\ r = 1
     /\ UNCHANGED <<unread, disk>>
  \/ /\ sizes_accepted(bs, pad)
     /\ ~(check_blank_device /\ unread /\ room_for_blocks(device, bs, pad))
     /\ r = 1
     /\ unread' = FALSE /\ UNCHANGED disk
  \/ /\ sizes_accepted(bs, pad) /\ check_blank_device /\ room_for_blocks(device, bs, pad)
     /\ r = 0
     /\ unread' = FALSE
     /\ disk' = [disk EXCEPT !.start = "header", !.at = device,
                             !.header = new_header(device, bs, pad)]

init ==
  /\ pc = "operate" /\ request.command = "init"
  /\ \E r \in {0, 1} :
       /\ bdl_init_dev(OrDefault(NumberOr(request.args, "bs", DefaultBlock), DefaultBlock),
                       OrDefault(NumberOr(request.args, "hpad", DefaultPad), DefaultPad), r)
       /\ bdl_close_session
       /\ Returns(request.from, r)
  /\ UNCHANGED <<held, was_blank>>

-----------------------------------------------------------------------------
(* main_loop: the end of the input, or a line with too many characters.    *)
EndOfInput ==
  /\ pc = "loop"
  /\ pc' = "cleanup"
  /\ UNCHANGED <<request, ret, usercount, device, unread, disk, held, failed, was_blank>>

LineTooLong ==
  /\ pc = "loop"
  /\ pc' = "cleanup" /\ ret' = 1 /\ failed' = TRUE
  /\ UNCHANGED <<request, usercount, device, unread, disk, held, was_blank>>

TooManyArguments(l) == ~fits(l.args) /\ LineTooLong

(* main closes what its user left open, and ends.                          *)
CleanUp ==
  /\ pc = "cleanup" /\ usercount > 0
  /\ bdl_close_session
  /\ ret' = 1 /\ failed' = TRUE /\ held' = held - 1
  /\ UNCHANGED <<pc, request, unread, disk, was_blank>>

Exit ==
  /\ pc = "cleanup" /\ usercount = 0
  /\ pc' = "exited"
  /\ UNCHANGED <<request, ret, usercount, device, unread, disk, held, failed, was_blank>>

-----------------------------------------------------------------------------
(* The user: another run, or zeros over the start of the device.           *)
Run ==
  /\ pc = "exited"
  /\ pc' \in {"main", "app"}
  /\ ret' = 0 /\ failed' = FALSE /\ was_blank' = FALSE /\ unread' = FALSE
  /\ UNCHANGED <<request, usercount, device, disk, held>>

dd ==
  /\ pc = "exited"
  /\ disk' = [disk EXCEPT !.start = "blank", !.header = NoHeader, !.at = 0]
  /\ UNCHANGED <<pc, request, ret, usercount, device, unread, held, failed, was_blank>>

(* An application: sessions it nests, and init_dev without a command.      *)
AppStarts ==
  /\ pc = "app" /\ held < MaxHeld
  /\ \E has_dev \in BOOLEAN : bdl_start_session(has_dev)
  /\ held' = held + 1
  /\ UNCHANGED <<pc, request, ret, disk, failed>>

AppCloses ==
  /\ pc = "app" /\ held > 0
  /\ bdl_close_session
  /\ held' = held - 1
  /\ UNCHANGED <<pc, request, ret, unread, disk, failed, was_blank>>

AppInitializes ==
  /\ pc = "app" /\ held > 0
  /\ \E bs \in 0..(MaxBlock + 1), pad \in {0, MinPad}, r \in {0, 1} :
       bdl_init_dev(OrDefault(bs, DefaultBlock), OrDefault(pad, DefaultPad), r)
  /\ UNCHANGED <<pc, request, ret, usercount, device, held, failed, was_blank>>

Next ==
  \/ \E l \in Lines :
       \/ Refuse(l) \/ help(l) \/ open(l) \/ open_fails(l) \/ close(l) \/ start(l)
       \/ TooManyArguments(l)
  \/ operate \/ write_find_location_small \/ init
  \/ EndOfInput \/ LineTooLong \/ CleanUp \/ Exit
  \/ Run \/ dd
  \/ AppStarts \/ AppCloses \/ AppInitializes

Spec == Init /\ [][Next]_vars
=============================================================================
