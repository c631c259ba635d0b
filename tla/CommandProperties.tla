-------------------------- MODULE CommandProperties --------------------------
(***************************************************************************)
(* What the commands, their sessions and the header they write promise.    *)
(***************************************************************************)
EXTENDS Commands

Requests ==
  [from : {"main", "loop", "app"}, command : DOMAIN Keys \ {"open"}, args : {l.args : l \in Lines}]

(* Every variable keeps its type; no size in the header falls below zero   *)
(* (init_dev).                                                             *)
TypeOK ==
  /\ pc \in {"main", "loop", "operate", "cleanup", "exited", "app"}
  /\ request \in Requests \cup {NoRequest}
  /\ pc = "operate" <=> request # NoRequest
  /\ ret \in {0, 1}
  /\ usercount \in Nat /\ held \in Nat
  /\ device \in Sizes \cup {Closed}
  /\ unread \in BOOLEAN /\ failed \in BOOLEAN /\ was_blank \in BOOLEAN
  /\ disk \in [size : Sizes, start : {"blank", "other", "header"}, header : Headers, at : Sizes \cup {0}]

(* "Multiple start_session may be called on the same session, in which the *)
(* same number of close commands must be called before the session is      *)
(* actually closed": whatever commands come between and however they fail, *)
(* the device is open exactly as long as its user holds a session or a     *)
(* command runs in one of its own (session.c and bdl_interpret_command).   *)
UseCountIsBalanced ==
  /\ usercount = IF pc = "operate" THEN held + 1 ELSE held
  /\ device # Closed <=> usercount > 0

(* The exit status is 0 exactly if every command of the run succeeded and  *)
(* the session was closed by a command (main and main_loop).               *)
StatusIsTrue == pc = "exited" => (ret = 0 <=> ~failed)

(* No argument of a command in the documented order, KEY=VALUE before DATA *)
(* and no two spaces between them, is passed over: when the operation      *)
(* begins each was the first of a key the command knows, or is the data    *)
(* (cmd_get_value, cmd_get_last_argument, cmd_check_all_args_used).        *)
ArgumentsCount ==
  LET args == request.args
      documented ==
        /\ Len(args) <= ArgMax
        /\ \A i \in DOMAIN args : args[i].kind # "blank"
        /\ \A i, j \in DOMAIN args : i < j /\ args[i].kind = "word" => args[j].kind = "word"
  IN  pc = "operate" /\ documented =>
        \A i \in DOMAIN args :
          \/ i = data_argument(request.command, args)
          \/ /\ args[i].kind = "pair" /\ args[i].key \in Keys[request.command]
             /\ \A j \in 1..(i - 1) : args[j].key # args[i].key

(* A header that init wrote is valid as long as the device is opened with  *)
(* the size it had, and an int holds that size (init_dev, validate_header).*)
InitIsValid ==
  disk.start = "header" /\ disk.at < IntSize => validate_header(disk.header, disk.at)

(* With a block size that divides half a region, no block of data on the   *)
(* device overlaps its hint block or the backup of it, wherever the header *)
(* ends: the loops find the backup by equality (block_loop_blocks,         *)
(* write_check_free_hintblock).                                            *)
BackupsAreFree ==
  disk.start = "header" /\ (RegionSize \div 2) % disk.header.block_size = 0 =>
    \A k \in Regions(disk.header, disk.at) : \A p \in data_positions(disk.header, k) :
      /\ p + disk.header.block_size <= hint_location(disk.header, k)
      /\ \/ p + disk.header.block_size <= backup(disk.header, k)
         \/ backup(disk.header, k) + HintBytes <= p

(* "To initialize a device, the user must first overwrite the start of it  *)
(* with zeros": bdl writes a header only to a device that was blank when   *)
(* it was opened, although a second init of a session does not look at the *)
(* start (check_blank_device); the first that fails ends the session.      *)
InitNeedsBlank ==
  [][pc = "operate" /\ request.from # "app" /\ disk' # disk => was_blank]_vars

=============================================================================
