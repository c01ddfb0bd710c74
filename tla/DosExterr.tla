----------------------------- MODULE DosExterr -----------------------------
(***************************************************************************)
(* The DOS extended-error service of libc/dos.c: the table that translates *)
(* a POSIX errno into a DOS error record, _dosexterr, which reports the    *)
(* current error, and exterr_set, which replaces it.  Every other part of  *)
(* the library reports its failures through these operators.               *)
(*                                                                         *)
(* The error state of the process is one record:                           *)
(*    errno     the C library's errno ("0" when clear),                    *)
(*    info      the static `errorinfo' of dos.c.                           *)
(* (The public `_doserrno' is not part of the record: no code of the       *)
(* library reads it back.  DosInt has it.)                                 *)
(* Codes are the suffixes of the EXTERR_, ERRCLASS_, ERRACT_ and ERRLOCUS_ *)
(* macros.  A call of the library that succeeds returns "NO_ERROR" (0).    *)
(* The table is the one a GNU/Linux build compiles: rows guarded by #ifdef *)
(* for errnos that system does not have are not in it, EWOULDBLOCK is      *)
(* EAGAIN and EOPNOTSUPP is ENOTSUP there.                                 *)
(*                                                                         *)
(* ExterrSetKeepingErrno and ExterrSetMarkStored are plausible mistakes in *)
(* the definition that follows them; no module uses them.                  *)
(***************************************************************************)
EXTENDS TLC

Err(exterror, errclass, action, locus) ==
  [exterror |-> exterror, errclass |-> errclass, action |-> action, locus |-> locus]

NoError == Err("NO_ERROR", "NONE", "NONE", "NONE")

(* The values an error record may hold in a field (the macros of dos.c).   *)
ErrClasses ==
  { "NONE", "OUT_OF_RESOURCE", "TMP_SITUATION", "ACCESS_DENIED", "INTERN_SYS_ERROR",
    "HW_FAIL", "SYS_FAIL", "APP_PROG_ERROR", "NOT_FOUND", "BAD_FORMAT", "LOCKED",
    "MEDIA_ERROR", "ALREADY_EXISTS", "UNKNOWN", "CANNOT", "TIME" }

ErrActions ==
  { "NONE", "RETRY", "DELAYED_RETRY", "PROMPT_USR_REENTER_INPUT",
    "ABORT_AFTER_CLEANUP", "IMMEDIATE_ABORT", "IGNORE", "RETRY_AFTER_USR_INTERV" }

ErrLocuses ==
  { "NONE", "UNKNOWN", "BLOCK_DEV", "NET_RELATED", "CHAR_DEV", "MEM_RELATED" }

-----------------------------------------------------------------------------
(* The errno table: the cases of the switch of _dosix__dosexterr.          *)

ErrRowsA ==
  [ EPERM |-> Err("ACCESS_DENIED", "ACCESS_DENIED", "ABORT_AFTER_CLEANUP", "UNKNOWN"),
    ENOENT |-> Err("FILE_NOT_FOUND", "NOT_FOUND", "PROMPT_USR_REENTER_INPUT", "BLOCK_DEV"),
    ESRCH |-> Err("PROC_ADDR_NOT_FOUND", "NOT_FOUND", "ABORT_AFTER_CLEANUP", "UNKNOWN"),
    EINTR |-> Err("INVAL_SYS_CALL", "TMP_SITUATION", "RETRY", "UNKNOWN"),
    EIO |-> Err("READ_FAULT", "HW_FAIL", "RETRY_AFTER_USR_INTERV", "UNKNOWN"),
    ENXIO |-> Err("LVL4_DRV_NOT_FOUND_DOS_IOCTL", "SYS_FAIL", "ABORT_AFTER_CLEANUP", "UNKNOWN"),
    E2BIG |-> Err("BAD_ARGUMENTS", "OUT_OF_RESOURCE", "ABORT_AFTER_CLEANUP", "UNKNOWN"),
    ENOEXEC |-> Err("BAD_EXE_FORMAT", "BAD_FORMAT", "ABORT_AFTER_CLEANUP", "UNKNOWN"),
    EBADF |-> Err("INVAL_HANDLE", "APP_PROG_ERROR", "ABORT_AFTER_CLEANUP", "UNKNOWN"),
    ECHILD |-> Err("CWAIT_FOUND_NO_CHILDREN", "APP_PROG_ERROR", "ABORT_AFTER_CLEANUP", "UNKNOWN"),
    EDEADLK |-> Err("LOCK_VIOLATION", "LOCKED", "IMMEDIATE_ABORT", "UNKNOWN"),
    ENOMEM |-> Err("INSUF_MEM", "OUT_OF_RESOURCE", "IMMEDIATE_ABORT", "MEM_RELATED"),
    EACCES |-> Err("ACCESS_DENIED", "ACCESS_DENIED", "ABORT_AFTER_CLEANUP", "BLOCK_DEV"),
    EFAULT |-> Err("MBA_INVAL", "APP_PROG_ERROR", "IMMEDIATE_ABORT", "MEM_RELATED"),
    ENOTBLK |-> Err("INVAL_DRV_0x0f", "MEDIA_ERROR", "PROMPT_USR_REENTER_INPUT", "BLOCK_DEV"),
    EBUSY |-> Err("DRV_BUSY", "LOCKED", "ABORT_AFTER_CLEANUP", "UNKNOWN"),
    EEXIST |-> Err("FILE_EXISTS", "ALREADY_EXISTS", "PROMPT_USR_REENTER_INPUT", "BLOCK_DEV"),
    EXDEV |-> Err("NOT_SAME_DEVICE", "CANNOT", "PROMPT_USR_REENTER_INPUT", "BLOCK_DEV"),
    ENODEV |-> Err("UNKNOWN_MEDIA_TYPE", "BAD_FORMAT", "ABORT_AFTER_CLEANUP", "UNKNOWN"),
    ENOTDIR |-> Err("PATH_NOT_FOUND", "BAD_FORMAT", "PROMPT_USR_REENTER_INPUT", "BLOCK_DEV"),
    EISDIR |-> Err("FILE_NOT_FOUND", "BAD_FORMAT", "PROMPT_USR_REENTER_INPUT", "BLOCK_DEV"),
    EINVAL |-> Err("BAD_ARGUMENTS", "APP_PROG_ERROR", "ABORT_AFTER_CLEANUP", "UNKNOWN"),
    EMFILE |-> Err("TOO_MANY_OPEN_FILES", "OUT_OF_RESOURCE", "ABORT_AFTER_CLEANUP", "UNKNOWN"),
    ENFILE |-> Err("TOO_MANY_OPEN_FILES", "OUT_OF_RESOURCE", "IMMEDIATE_ABORT", "UNKNOWN") ]

ErrRowsB ==
  [ ENOTTY |-> Err("UNKNOWN_CATEGORY_IOCTL", "APP_PROG_ERROR", "ABORT_AFTER_CLEANUP", "CHAR_DEV"),
    ETXTBSY |-> Err("CANT_COMPLETE_FILE_OP", "TMP_SITUATION", "DELAYED_RETRY", "BLOCK_DEV"),
    EFBIG |-> Err("INSUF_DSK_SPACE", "OUT_OF_RESOURCE", "RETRY_AFTER_USR_INTERV", "BLOCK_DEV"),
    ENOSPC |-> Err("DSK_FULL", "OUT_OF_RESOURCE", "RETRY_AFTER_USR_INTERV", "BLOCK_DEV"),
    ESPIPE |-> Err("ATTEMPT_SEEK_DEV_PIPE", "CANNOT", "IGNORE", "UNKNOWN"),
    EROFS |-> Err("DSK_WRITE_PROTECTED", "CANNOT", "RETRY_AFTER_USR_INTERV", "BLOCK_DEV"),
    EMLINK |-> Err("TOO_MANY_REDIRS", "OUT_OF_RESOURCE", "IGNORE", "BLOCK_DEV"),
    ETOOMANYREFS |-> Err("TOO_MANY_REDIRS", "OUT_OF_RESOURCE", "IGNORE", "BLOCK_DEV"),
    ELOOP |-> Err("TOO_MANY_REDIRS", "OUT_OF_RESOURCE", "IGNORE", "BLOCK_DEV"),
    EPIPE |-> Err("BROKEN_PIPE", "SYS_FAIL", "ABORT_AFTER_CLEANUP", "UNKNOWN"),
    EDOM |-> Err("DATA_INVAL", "APP_PROG_ERROR", "IGNORE", "UNKNOWN"),
    ERANGE |-> Err("FIXUP_OVERFLOW", "APP_PROG_ERROR", "IGNORE", "UNKNOWN"),
    EAGAIN |-> Err("FCB_UNAVAILABLE", "TMP_SITUATION", "DELAYED_RETRY", "UNKNOWN"),
    EINPROGRESS |-> Err("NET_BUSY", "TMP_SITUATION", "DELAYED_RETRY", "NET_RELATED"),
    EALREADY |-> Err("NET_BUSY", "TMP_SITUATION", "DELAYED_RETRY", "NET_RELATED"),
    ENOTSOCK |-> Err("NET_DEV_TYPE_INCORRECT", "BAD_FORMAT", "PROMPT_USR_REENTER_INPUT", "NET_RELATED"),
    EMSGSIZE |-> Err("NET_WRITE_FAULT", "OUT_OF_RESOURCE", "IGNORE", "NET_RELATED"),
    EPROTOTYPE |-> Err("NET_REQ_NOT_SUPPORTED", "SYS_FAIL", "ABORT_AFTER_CLEANUP", "NET_RELATED"),
    ENOPROTOOPT |-> Err("NET_REQ_NOT_SUPPORTED", "SYS_FAIL", "ABORT_AFTER_CLEANUP", "NET_RELATED"),
    ENOTSUP |-> Err("INVAL_PARM", "INTERN_SYS_ERROR", "IGNORE", "UNKNOWN"),
    EPROTONOSUPPORT |-> Err("FN_NOT_SUPPORTED_NET", "SYS_FAIL", "ABORT_AFTER_CLEANUP", "NET_RELATED"),
    ESOCKTNOSUPPORT |-> Err("FN_NOT_SUPPORTED_NET", "SYS_FAIL", "ABORT_AFTER_CLEANUP", "NET_RELATED"),
    EPFNOSUPPORT |-> Err("FN_NOT_SUPPORTED_NET", "SYS_FAIL", "ABORT_AFTER_CLEANUP", "NET_RELATED"),
    EAFNOSUPPORT |-> Err("FN_NOT_SUPPORTED_NET", "SYS_FAIL", "ABORT_AFTER_CLEANUP", "NET_RELATED"),
    EADDRINUSE |-> Err("DUP_NAME_ON_NET", "SYS_FAIL", "ABORT_AFTER_CLEANUP", "NET_RELATED") ]

(* The action of ESHUTDOWN is given as ERRCLASS_CANNOT, an error class.    *)
ErrRowsC ==
  [ EADDRNOTAVAIL |-> Err("NET_NAME_NOT_FOUND_0x35", "NOT_FOUND", "ABORT_AFTER_CLEANUP", "NET_RELATED"),
    ENETDOWN |-> Err("NET_DEV_NO_LONGER_EXISTS", "NOT_FOUND", "ABORT_AFTER_CLEANUP", "NET_RELATED"),
    ENETUNREACH |-> Err("NET_DEV_NO_LONGER_EXISTS", "NOT_FOUND", "ABORT_AFTER_CLEANUP", "NET_RELATED"),
    ENETRESET |-> Err("REMOTE_COMPUTER_NOT_LISTENING", "MEDIA_ERROR", "ABORT_AFTER_CLEANUP", "NET_RELATED"),
    ECONNABORTED |-> Err("NET_NAME_DEL", "SYS_FAIL", "ABORT_AFTER_CLEANUP", "NET_RELATED"),
    ECONNRESET |-> Err("UNEXPECT_ADAPT_CLOSE", "UNKNOWN", "ABORT_AFTER_CLEANUP", "NET_RELATED"),
    ENOBUFS |-> Err("INSUF_MEM", "OUT_OF_RESOURCE", "IMMEDIATE_ABORT", "MEM_RELATED"),
    EISCONN |-> Err("DUP_REDIR", "ALREADY_EXISTS", "IGNORE", "NET_RELATED"),
    ENOTCONN |-> Err("REMOTE_COMPUTER_NOT_LISTENING", "NOT_FOUND", "RETRY_AFTER_USR_INTERV", "NET_RELATED"),
    EDESTADDRREQ |-> Err("REMOTE_COMPUTER_NOT_LISTENING", "NOT_FOUND", "RETRY_AFTER_USR_INTERV", "NET_RELATED"),
    EHOSTDOWN |-> Err("REMOTE_COMPUTER_NOT_LISTENING", "NOT_FOUND", "RETRY_AFTER_USR_INTERV", "NET_RELATED"),
    EHOSTUNREACH |-> Err("REMOTE_COMPUTER_NOT_LISTENING", "NOT_FOUND", "RETRY_AFTER_USR_INTERV", "NET_RELATED"),
    ESHUTDOWN |-> Err("NET_DEV_NO_LONGER_EXISTS", "NOT_FOUND", "CANNOT", "NET_RELATED"),
    ETIMEDOUT |-> Err("UNEXPECT_ADAPT_CLOSE", "TIME", "RETRY", "NET_RELATED"),
    ECONNREFUSED |-> Err("NET_REQ_NOT_ACCEPT", "UNKNOWN", "DELAYED_RETRY", "NET_RELATED"),
    ENAMETOOLONG |-> Err("NET_NAME_LIMIT_EXCEEDED", "SYS_FAIL", "RETRY_AFTER_USR_INTERV", "UNKNOWN"),
    ENOTEMPTY |-> Err("JOIN_DIR_NOT_EMPTY", "CANNOT", "ABORT_AFTER_CLEANUP", "BLOCK_DEV"),
    EUSERS |-> Err("TOO_MANY_OPEN_FILES", "OUT_OF_RESOURCE", "ABORT_AFTER_CLEANUP", "UNKNOWN"),
    EDQUOT |-> Err("DSK_LIMIT_EXCEEDED_NET_NODE", "OUT_OF_RESOURCE", "ABORT_AFTER_CLEANUP", "BLOCK_DEV"),
    ESTALE |-> Err("INVAL_HANDLE", "INTERN_SYS_ERROR", "IMMEDIATE_ABORT", "BLOCK_DEV"),
    EREMOTE |-> Err("DRV_LOCK_OTHER_PROC", "LOCKED", "ABORT_AFTER_CLEANUP", "BLOCK_DEV") ]

ErrRowsD ==
  [ ENOLCK |-> Err("LOCK_COUNT_EXCEEDED", "OUT_OF_RESOURCE", "ABORT_AFTER_CLEANUP", "UNKNOWN"),
    ENOSYS |-> Err("INVAL_FN_NUM", "INTERN_SYS_ERROR", "IGNORE", "UNKNOWN"),
    EILSEQ |-> Err("INVAL_CHAR", "BAD_FORMAT", "IGNORE", "CHAR_DEV"),
    EBADMSG |-> Err("BAD_ARGUMENTS", "BAD_FORMAT", "IGNORE", "UNKNOWN"),
    ENOMSG |-> Err("BAD_ARGUMENTS", "BAD_FORMAT", "IGNORE", "UNKNOWN"),
    EIDRM |-> Err("NET_NAME_DEL", "NOT_FOUND", "IGNORE", "UNKNOWN"),
    EMULTIHOP |-> Err("NET_DEV_TYPE_INCORRECT", "APP_PROG_ERROR", "IGNORE", "NET_RELATED"),
    ENODATA |-> Err("NO_DATA_AVAIL_NONBLOCK_READ", "TMP_SITUATION", "IGNORE", "NET_RELATED"),
    ENOLINK |-> Err("NET_DEV_NO_LONGER_EXISTS", "HW_FAIL", "IGNORE", "NET_RELATED"),
    ENOSR |-> Err("INSUF_MEM", "OUT_OF_RESOURCE", "IMMEDIATE_ABORT", "NET_RELATED"),
    ENOSTR |-> Err("NET_DEV_TYPE_INCORRECT", "BAD_FORMAT", "ABORT_AFTER_CLEANUP", "NET_RELATED"),
    EOVERFLOW |-> Err("SHARING_BUFFER_OVERFLOW", "APP_PROG_ERROR", "ABORT_AFTER_CLEANUP", "UNKNOWN"),
    EPROTO |-> Err("UNEXPECTED_NET_ERROR", "MEDIA_ERROR", "ABORT_AFTER_CLEANUP", "NET_RELATED"),
    ETIME |-> Err("TEMPORARILY_PAUSED", "TIME", "IGNORE", "UNKNOWN"),
    ECANCELED |-> Err("MORE_DATA_AVAIL", "UNKNOWN", "IGNORE", "UNKNOWN") ]

ErrTable == ErrRowsA @@ ErrRowsB @@ ErrRowsC @@ ErrRowsD

(* An errno for which _dosexterr has a case; any other one reaches the     *)
(* `default' branch, whose assertion stops the program.                    *)
Mapped(e) == e = "0" \/ e \in DOMAIN ErrTable

-----------------------------------------------------------------------------
(* The error state and its operations.                                     *)

ErrInit == [errno |-> "0", info |-> NoError]

(* The error state after _dosexterr: a pending errno overwrites errorinfo, *)
(* a clear one reports it as is.  errno is left alone.                     *)
DosExterr(err) ==
  IF err.errno = "0" THEN err ELSE [err EXCEPT !.info = ErrTable[err.errno]]

(* The code _dosexterr returns, and INT 21h AH=59h puts in AX.             *)
ReportedCode(err) == DosExterr(err).info.exterror

(* A call of the C library fails with errno e.                             *)
LibcFails(err, e) == [err EXCEPT !.errno = e]

(* A service that reports a failure of the C library with _dosexterr.      *)
ReportLibc(err, e) == DosExterr(LibcFails(err, e))

(* exterr_set: errno becomes e ("0" in all but a few callers) and the code *)
(* keeps its value if it is marked DONT_CHANGE.  The other fields have the *)
(* mark too, but are chars, which are signed here: 255 read from one is    *)
(* -1, never equal to the mark, and is stored like any value.              *)
ExterrSetKeepingErrno(err, new, e) ==
  [errno |-> IF e = "0" THEN err.errno ELSE e,
   info |-> [new EXCEPT !.exterror = IF @ = "DONT_CHANGE" THEN err.info.exterror ELSE @]]
ExterrSetMarkStored(err, new, e) == [errno |-> e, info |-> new]
ExterrSet(err, new, e) ==
  [errno |-> e,
   info |-> [new EXCEPT !.exterror = IF @ = "DONT_CHANGE" THEN err.info.exterror ELSE @]]

=============================================================================
