------------------------------ MODULE RsiProtocol ------------------------------
(***************************************************************************)
(* The RSI wire vocabulary as librsi uses it: op-codes, which of them have *)
(* a payload-bearing success response, status words and frame sizes.  The  *)
(* values come from lcs-core and peios-uapi; librsi only tests them, so    *)
(* they are names here.                                                    *)
(***************************************************************************)
EXTENDS Naturals

CONSTANT NULL  \* the null pointer

\* The 18 request op-codes librsi decodes.
OpCodes == { "LOOKUP", "CREATE_ENTRY", "HIDE_ENTRY", "DELETE_ENTRY",
             "ENUM_CHILDREN", "CREATE_KEY", "READ_KEY", "WRITE_KEY", "DROP_KEY",
             "QUERY_VALUES", "SET_VALUE", "DELETE_VALUE_ENTRY",
             "SET_BLANKET_TOMBSTONE", "BEGIN_TRANSACTION", "COMMIT_TRANSACTION",
             "ABORT_TRANSACTION", "DELETE_LAYER", "FLUSH" }

\* The op-codes whose RSI_OK response carries a payload, one helper for each.
PayloadOps == { "LOOKUP", "ENUM_CHILDREN", "READ_KEY", "DELETE_LAYER", "QUERY_VALUES" }

\* rsi_request_has_status_only_response of lcs-core.
HasStatusOnlyResponse(op) == op \in OpCodes \ PayloadOps

\* rsi_response_op_code of lcs-core: the op-code with RSI_RESPONSE_BIT set.
ResponseOp(op) == <<"RESPONSE", op>>

\* parse_rsi_status of lcs-core accepts RSI_OK and the error words; one error
\* word stands for all of them.
Statuses == { "RSI_OK", "RSI_NOT_FOUND" }

\* The nil GUID, the least one in the byte order that sort_unstable uses.
NilGuid == 0

\* Bytes of a response header with its status word (STATUS_FRAME_LEN).
STATUS_FRAME_LEN == 18
=============================================================================
