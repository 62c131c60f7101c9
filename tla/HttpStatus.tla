------------------------------ MODULE HttpStatus ------------------------------
(***************************************************************************)
(* The status codes of cpm-hub/http/http_status_codes.h, shared by every   *)
(* module that speaks of a response.                                       *)
(***************************************************************************)
EXTENDS Naturals

OK == 200
NO_CONTENT == 204
BAD_REQUEST == 400
UNAUTHORIZED == 401
NOT_FOUND == 404
CONFLICT == 409
INTERNAL_SERVER_ERROR == 500

===============================================================================
