------------------------------- MODULE Errors -------------------------------
(***************************************************************************)
(* error.c: a code of libzstd becomes a code of the extension, and that    *)
(* one names the Ruby exception of error.rb that is raised.                *)
(***************************************************************************)

ValidateCodes ==
  {"parameter_unsupported", "parameter_outOfBound", "tableLog_tooLarge",
   "maxSymbolValue_tooLarge", "maxSymbolValue_tooSmall", "stage_wrong", "init_missing",
   "workSpace_tooSmall", "srcSize_wrong", "dstSize_tooSmall", "dstBuffer_null"}

CorruptedSourceCodes ==
  {"prefix_unknown", "version_unsupported", "frameParameter_unsupported",
   "frameParameter_windowTooLarge", "corruption_detected", "checksum_wrong"}

CorruptedDictionaryCodes ==
  {"dictionary_corrupted", "dictionary_wrong", "dictionaryCreation_failed"}

\* zstds_ext_get_error.
GetError(code) ==
  CASE code = "memory_allocation"         -> "ALLOCATE_FAILED"
    [] code \in ValidateCodes             -> "VALIDATE_FAILED"
    [] code \in CorruptedSourceCodes      -> "DECOMPRESSOR_CORRUPTED_SOURCE"
    [] code \in CorruptedDictionaryCodes  -> "CORRUPTED_DICTIONARY"
    [] OTHER                              -> "UNEXPECTED"

\* The exception zstds_ext_raise_error raises.
ExceptionOf(extResult) ==
  CASE extResult = "ALLOCATE_FAILED"                -> "AllocateError"
    [] extResult = "VALIDATE_FAILED"                -> "ValidateError"
    [] extResult = "DECOMPRESSOR_CORRUPTED_SOURCE"  -> "DecompressorCorruptedSourceError"
    [] extResult = "CORRUPTED_DICTIONARY"           -> "CorruptedDictionaryError"
    [] extResult = "NOT_IMPLEMENTED"                -> "NotImplementedError"
    [] OTHER                                        -> "UnexpectedError"
=============================================================================
