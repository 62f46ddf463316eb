--------------------------- MODULE ContentFormats ---------------------------
(***************************************************************************)
(* What a downloaded body is (domain/files.py, acquisition/content.py and  *)
(* acquisition/download.py): the format its leading bytes, its media type  *)
(* and its filename together say it has, and the checks that refuse it.    *)
(* A body is a record of what the checks look at:                          *)
(*   content, bytes     whose bytes they are and how many arrived          *)
(*   sniffed            what its leading bytes confirm, or Unconfirmed     *)
(*   media, name        formats that Content-Type and the filename denote, *)
(*                      or Unstated                                        *)
(*   declared, encoded  Content-Length, or NoLength, and Content-Encoding  *)
(***************************************************************************)
EXTENDS Naturals

\* FileFormat
FileFormat == {"pdf", "xlsx", "xls", "docx", "doc", "csv", "json", "xml",
               "html", "zip", "png", "jpeg", "tiff"}

Unconfirmed == "unconfirmed"
Unstated == "unstated"
NoLength == 999999
Refused == "refused"

\* _SIGNATURES: the formats that leading bytes can confirm.  "doc" stands for
\* any OLE container and "zip" for any archive, as sniff_format reports them.
Confirmable == {"pdf", "png", "jpeg", "tiff", "doc", "zip"}

\* _ZIP_CONTAINER_FORMATS and _OLE_CONTAINER_FORMATS
ZipContainer == {"zip", "xlsx", "docx"}
OleContainer == {"doc", "xls"}

\* FORMATS_WITH_A_SIGNATURE
Signed == Confirmable \cup ZipContainer \cup OleContainer

\* sniff_format, on the leading bytes of a whole file of format f.
Sniffed(f) ==
    CASE f \in ZipContainer -> "zip"
      [] f \in OleContainer -> "doc"
      [] f \in Confirmable \ {"doc", "zip"} -> f
      [] OTHER -> Unconfirmed

\* formats_are_compatible: sniffed is consistent with declared.
Compatible(declared, sniffed) ==
    \/ declared = sniffed
    \/ sniffed = "zip" /\ declared \in ZipContainer
    \/ sniffed \in OleContainer /\ declared \in OleContainer

\* The two declared signals contradict each other: neither is a container of
\* the other.
Contradictory(media, name) ==
    /\ media # Unstated
    /\ name # Unstated
    /\ ~ Compatible(name, media)
    /\ ~ Compatible(media, name)

\* What resolve_format weighs against the leading bytes: the media type, or
\* the filename when there is none.
Declared(media, name) == IF media # Unstated THEN media ELSE name

\* resolve_format: the declared format when the leading bytes do not deny it,
\* the one the bytes confirm when nothing is declared.
ResolveFormat(media, name, sniffed, allowed) ==
    LET said == Declared(media, name)
        resolved == IF said = Unstated THEN sniffed ELSE said
    IN  IF \/ Contradictory(media, name)
           \/ sniffed # Unconfirmed /\ said # Unstated /\ ~ Compatible(said, sniffed)
           \/ resolved \notin allowed
        THEN Refused
        ELSE resolved

\* _resolve: as resolve_format, but the leading bytes were examined, so a
\* format that always has a signature must show it.
Resolve(media, name, sniffed, allowed) ==
    LET resolved == ResolveFormat(media, name, sniffed, allowed)
    IN  IF sniffed = Unconfirmed /\ resolved \in Signed THEN Refused ELSE resolved

\* ContentAccumulator.update and finish: neither empty nor over the limit.
WithinLimit(body, limit) == body.bytes > 0 /\ body.bytes <= limit

\* _check_declared_length: a length that was declared is the length that came,
\* unless the body was encoded and the length counts something else.
LengthHolds(body) ==
    body.declared = NoLength \/ body.encoded \/ body.bytes = body.declared

\* download: the format a body is stored under, or Refused.
Accepted(body, limit, allowed) ==
    IF WithinLimit(body, limit) /\ LengthHolds(body)
    THEN Resolve(body.media, body.name, body.sniffed, allowed)
    ELSE Refused

=============================================================================
