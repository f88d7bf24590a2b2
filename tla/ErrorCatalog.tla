---------------------------- MODULE ErrorCatalog ----------------------------
(***************************************************************************)
(* What an error answer tells its reader: the detail and the field errors  *)
(* in the reader's language, and the page its `type' leads to.  The tables *)
(* are kept apart in the code (the codes, the catalogue behind /errors,    *)
(* the messages of each locale, the class-validator constraints), and a    *)
(* failure passes through all of them.                                     *)
(***************************************************************************)
EXTENDS HttpErrors, Sequences

CONSTANT AcceptLanguages   \* Accept-Language headers: the languages in their order

General == {"malformed_request", "validation_failed", "not_found", "conflict", "forbidden",
            "unauthenticated", "rate_limited", "request_timeout", "payload_too_large",
            "unsupported_media_type", "internal_error", "service_unavailable", "cursor_malformed"}

ERROR_CODES ==
  General \cup
  {"user_not_found", "user_profile_not_found", "display_name_invalid", "user_role_invalid",
   "organization_invalid", "organization_not_found", "organization_access_denied",
   "invitation_invalid", "invitation_not_found", "member_not_found", "last_owner",
   "upload_not_found", "upload_already_confirmed", "upload_size_exceeded",
   "upload_mime_not_allowed", "upload_object_missing", "upload_content_mismatch",
   "upload_filename_invalid", "audit_entry_invalid"}

\* The compiler holds the catalogue to one entry per code.
ERROR_CATALOG == ERROR_CODES

VALIDATION_CODES == {"required", "wrong_type", "too_short", "too_long", "out_of_range", "invalid_email",
                     "invalid_uuid", "invalid_url", "invalid_date", "invalid_enum_value",
                     "invalid_format", "invalid_length", "unknown_field"}

BY_CONSTRAINT ==
  [isDefined |-> "required", isNotEmpty |-> "required", isNotEmptyObject |-> "required",
   isString |-> "wrong_type", isNumber |-> "wrong_type", isInt |-> "wrong_type",
   isBoolean |-> "wrong_type", isArray |-> "wrong_type", isObject |-> "wrong_type",
   isNumberString |-> "wrong_type", isLength |-> "invalid_length", minLength |-> "too_short",
   arrayMinSize |-> "too_short", maxLength |-> "too_long", arrayMaxSize |-> "too_long",
   min |-> "out_of_range", max |-> "out_of_range", isPositive |-> "out_of_range",
   isNegative |-> "out_of_range", isEmail |-> "invalid_email", isUuid |-> "invalid_uuid",
   isUrl |-> "invalid_url", isDate |-> "invalid_date", isDateString |-> "invalid_date",
   isIso8601 |-> "invalid_date", isIn |-> "invalid_enum_value", isEnum |-> "invalid_enum_value",
   matches |-> "invalid_format", isAlphanumeric |-> "invalid_format", isJson |-> "invalid_format",
   whitelistValidation |-> "unknown_field"]

ConstraintItself(constraint) == constraint

validationCodeFor(constraint) ==
  IF constraint \in DOMAIN BY_CONSTRAINT THEN BY_CONSTRAINT[constraint] ELSE constraint

\* The constraints the request DTOs declare, and the pipe's own for a field none of them has.
DtoConstraints == {"isString", "isInt", "isUuid", "isEmail", "isIn", "isLength", "matches", "min", "max",
                   "minLength", "maxLength", "whitelistValidation"}

SUPPORTED_LOCALES == {"en", "vi"}
DEFAULT_LOCALE == "en"

\* The keys of each locale's table.
messages == [l \in SUPPORTED_LOCALES |-> {<<"errors", c>> : c \in ERROR_CODES}
                                         \cup {<<"validation", v>> : v \in VALIDATION_CODES}]

\* I18nService.resolve looks at the first language only.
resolve(header) == IF header # <<>> /\ header[1] \in SUPPORTED_LOCALES THEN header[1] ELSE DEFAULT_LOCALE

\* I18nService.translate: the language of the text it finds, or "" for the bare key.
translate(key, locale) == IF key \in messages[locale] THEN locale
                          ELSE IF key \in messages[DEFAULT_LOCALE] THEN DEFAULT_LOCALE ELSE ""

\* The messages in the code are English: the fallback of every translation.
OrEnglish(language) == IF language = "" THEN "en" ELSE language

\* The language of an answer's detail: toProblem, translateDetail and fromHttpException.
detailLanguage(e, locale) ==
  CASE e.class = "domain" -> OrEnglish(translate(<<"errors", e.code>>, locale))
    [] e.class = "http" /\ e.status < 500 -> OrEnglish(translate(<<"errors", readCode(e)>>, locale))
    [] e.class = "unknown" \/ (e.class = "http" /\ e.status >= 500 /\ e.status # 503) ->
         OrEnglish(translate(<<"errors", "internal_error">>, locale))
    [] OTHER -> "en"

translateFieldError(constraint, locale) ==
  OrEnglish(translate(<<"validation", validationCodeFor(constraint)>>, locale))

\* The codes the API's use cases and entities throw, by the factory they use.
DomainErrors ==
  [malformed  |-> {"cursor_malformed"},
   validation |-> {"validation_failed", "display_name_invalid", "organization_invalid", "invitation_invalid",
                   "upload_object_missing", "upload_mime_not_allowed", "upload_size_exceeded",
                   "upload_content_mismatch", "upload_filename_invalid"},
   not_found  |-> {"user_not_found", "user_profile_not_found", "upload_not_found", "organization_not_found",
                   "invitation_not_found", "member_not_found"},
   conflict   |-> {"conflict", "last_owner", "upload_already_confirmed", "upload_not_found"},
   forbidden  |-> {"forbidden", "organization_access_denied", "invitation_not_found"}]

DomainFailures ==
  UNION {{Domain(kind, code) : code \in DomainErrors[kind]} : kind \in DOMAIN DomainErrors}

HttpFailures == {Http(status) : status \in {400, 401, 403, 404, 408, 413, 415, 429, 500, 503}}

PrismaFailures == {Prisma(code) : code \in DOMAIN BY_PRISMA_CODE \cup {"P1001"}}

ApiFailures == DomainFailures \cup HttpFailures \cup PrismaFailures \cup {Unknown}

VARIABLES failing,   \* the failure of a request, its header and its fields that are wrong
          told,      \* the answer: [code, detail, fields, type], or that there is none
          docPage    \* the page under /errors that the reader of the answer opened

errorCatalogVars == <<failing, told, docPage>>

NotTold == [code |-> "", detail |-> "", fields |-> {}, type |-> <<"", "">>]

ErrorCatalogInit ==
  /\ failing \in [exception : ApiFailures, languages : AcceptLanguages, fields : {{}}]
                 \cup [exception : {Domain("validation", "validation_failed")}, languages : AcceptLanguages,
                       fields : {{c} : c \in DtoConstraints}]
  /\ told = NotTold /\ docPage = "unopened"

\* A code's words are joined by dashes in a path, and by underscores elsewhere.
typeForCode(code) == <<"-", code>>

ReadSlug(slug) == slug[2]

TellFailure ==
  /\ told = NotTold
  /\ LET locale == resolve(failing.languages)
         problem == toProblem(failing.exception, 1)
     IN  told' = [code |-> problem.code, detail |-> detailLanguage(failing.exception, locale),
                  fields |-> {translateFieldError(c, locale) : c \in failing.fields},
                  type |-> typeForCode(problem.code)]
  /\ UNCHANGED <<failing, docPage>>

\* ErrorDocsController.read: the catalogue's page, or 404.
OpenType ==
  /\ told # NotTold /\ docPage = "unopened"
  /\ docPage' = IF ReadSlug(told.type) \in ERROR_CATALOG THEN ReadSlug(told.type) ELSE "not_found_page"
  /\ UNCHANGED <<failing, told>>

ErrorCatalogNext == TellFailure \/ OpenType

ErrorCatalogSpec == ErrorCatalogInit /\ [][ErrorCatalogNext]_errorCatalogVars
-----------------------------------------------------------------------------
\* The tables agree for every failure.  What the filter words itself, for a reader
\* whose first language it has, is in that language: the detail, and every field
\* error next to it.  The `type' of the answer leads to the page of its own code,
\* whether that came from a domain error, a status or a Prisma error.
ErrorIsExplained ==
  LET e == failing.exception
      worded == e.class \in {"domain", "unknown"} \/ (e.class = "http" /\ e.status # 503)
  IN  /\ told # NotTold /\ worded /\ failing.languages # <<>> /\ failing.languages[1] \in SUPPORTED_LOCALES =>
           {told.detail} \cup told.fields = {failing.languages[1]}
      /\ docPage # "unopened" => docPage = told.code

FailingRequests == [exception : ApiFailures, languages : AcceptLanguages, fields : SUBSET DtoConstraints]

\* The inductive invariant behind ErrorIsExplained: the code that is told is in the
\* catalogue, and the `type' next to it is that code's.
ExplainedInv ==
  /\ failing \in FailingRequests /\ ErrorIsExplained
  /\ told = NotTold => docPage = "unopened"
  /\ told # NotTold => told.code \in ERROR_CODES /\ told.type = typeForCode(told.code)
=============================================================================
