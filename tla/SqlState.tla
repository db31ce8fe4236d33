------------------------------ MODULE SqlState ------------------------------
(***************************************************************************)
(* From the SQLSTATE of an error to the exception the program catches.     *)
(*                                                                         *)
(* Two tables of the library have to agree.  internal::throw_sqlstate()    *)
(* picks an exception by the class, the first two characters, and within   *)
(* the class by the condition, the other three.  exception.hpp derives     *)
(* the exceptions from each other, which decides who catches what.  Both   *)
(* are translated on their own.  A condition that either table does not    *)
(* name is represented by one that PostgreSQL does not have.               *)
(***************************************************************************)
EXTENDS Naturals, TLC

VARIABLES
  reported,     \* the class and the condition the server reported last
  thrown        \* the exception that the library has thrown for it

sqlStateVars == << reported, thrown >>

\* A class with the exceptions of the conditions it has of its own
Class(e, cs) == [exception |-> e, conditions |-> cs]
Only(e) == Class(e, << >>)

-----------------------------------------------------------------------------
\* exception.cpp: the exceptions by class and condition.

\* Classes 00 to 08
ThrownNotices ==
  "00" :> Only("success") @@
  "01" :> Class("warning",
       "003" :> "null_value_eliminated_in_set_function" @@
       "004" :> "string_data_right_truncation<warning>" @@ "006" :> "privilege_not_revoked" @@
       "007" :> "privilege_not_granted" @@ "008" :> "implicit_zero_bit_padding" @@
       "00C" :> "dynamic_result_sets_returned" @@ "P01" :> "deprecated_feature") @@
  "02" :> Class("no_data",
       "001" :> "no_additional_dynamic_result_sets_returned") @@
  "03" :> Only("sql_statement_not_yet_complete") @@
  "08" :> Class("connection_error",
       "001" :> "sqlclient_unable_to_establish_sqlconnection" @@
       "003" :> "connection_does_not_exist" @@
       "004" :> "sqlserver_rejected_establishment_of_sqlconnection" @@
       "006" :> "connection_failure" @@ "007" :> "transaction_resolution_unknown" @@
       "P01" :> "protocol_violation")

\* Classes 09 to 21
ThrownRights ==
  "09" :> Only("triggered_action_exception") @@
  "0A" :> Only("feature_not_supported") @@
  "0B" :> Only("invalid_transaction_initiation") @@
  "0F" :> Class("locator_exception",
       "001" :> "invalid_locator_specification") @@
  "0L" :> Class("invalid_grantor",
       "P01" :> "invalid_grant_operation") @@
  "0P" :> Only("invalid_role_specification") @@
  "0Z" :> Class("diagnostics_exception",
       "002" :> "stacked_diagnostics_accessed_without_active_handler") @@
  "20" :> Only("case_not_found") @@
  "21" :> Only("cardinality_violation")

\* Class 22, the first half of its conditions
DataConditions1 ==
  "02E" :> "array_subscript_error" @@ "021" :> "character_not_in_repertoire" @@
  "008" :> "datetime_field_overflow" @@ "012" :> "division_by_zero" @@
  "005" :> "error_in_assignment" @@ "00B" :> "escape_character_conflict" @@
  "022" :> "indicator_overflow" @@ "015" :> "interval_field_overflow" @@
  "01E" :> "invalid_argument_for_logarithm" @@ "014" :> "invalid_argument_for_ntile_function" @@
  "016" :> "invalid_argument_for_nth_value_function" @@
  "01F" :> "invalid_argument_for_power_function" @@
  "01G" :> "invalid_argument_for_width_bucket_function" @@
  "018" :> "invalid_character_value_for_cast" @@ "007" :> "invalid_datetime_format" @@
  "019" :> "invalid_escape_character" @@ "00D" :> "invalid_escape_octet" @@
  "025" :> "invalid_escape_sequence" @@ "P06" :> "nonstandard_use_of_escape_character" @@
  "010" :> "invalid_indicator_parameter_value" @@ "023" :> "invalid_parameter_value" @@
  "013" :> "invalid_preceding_or_following_size" @@ "01B" :> "invalid_regular_expression" @@
  "01W" :> "invalid_row_count_in_limit_clause" @@
  "01X" :> "invalid_row_count_in_result_offset_clause" @@
  "02H" :> "invalid_tablesample_argument" @@ "02G" :> "invalid_tablesample_repeat" @@
  "009" :> "invalid_time_zone_displacement_value" @@ "00C" :> "invalid_use_of_escape_character" @@
  "00G" :> "most_specific_type_mismatch" @@ "004" :> "null_value_not_allowed" @@
  "002" :> "null_value_no_indicator_parameter" @@ "003" :> "numeric_value_out_of_range"

\* Class 22, the others
DataConditions2 ==
  "00H" :> "sequence_generator_limit_exceeded" @@ "026" :> "string_data_length_mismatch" @@
  "001" :> "string_data_right_truncation<data_exception>" @@ "011" :> "substring_error" @@
  "027" :> "trim_error" @@ "024" :> "unterminated_c_string" @@
  "00F" :> "zero_length_character_string" @@ "P01" :> "floating_point_exception" @@
  "P02" :> "invalid_text_representation" @@ "P03" :> "invalid_binary_representation" @@
  "P04" :> "bad_copy_file_format" @@ "P05" :> "untranslatable_character" @@
  "00L" :> "not_an_xml_document" @@ "00M" :> "invalid_xml_document" @@
  "00N" :> "invalid_xml_content" @@ "00S" :> "invalid_xml_comment" @@
  "00T" :> "invalid_xml_processing_instruction" @@ "030" :> "duplicate_json_object_key_value" @@
  "031" :> "invalid_argument_for_sql_json_datetime_function" @@ "032" :> "invalid_json_text" @@
  "033" :> "invalid_sql_json_subscript" @@ "034" :> "more_than_one_sql_json_item" @@
  "035" :> "no_sql_json_item" @@ "036" :> "non_numeric_sql_json_item" @@
  "037" :> "non_unique_keys_in_a_json_object" @@ "038" :> "singleton_sql_json_item_required" @@
  "039" :> "sql_json_array_not_found" @@ "03A" :> "sql_json_member_not_found" @@
  "03B" :> "sql_json_number_not_found" @@ "03C" :> "sql_json_object_not_found" @@
  "03D" :> "too_many_json_array_elements" @@ "03E" :> "too_many_json_object_members" @@
  "03F" :> "sql_json_scalar_required"

\* Classes 23 to 2F
ThrownConstraint ==
  "23" :> Class("integrity_constraint_violation",
       "001" :> "restrict_violation" @@ "502" :> "not_null_violation" @@
       "503" :> "foreign_key_violation" @@ "505" :> "unique_violation" @@
       "514" :> "check_violation" @@ "P01" :> "exclusion_violation") @@
  "24" :> Only("invalid_cursor_state") @@
  "25" :> Class("invalid_transaction_state",
       "001" :> "active_sql_transaction" @@ "002" :> "branch_transaction_already_active" @@
       "008" :> "held_cursor_requires_same_isolation_level" @@
       "003" :> "inappropriate_access_mode_for_branch_transaction" @@
       "004" :> "inappropriate_isolation_level_for_branch_transaction" @@
       "005" :> "no_active_sql_transaction_for_branch_transaction" @@
       "006" :> "read_only_sql_transaction" @@
       "007" :> "schema_and_data_statement_mixing_not_supported" @@
       "P01" :> "no_active_sql_transaction" @@ "P02" :> "in_failed_sql_transaction" @@
       "P03" :> "idle_in_transaction_session_timeout") @@
  "26" :> Only("invalid_sql_statement_name") @@
  "27" :> Only("triggered_data_change_violation") @@
  "28" :> Class("invalid_authorization_specification",
       "P01" :> "invalid_password") @@
  "2B" :> Class("dependent_privilege_descriptors_still_exist",
       "P01" :> "dependent_objects_still_exist") @@
  "2D" :> Only("invalid_transaction_termination") @@
  "2F" :> Class("sql_routine_exception",
       "002" :> "modifying_sql_data_not_permitted<sql_routine_exception>" @@
       "003" :> "prohibited_sql_statement_attempted<sql_routine_exception>" @@
       "004" :> "reading_sql_data_not_permitted<sql_routine_exception>" @@
       "005" :> "function_executed_no_return_statement")

\* Classes 34 to 40
ThrownRoutine ==
  "34" :> Only("invalid_cursor_name") @@
  "38" :> Class("external_routine_exception",
       "001" :> "containing_sql_not_permitted" @@
       "002" :> "modifying_sql_data_not_permitted<external_routine_exception>" @@
       "003" :> "prohibited_sql_statement_attempted<external_routine_exception>" @@
       "004" :> "reading_sql_data_not_permitted<external_routine_exception>") @@
  "39" :> Class("external_routine_invocation_exception",
       "001" :> "invalid_sqlstate_returned" @@ "004" :> "external_null_value_not_allowed" @@
       "P01" :> "trigger_protocol_violated" @@ "P02" :> "srf_protocol_violated" @@
       "P03" :> "event_trigger_protocol_violated") @@
  "3B" :> Class("savepoint_exception",
       "001" :> "invalid_savepoint_specification") @@
  "3D" :> Only("invalid_catalog_name") @@
  "3F" :> Only("invalid_schema_name") @@
  "40" :> Class("transaction_rollback",
       "001" :> "serialization_failure" @@ "002" :> "transaction_integrity_constraint_violation" @@
       "003" :> "statement_completion_unknown" @@ "P01" :> "deadlock_detected")

\* Classes 42 and 44
ThrownSyntax ==
  "42" :> Class("syntax_error_or_access_rule_violation",
       "501" :> "insufficient_privilege" @@ "601" :> "syntax_error" @@ "602" :> "invalid_name" @@
       "611" :> "invalid_column_definition" @@ "622" :> "name_too_long" @@
       "701" :> "duplicate_column" @@ "702" :> "ambiguous_column" @@ "703" :> "undefined_column" @@
       "704" :> "undefined_object" @@ "710" :> "duplicate_object" @@ "712" :> "duplicate_alias" @@
       "723" :> "duplicate_function" @@ "725" :> "ambiguous_function" @@
       "803" :> "grouping_error" @@ "804" :> "datatype_mismatch" @@ "809" :> "wrong_object_type" @@
       "830" :> "invalid_foreign_key" @@ "846" :> "cannot_coerce" @@
       "883" :> "undefined_function" @@ "8C9" :> "generated_always" @@ "939" :> "reserved_name" @@
       "P01" :> "undefined_table" @@ "P02" :> "undefined_parameter" @@
       "P03" :> "duplicate_cursor" @@ "P04" :> "duplicate_database" @@
       "P05" :> "duplicate_prepared_statement" @@ "P06" :> "duplicate_schema" @@
       "P07" :> "duplicate_table" @@ "P08" :> "ambiguous_parameter" @@
       "P09" :> "ambiguous_alias" @@ "P10" :> "invalid_column_reference" @@
       "P11" :> "invalid_cursor_definition" @@ "P12" :> "invalid_database_definition" @@
       "P13" :> "invalid_function_definition" @@
       "P14" :> "invalid_prepared_statement_definition" @@ "P15" :> "invalid_schema_definition" @@
       "P16" :> "invalid_table_definition" @@ "P17" :> "invalid_object_definition" @@
       "P18" :> "indeterminate_datatype" @@ "P19" :> "invalid_recursion" @@
       "P20" :> "windowing_error" @@ "P21" :> "collation_mismatch" @@
       "P22" :> "indeterminate_collation") @@
  "44" :> Only("with_check_option_violation")

\* Classes 53 to F0
ThrownServer ==
  "53" :> Class("insufficient_resources",
       "100" :> "disk_full" @@ "200" :> "out_of_memory" @@ "300" :> "too_many_connections" @@
       "400" :> "configuration_limit_exceeded") @@
  "54" :> Class("program_limit_exceeded",
       "001" :> "statement_too_complex" @@ "011" :> "too_many_columns" @@
       "023" :> "too_many_arguments") @@
  "55" :> Class("object_not_in_prerequisite_state",
       "006" :> "object_in_use" @@ "P02" :> "cant_change_runtime_param" @@
       "P03" :> "lock_not_available" @@ "P04" :> "unsafe_new_enum_value_usage") @@
  "57" :> Class("operator_intervention",
       "014" :> "query_canceled" @@ "P01" :> "admin_shutdown" @@ "P02" :> "crash_shutdown" @@
       "P03" :> "cannot_connect_now" @@ "P04" :> "database_dropped") @@
  "58" :> Class("system_error",
       "030" :> "io_error" @@ "P01" :> "undefined_file" @@ "P02" :> "duplicate_file") @@
  "72" :> Only("snapshot_too_old") @@
  "F0" :> Class("config_file_error",
       "001" :> "lock_file_exists")

\* Classes HV, P0 and XX
ThrownForeign ==
  "HV" :> Class("fdw_error",
       "001" :> "fdw_out_of_memory" @@ "002" :> "fdw_dynamic_parameter_value_needed" @@
       "004" :> "fdw_invalid_data_type" @@ "005" :> "fdw_column_name_not_found" @@
       "006" :> "fdw_invalid_data_type_descriptors" @@ "007" :> "fdw_invalid_column_name" @@
       "008" :> "fdw_invalid_column_number" @@ "009" :> "fdw_invalid_use_of_null_pointer" @@
       "00A" :> "fdw_invalid_string_format" @@ "00B" :> "fdw_invalid_handle" @@
       "00C" :> "fdw_invalid_option_index" @@ "00D" :> "fdw_invalid_option_name" @@
       "00J" :> "fdw_option_name_not_found" @@ "00K" :> "fdw_reply_handle" @@
       "00L" :> "fdw_unable_to_create_execution" @@ "00M" :> "fdw_unable_to_create_reply" @@
       "00N" :> "fdw_unable_to_establish_connection" @@ "00P" :> "fdw_no_schemas" @@
       "00Q" :> "fdw_schema_not_found" @@ "00R" :> "fdw_table_not_found" @@
       "010" :> "fdw_function_sequence_error" @@ "014" :> "fdw_too_many_handles" @@
       "021" :> "fdw_inconsistent_descriptor_information" @@
       "024" :> "fdw_invalid_attribute_value" @@
       "090" :> "fdw_invalid_string_length_or_buffer_length" @@
       "091" :> "fdw_invalid_descriptor_field_identifier") @@
  "P0" :> Class("plpgsql_error",
       "001" :> "raise_exception" @@ "002" :> "no_data_found" @@ "003" :> "too_many_rows" @@
       "004" :> "assert_failure") @@
  "XX" :> Class("internal_error",
       "001" :> "data_corrupted" @@ "002" :> "index_corrupted")

\* Class 22 and the condition exceptions it shares with no other class
ThrownData == "22" :> Class("data_exception", DataConditions1 @@ DataConditions2)

Classes ==
  ThrownNotices @@ ThrownRights @@ ThrownData @@ ThrownConstraint @@
  ThrownRoutine @@ ThrownSyntax @@ ThrownServer @@ ThrownForeign

Recognised(s) ==
  s[1] \in DOMAIN Classes /\ s[2] \in DOMAIN Classes[s[1]].conditions

\* Mistake: the conditions are never compared.
ThrownByClass(s) ==
  IF s[1] \in DOMAIN Classes THEN Classes[s[1]].exception ELSE "sql_error"

Thrown(s) ==
  CASE Recognised(s) -> Classes[s[1]].conditions[s[2]]
    [] ~Recognised(s) /\ s[1] \in DOMAIN Classes -> Classes[s[1]].exception
    [] OTHER -> "sql_error"

-----------------------------------------------------------------------------
\* exception.hpp: the exceptions derived from each exception.

\* classes 01 to 08
DerivedNotices ==
  "warning" :> {
    "null_value_eliminated_in_set_function", "string_data_right_truncation<warning>",
    "privilege_not_revoked", "privilege_not_granted", "implicit_zero_bit_padding",
    "dynamic_result_sets_returned", "deprecated_feature"} @@
  "no_data" :> {
    "no_additional_dynamic_result_sets_returned"} @@
  "connection_error" :> {
    "sqlclient_unable_to_establish_sqlconnection", "connection_does_not_exist",
    "sqlserver_rejected_establishment_of_sqlconnection", "connection_failure",
    "transaction_resolution_unknown", "protocol_violation"}

\* classes 09 to 21
DerivedRights ==
  "locator_exception" :> {
    "invalid_locator_specification"} @@
  "invalid_grantor" :> {
    "invalid_grant_operation"} @@
  "diagnostics_exception" :> {
    "stacked_diagnostics_accessed_without_active_handler"}

\* class 22, the first part of its conditions
DataDerived1 == {
  "array_subscript_error", "character_not_in_repertoire", "datetime_field_overflow",
  "division_by_zero", "error_in_assignment", "escape_character_conflict", "indicator_overflow",
  "interval_field_overflow", "invalid_argument_for_logarithm",
  "invalid_argument_for_ntile_function", "invalid_argument_for_nth_value_function",
  "invalid_argument_for_power_function", "invalid_argument_for_width_bucket_function",
  "invalid_character_value_for_cast", "invalid_datetime_format", "invalid_escape_character",
  "invalid_escape_octet"}

\* class 22, the second part of its conditions
DataDerived2 == {
  "invalid_escape_sequence", "nonstandard_use_of_escape_character",
  "invalid_indicator_parameter_value", "invalid_parameter_value",
  "invalid_preceding_or_following_size", "invalid_regular_expression",
  "invalid_row_count_in_limit_clause", "invalid_row_count_in_result_offset_clause",
  "invalid_tablesample_argument", "invalid_tablesample_repeat",
  "invalid_time_zone_displacement_value", "invalid_use_of_escape_character",
  "most_specific_type_mismatch", "null_value_not_allowed", "null_value_no_indicator_parameter",
  "numeric_value_out_of_range", "sequence_generator_limit_exceeded"}

\* class 22, the third part of its conditions
DataDerived3 == {
  "string_data_length_mismatch", "string_data_right_truncation<data_exception>", "substring_error",
  "trim_error", "unterminated_c_string", "zero_length_character_string",
  "floating_point_exception", "invalid_text_representation", "invalid_binary_representation",
  "bad_copy_file_format", "untranslatable_character", "not_an_xml_document",
  "invalid_xml_document", "invalid_xml_content", "invalid_xml_comment",
  "invalid_xml_processing_instruction"}

\* class 22, the last part of its conditions
DataDerived4 == {
  "duplicate_json_object_key_value", "invalid_argument_for_sql_json_datetime_function",
  "invalid_json_text", "invalid_sql_json_subscript", "more_than_one_sql_json_item",
  "no_sql_json_item", "non_numeric_sql_json_item", "non_unique_keys_in_a_json_object",
  "singleton_sql_json_item_required", "sql_json_array_not_found", "sql_json_member_not_found",
  "sql_json_number_not_found", "sql_json_object_not_found", "too_many_json_array_elements",
  "too_many_json_object_members", "sql_json_scalar_required"}

\* classes 23 to 2D
DerivedConstraint ==
  "integrity_constraint_violation" :> {
    "restrict_violation", "not_null_violation", "foreign_key_violation", "unique_violation",
    "check_violation", "exclusion_violation"} @@
  "invalid_transaction_state" :> {
    "active_sql_transaction", "branch_transaction_already_active",
    "held_cursor_requires_same_isolation_level",
    "inappropriate_access_mode_for_branch_transaction",
    "inappropriate_isolation_level_for_branch_transaction",
    "no_active_sql_transaction_for_branch_transaction", "read_only_sql_transaction",
    "schema_and_data_statement_mixing_not_supported", "no_active_sql_transaction",
    "in_failed_sql_transaction", "idle_in_transaction_session_timeout"} @@
  "invalid_authorization_specification" :> {
    "invalid_password"} @@
  "dependent_privilege_descriptors_still_exist" :> {
    "dependent_objects_still_exist"}

\* classes 2F to 3F
DerivedRoutine ==
  "sql_routine_exception" :> {
    "modifying_sql_data_not_permitted<sql_routine_exception>",
    "prohibited_sql_statement_attempted<sql_routine_exception>",
    "reading_sql_data_not_permitted<sql_routine_exception>", "function_executed_no_return_statement"} @@
  "external_routine_exception" :> {
    "containing_sql_not_permitted", "modifying_sql_data_not_permitted<external_routine_exception>",
    "prohibited_sql_statement_attempted<external_routine_exception>",
    "reading_sql_data_not_permitted<external_routine_exception>"} @@
  "external_routine_invocation_exception" :> {
    "invalid_sqlstate_returned", "external_null_value_not_allowed", "trigger_protocol_violated",
    "srf_protocol_violated", "event_trigger_protocol_violated"} @@
  "savepoint_exception" :> {
    "invalid_savepoint_specification"}

\* class 40
DerivedRollback ==
  "transaction_rollback" :> {
    "serialization_failure", "transaction_integrity_constraint_violation",
    "statement_completion_unknown", "deadlock_detected"}

\* class 42, the first part of its conditions
SyntaxDerived1 == {
  "insufficient_privilege", "syntax_error", "invalid_name", "invalid_column_definition",
  "name_too_long", "duplicate_column", "ambiguous_column", "undefined_column", "undefined_object",
  "duplicate_object", "duplicate_alias", "duplicate_function", "ambiguous_function",
  "grouping_error", "datatype_mismatch", "wrong_object_type", "invalid_foreign_key",
  "cannot_coerce", "undefined_function", "generated_always", "reserved_name", "undefined_table"}

\* class 42, the others
SyntaxDerived2 == {
  "undefined_parameter", "duplicate_cursor", "duplicate_database", "duplicate_prepared_statement",
  "duplicate_schema", "duplicate_table", "ambiguous_parameter", "ambiguous_alias",
  "invalid_column_reference", "invalid_cursor_definition", "invalid_database_definition",
  "invalid_function_definition", "invalid_prepared_statement_definition",
  "invalid_schema_definition", "invalid_table_definition", "invalid_object_definition",
  "indeterminate_datatype", "invalid_recursion", "windowing_error", "collation_mismatch",
  "indeterminate_collation"}

\* classes 44 to F0
DerivedServer ==
  "insufficient_resources" :> {
    "disk_full", "out_of_memory", "too_many_connections", "configuration_limit_exceeded"} @@
  "program_limit_exceeded" :> {
    "statement_too_complex", "too_many_columns", "too_many_arguments"} @@
  "object_not_in_prerequisite_state" :> {
    "object_in_use", "cant_change_runtime_param", "lock_not_available",
    "unsafe_new_enum_value_usage"} @@
  "operator_intervention" :> {
    "query_canceled", "admin_shutdown", "crash_shutdown", "cannot_connect_now", "database_dropped"} @@
  "system_error" :> {
    "io_error", "undefined_file", "duplicate_file"} @@
  "config_file_error" :> {
    "lock_file_exists"}

\* class HV
DerivedForeign ==
  "fdw_error" :> {
    "fdw_out_of_memory", "fdw_dynamic_parameter_value_needed", "fdw_invalid_data_type",
    "fdw_column_name_not_found", "fdw_invalid_data_type_descriptors", "fdw_invalid_column_name",
    "fdw_invalid_column_number", "fdw_invalid_use_of_null_pointer", "fdw_invalid_string_format",
    "fdw_invalid_handle", "fdw_invalid_option_index", "fdw_invalid_option_name",
    "fdw_option_name_not_found", "fdw_reply_handle", "fdw_unable_to_create_execution",
    "fdw_unable_to_create_reply", "fdw_unable_to_establish_connection", "fdw_no_schemas",
    "fdw_schema_not_found", "fdw_table_not_found", "fdw_function_sequence_error",
    "fdw_too_many_handles", "fdw_inconsistent_descriptor_information",
    "fdw_invalid_attribute_value", "fdw_invalid_string_length_or_buffer_length",
    "fdw_invalid_descriptor_field_identifier"}

\* classes P0 and XX
DerivedInternal ==
  "plpgsql_error" :> {
    "raise_exception", "no_data_found", "too_many_rows", "assert_failure"} @@
  "internal_error" :> {
    "data_corrupted", "index_corrupted"}

\* the exceptions of the classes
ClassExceptions == {
  "success", "warning", "no_data", "sql_statement_not_yet_complete", "connection_error",
  "triggered_action_exception", "feature_not_supported", "invalid_transaction_initiation",
  "locator_exception", "invalid_grantor", "invalid_role_specification", "diagnostics_exception",
  "case_not_found", "cardinality_violation", "data_exception", "integrity_constraint_violation",
  "invalid_cursor_state", "invalid_transaction_state", "invalid_sql_statement_name",
  "triggered_data_change_violation", "invalid_authorization_specification",
  "dependent_privilege_descriptors_still_exist", "invalid_transaction_termination",
  "sql_routine_exception", "invalid_cursor_name", "external_routine_exception",
  "external_routine_invocation_exception", "savepoint_exception", "invalid_catalog_name",
  "invalid_schema_name", "transaction_rollback", "syntax_error_or_access_rule_violation",
  "with_check_option_violation", "insufficient_resources", "program_limit_exceeded",
  "object_not_in_prerequisite_state", "operator_intervention", "system_error", "snapshot_too_old",
  "config_file_error", "fdw_error", "plpgsql_error", "internal_error"}

Roots ==
  "std::runtime_error" :> {"error"} @@
  "error" :> {"timeout_reached", "network_error", "sql_error"} @@
  "sql_error" :> ClassExceptions

Derived ==
  Roots @@ DerivedNotices @@ DerivedRights @@ DerivedConstraint @@ DerivedRoutine @@
  DerivedRollback @@ DerivedServer @@ DerivedForeign @@ DerivedInternal @@
  "data_exception" :> DataDerived1 \cup DataDerived2 \cup DataDerived3 \cup DataDerived4 @@
  "syntax_error_or_access_rule_violation" :> SyntaxDerived1 \cup SyntaxDerived2

Exceptions == DOMAIN Derived \cup UNION { Derived[b] : b \in DOMAIN Derived }

\* An exception and its bases: a handler for any of them catches it.
Caught[e \in Exceptions] ==
  {e} \cup UNION { Caught[b] : b \in { x \in DOMAIN Derived : e \in Derived[x] } }

-----------------------------------------------------------------------------
\* Every SQLSTATE one of the tables names, a condition that no class has,
\* and a class that neither table has.
SqlStates ==
  UNION { {c} \X (DOMAIN Classes[c].conditions \cup {"???"}) : c \in DOMAIN Classes }
    \cup {<< "??", "???" >>}

NoState == << "", "" >>

\* A statement fails on the server.
Report(s) ==
  /\ reported' = s
  /\ thrown' = Thrown(s)

\* libpq makes up the result itself, as when the connection is lost: it has
\* no SQLSTATE, and what is thrown is none of the library's exceptions.
ReportNone ==
  /\ reported' = NoState
  /\ thrown' = "std::runtime_error"

\* connection_error( what ): no result at all, with a state made up for it
ReportConnection ==
  /\ reported' = << "08", "000" >>
  /\ thrown' = "connection_error"

SqlStateInit == reported = NoState /\ thrown = "none"

SqlStateNext ==
  \/ \E s \in SqlStates : Report(s)
  \/ ReportNone
  \/ ReportConnection

-----------------------------------------------------------------------------
\* A handler for the exception of a class catches every error of that class,
\* with a condition that is known or not, and none of any other: a program
\* that retries after transaction_rollback retries exactly class 40.  An error
\* of an unknown class is caught as sql_error and by no class's handler.
ClassHandlersExact ==
  reported # NoState =>
    /\ "sql_error" \in Caught[thrown]
    /\ \A c \in DOMAIN Classes : Classes[c].exception \in Caught[thrown] <=> c = reported[1]

\* A handler for the exception of a condition catches that condition alone:
\* no other SQLSTATE ends in the same exception or in one derived from it.
ConditionHandlersExact ==
  Recognised(reported) =>
    \A s \in SqlStates \ {reported} : thrown \notin Caught[Thrown(s)]

\* Catching an exception by its class or condition catches just what it says.
HandlersExact == ClassHandlersExact /\ ConditionHandlersExact
=============================================================================
