-------------------------- MODULE MCMassConservation --------------------------
(* Five bytes. Windows of two bytes at a stride of one may overlap, touch  *)
(* or stay apart; tables of words fit at both alignments of a word; matches *)
(* nest, touch and overlap.                                                 *)
EXTENDS MassConservation

MCRules == {"bijection_256", "source_bijection_256", "constant_words",
            "sustained_high", "source_rotate_xor", "source_composite",
            "binary_opcode_density", "modexp_loop", "montgomery_call",
            "pem_envelope", "base64_blob", "asn1_der",
            "key_length", "numeric_array", "high_entropy_string"}

MCAppliesTo == [
    benign_table_registry |-> MCRules,
    identity_byte_mapping |-> {"bijection_256", "source_bijection_256"},
    media_or_text_payload |-> {"base64_blob", "pem_envelope"},
    benign_crc_table |-> {"numeric_array"},
    ascii_text_not_der |-> {"asn1_der"},
    source_quote_bleed |-> {"high_entropy_string"},
    benign_arx |-> {"source_composite"}]
MCPredicates == DOMAIN MCAppliesTo

MCMatchLengths == {1, 4}
MCFindingRanges == {{}, {[start |-> 1, end |-> 3]}}
=============================================================================
