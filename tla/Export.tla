------------------------------- MODULE Export -------------------------------
(***************************************************************************)
(* The export task of the ladder (forge.train.export in                    *)
(* run_phase3_export.sh): the adapter of the exported job is merged into    *)
(* the base model, the merged model quantised, and both are described by a  *)
(* manifest beside them and a durable copy of it under results/.  The task  *)
(* shares the GPU, the budget and the ledger with the training sessions.    *)
(***************************************************************************)
EXTENDS Training

VARIABLES
    merged,     \* merged_bf16/: the adapter merged into it and how much is written
    quantized,  \* gptq_int4/: the merged model it was quantised from
    manifest,   \* export_manifest.json beside the two
    durable     \* the copy under results/

exports == <<merged, quantized, manifest, durable>>
allVars == <<vars, exports>>

EInit == Init /\ merged = Absent /\ quantized = Absent /\ manifest = Absent /\ durable = Absent

MergedExists == merged # Absent

(* The merged directory is reused only if its index, its shards and its      *)
(* tokenizer are there.                                                      *)
CompleteMergedExport == merged.written = "complete"

(* A kept manifest is copied again; a source without its training receipt,   *)
(* and a merged directory that an earlier attempt left half written, stop    *)
(* the task.                                                                 *)
StartExport ==
    /\ At(Exporter, "preflight")
    /\ IF ~Preflight(Exported) \/ trained[Exported] = Absent
       THEN Goto(Exporter, "trap") /\ UNCHANGED durable
       ELSE IF manifest # Absent
       THEN Goto(Exporter, "append ledger") /\ durable' = manifest
       ELSE /\ UNCHANGED durable
            /\ Goto(Exporter, IF merged = Absent THEN "merge"
                              ELSE IF CompleteMergedExport THEN "quantize" ELSE "trap")
    /\ UNCHANGED <<attempts, files, books, commit, lost, merged, quantized, manifest>>

(* The directory is made and filled shard by shard; its index and tokenizer  *)
(* come last.                                                                *)
BeginMerge ==
    /\ At(Exporter, "merge") /\ merged = Absent
    /\ merged' = [adapter |-> adapter[Exported], written |-> "partial"]
    /\ UNCHANGED <<vars, quantized, manifest, durable>>

FinishMerge ==
    /\ At(Exporter, "merge") /\ merged # Absent
    /\ merged' = [merged EXCEPT !.written = "complete"]
    /\ Goto(Exporter, "quantize")
    /\ UNCHANGED <<attempts, files, books, commit, lost, quantized, manifest, durable>>

Quantize ==
    /\ At(Exporter, "quantize")
    /\ quantized' = merged
    /\ Goto(Exporter, "manifest")
    /\ UNCHANGED <<attempts, files, books, commit, lost, merged, manifest, durable>>

(* The manifest hashes the source adapter and the two directories as they    *)
(* are now.                                                                  *)
WriteManifest ==
    /\ At(Exporter, "manifest")
    /\ manifest' = [source |-> adapter[Exported], merged |-> merged, quantized |-> quantized]
    /\ Goto(Exporter, "durable")
    /\ UNCHANGED <<attempts, files, books, commit, lost, merged, quantized, durable>>

WriteDurable ==
    /\ At(Exporter, "durable")
    /\ durable' = manifest
    /\ Goto(Exporter, "append ledger")
    /\ UNCHANGED <<attempts, files, books, commit, lost, merged, quantized, manifest>>

BillExport ==
    /\ At(Exporter, "append ledger")
    /\ \E h \in Hours : ledger' = ledger \cup {LedgerRow(Exporter, "complete", h)}
    /\ Goto(Exporter, "finalized")
    /\ UNCHANGED <<attempts, files, runs, policy, commit, lost, exports>>

FinishExport ==
    /\ \/ At(Exporter, "finalized") /\ Goto(Exporter, "completed")
       \/ At(Exporter, "completed") /\ session' = [session EXCEPT ![Exporter] = Absent]
    /\ UNCHANGED <<attempts, files, books, commit, lost, exports>>

ENext ==
    \/ Next /\ UNCHANGED exports
    \/ StartExport \/ BeginMerge \/ FinishMerge \/ Quantize
    \/ WriteManifest \/ WriteDurable \/ BillExport \/ FinishExport

ESpec == EInit /\ [][ENext]_allVars

-----------------------------------------------------------------------------
(* What the serving phase reads: a durable manifest describes a whole merge  *)
(* of the adapter the training receipt names and its quantisation, whatever  *)
(* attempts were interrupted before (export.py reuses their directories).    *)
ExportSound ==
    durable # Absent =>
        /\ durable = manifest
        /\ manifest.source = trained[Exported]
        /\ manifest.merged = [adapter |-> trained[Exported], written |-> "complete"]
        /\ manifest.quantized = manifest.merged
=============================================================================
