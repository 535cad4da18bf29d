----------------------------- MODULE LoadSystem -----------------------------
(***************************************************************************)
(* What puts code and data in place: static TLS, the image loaders, the PE *)
(* linker and the initrd, side by side. They share no state.               *)
(***************************************************************************)
EXTENDS Integers, Sequences, FiniteSets

CONSTANTS
    TlsModules, MaxObjects, tcb_size, tcb_align, MAX_ELF_TLS_SIZE, MainAlign,
    PageSize,
    Images, PageWords, MAX_PAGES, Moved, ImageFailures,
    WordSize, Ordinals, image_size, ImportFiles, Deltas, Names, Exports, ServerRva,
    kernel32_base,
    CPIO_HEADER_SIZE, NameSize, FileSizes, MaxEntries, Cuts

VARIABLES
    t_arch, t_objects, t_layout, i_image, i_seg, i_page, i_rel, i_pages,
    i_recorded, i_result, i_ignored, i_failures, e_file, e_delta, e_iat,
    e_fixed, e_idx, e_kernel32, e_protected, e_phase, a_archive,
    a_archive_len, a_offset, a_listed, a_done

TlsVars ==
    <<t_arch, t_objects, t_layout>>

ImageVars ==
    <<i_image, i_seg, i_page, i_rel, i_pages, i_recorded, i_result, i_ignored, i_failures>>

PeVars ==
    <<e_file, e_delta, e_iat, e_fixed, e_idx, e_kernel32, e_protected, e_phase>>

ArchiveVars ==
    <<a_archive, a_archive_len, a_offset, a_listed, a_done>>

-----------------------------------------------------------------------------
Tls == INSTANCE TlsLayout
    WITH Modules <- TlsModules, Page <- PageSize, arch <- t_arch,
         objects <- t_objects, layout <- t_layout

Image == INSTANCE ImageLoader
    WITH MaxFailures <- ImageFailures, image <- i_image, seg <- i_seg,
         page <- i_page, rel <- i_rel, pages <- i_pages, recorded <- i_recorded,
         result <- i_result, ignored <- i_ignored, failures <- i_failures

Pe == INSTANCE PeRtld
    WITH Files <- ImportFiles, file <- e_file, delta <- e_delta, iat <- e_iat, fixed <- e_fixed,
         idx <- e_idx, kernel32 <- e_kernel32, protected <- e_protected,
         phase <- e_phase

Archive == INSTANCE Cpio
    WITH archive <- a_archive, archive_len <- a_archive_len, offset <- a_offset,
         listed <- a_listed, done <- a_done
=============================================================================
